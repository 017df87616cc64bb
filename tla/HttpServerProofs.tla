-------------------------- MODULE HttpServerProofs --------------------------
(***************************************************************************)
(* Proofs about HttpServer: whatever the paths, mount points and files, no *)
(* file outside the mounted directory is sent; and whatever the requests   *)
(* and their pieces, keepAliveRequests counts the answers of an open       *)
(* connection and forgets a connection the server has closed.              *)
(***************************************************************************)
EXTENDS HttpServer, SequenceTheorems, FiniteSetTheorems, WellFoundedInduction, TLAPS

-----------------------------------------------------------------------------
(* Numbers and sequences *)

\* A set of numbers that is not empty has a least one.
LEMMA LeastNumber ==
    ASSUME NEW T \in SUBSET Nat, T # {}
    PROVE  \E x \in T : \A y \in T : x <= y
<1> DEFINE R == OpToRel(<, Nat)
<1>1. \A x, y \in Nat : y < x => <<y, x>> \in R BY DEF OpToRel
<1>2. IsWellFoundedOn(R, Nat) BY NatLessThanWellFounded
<1> HIDE DEF R
<1>3. PICK x \in T : \A y \in T : ~(<<y, x>> \in R) BY <1>2, WFMin
<1>4. \A y \in T : x \in Nat /\ y \in Nat /\ ~(y < x) BY <1>1, <1>3
<1> QED BY <1>4

\* What is left of a sequence.
LEMMA DropType ==
    ASSUME NEW S, NEW s \in Seq(S), NEW n \in Nat
    PROVE  Drop(s, n) \in Seq(S)
BY DEF Drop

-----------------------------------------------------------------------------
(* Paths *)

\* Components is a sequence.
LEMMA ComponentsSequence ==
    ASSUME NEW path \in Seq(Chars)
    PROVE  \E S : Components(path) \in Seq(S)
<1> DEFINE starts == {i \in 1..Len(path) : path[i] # "/" /\ (i = 1 \/ path[i - 1] = "/")}
           S == {Components(path)[n] : n \in 1..Cardinality(starts)}
<1>1. IsFiniteSet(1..Len(path)) BY FS_Interval
<1>2. IsFiniteSet(starts) BY <1>1, FS_Subset
<1>3. Cardinality(starts) \in Nat BY <1>2, FS_CardinalityType
<1> DEFINE Nth(n) == CHOOSE i \in starts : Cardinality({j \in starts : j <= i}) = n
           Word(i) == SubSeq(path, i, CHOOSE j \in i..Len(path) :
                                /\ \A k \in i..j : path[k] # "/"
                                /\ j = Len(path) \/ path[j + 1] = "/")
<1>4. Components(path) = [n \in 1..Cardinality(starts) |-> Word(Nth(n))]
    BY Zenon DEF Components
<1> HIDE DEF Nth, Word, starts
<1>5. Components(path) \in [1..Cardinality(starts) -> S] BY <1>4
<1> HIDE DEF S
<1>6. Components(path) \in Seq(S) BY <1>3, <1>5
<1> QED BY <1>6

\* One more component: the level goes up, down or stays.
LEMMA LevelStep ==
    ASSUME NEW S, NEW cs \in Seq(S), NEW n \in 1..Len(cs)
    PROVE  /\ Level(cs, n) \in Int /\ Level(cs, n - 1) \in Int
           /\ cs[n] = Dot => Level(cs, n) = Level(cs, n - 1)
           /\ cs[n] = DotDot => Level(cs, n) = Level(cs, n - 1) - 1
           /\ cs[n] \notin {Dot, DotDot} => Level(cs, n) = Level(cs, n - 1) + 1
<1> DEFINE U(k) == {i \in 1..k : cs[i] \notin {Dot, DotDot}}
           D(k) == {i \in 1..k : cs[i] = DotDot}
<1>1. \A k \in 0..Len(cs) : IsFiniteSet(U(k)) /\ IsFiniteSet(D(k))
  <2> TAKE k \in 0..Len(cs)
  <2>1. IsFiniteSet(1..k) BY FS_Interval
  <2>2. U(k) \in SUBSET (1..k) /\ D(k) \in SUBSET (1..k) OBVIOUS
  <2> QED BY <2>1, <2>2, FS_Subset
<1>2. n \in 0..Len(cs) /\ n - 1 \in 0..Len(cs) OBVIOUS
<1>3. /\ Cardinality(U(n)) \in Nat /\ Cardinality(U(n - 1)) \in Nat
      /\ Cardinality(D(n)) \in Nat /\ Cardinality(D(n - 1)) \in Nat
    BY <1>1, <1>2, FS_CardinalityType
<1>4. /\ Level(cs, n) = Cardinality(U(n)) - Cardinality(D(n))
      /\ Level(cs, n - 1) = Cardinality(U(n - 1)) - Cardinality(D(n - 1))
    BY DEF Level
<1>5. n \notin U(n - 1) /\ n \notin D(n - 1) OBVIOUS
<1>6. Dot # DotDot BY DEF Dot, DotDot
<1>7. cs[n] \notin {Dot, DotDot} => U(n) = U(n - 1) \cup {n} /\ D(n) = D(n - 1) OBVIOUS
<1>8. cs[n] = DotDot => U(n) = U(n - 1) /\ D(n) = D(n - 1) \cup {n} BY <1>6
<1>9. cs[n] = Dot => U(n) = U(n - 1) /\ D(n) = D(n - 1) BY <1>6
<1> HIDE DEF U, D
<1>10. /\ Cardinality(U(n - 1) \cup {n}) = Cardinality(U(n - 1)) + 1
       /\ Cardinality(D(n - 1) \cup {n}) = Cardinality(D(n - 1)) + 1
    BY <1>1, <1>2, <1>5, FS_AddElement
<1> DEFINE u1 == Cardinality(U(n))
           u == Cardinality(U(n - 1))
           d1 == Cardinality(D(n))
           d == Cardinality(D(n - 1))
<1>11. cs[n] = Dot => u1 = u /\ d1 = d BY <1>9
<1>12. cs[n] = DotDot => u1 = u /\ d1 = d + 1 BY <1>8, <1>10
<1>13. cs[n] \notin {Dot, DotDot} => u1 = u + 1 /\ d1 = d BY <1>7, <1>10
<1>14. u1 \in Nat /\ u \in Nat /\ d1 \in Nat /\ d \in Nat BY <1>3
<1>15. Level(cs, n) = u1 - d1 /\ Level(cs, n - 1) = u - d BY <1>4
<1> HIDE DEF u1, u, d1, d
<1> QED BY <1>6, <1>11, <1>12, <1>13, <1>14, <1>15

LEMMA LevelZero == ASSUME NEW cs PROVE Level(cs, 0) = 0
<1>1. \A p : {i \in 1..0 : cs[i] \notin {Dot, DotDot}} = {} /\ {i \in 1..0 : cs[i] = DotDot} = {}
    OBVIOUS
<1>2. Cardinality({}) = 0 BY FS_EmptySet
<1> QED BY <1>1, <1>2 DEF Level

\* Walk is what its definition says: the recursion defines a function.
LEMMA WalkSteps ==
    ASSUME NEW dir, NEW S, NEW names \in Seq(S)
    PROVE  /\ Walk(dir, names)[0] = dir
           /\ \A n \in 1..Len(names) :
                 Walk(dir, names)[n] = Enter(Walk(dir, names)[n - 1], names[n])
<1> DEFINE At(w, n) == IF n = 0 THEN dir ELSE Enter(w[n - 1], names[n])
           Is(w, m) == w = [n \in 0..m |-> At(w, n)]
           Bad == {m \in Nat : m <= Len(names) /\ ~\E w : Is(w, m)}
<1> Len(names) \in Nat OBVIOUS
<1>1. Bad = {}
  <2> SUFFICES ASSUME Bad # {} PROVE FALSE OBVIOUS
  <2>1. PICK m \in Bad : \A k \in Bad : m <= k BY LeastNumber
  <2>2. CASE m = 0
    <3> DEFINE w == [n \in 0..m |-> dir]
    <3>1. \A n \in 0..m : At(w, n) = dir BY <2>2
    <3>2. Is(w, m) BY <3>1
    <3> QED BY <2>1, <3>2
  <2>3. CASE m # 0
    <3>1. m \in Nat /\ m <= Len(names) /\ m - 1 \in Nat /\ m - 1 <= Len(names) /\ ~(m <= m - 1)
        BY <2>1, <2>3
    <3>2. m - 1 \notin Bad BY <2>1, <3>1
    <3>3. PICK w : Is(w, m - 1) BY <3>1, <3>2
    <3> DEFINE v == [n \in 0..m |-> IF n < m THEN w[n] ELSE Enter(w[m - 1], names[m])]
    <3>4. \A n \in 0..(m - 1) : w[n] = At(w, n) BY <3>3
    <3>5. \A n \in 0..m : v[n] = At(v, n)
      <4> TAKE n \in 0..m
      <4>1. CASE n = 0
        <5>1. n < m /\ n \in 0..(m - 1) BY <3>1, <4>1
        <5>2. v[n] = w[n] /\ w[n] = dir BY <3>4, <4>1, <5>1
        <5> QED BY <4>1, <5>2
      <4>2. CASE n # 0 /\ n < m
        <5>1. n \in 0..(m - 1) /\ n - 1 \in 0..m /\ n - 1 < m BY <3>1, <4>2
        <5>2. v[n - 1] = w[n - 1] /\ v[n] = w[n] BY <4>2, <5>1
        <5>3. w[n] = Enter(w[n - 1], names[n]) BY <3>4, <4>2, <5>1
        <5> QED BY <4>2, <5>2, <5>3
      <4>3. CASE n = m
        <5>1. n - 1 \in 0..m /\ n - 1 < m /\ ~(n < m) BY <3>1, <4>3
        <5>2. v[n - 1] = w[m - 1] /\ v[n] = Enter(w[m - 1], names[m]) BY <4>3, <5>1
        <5> QED BY <2>3, <4>3, <5>2
      <4> QED BY <3>1, <4>1, <4>2, <4>3
    <3> HIDE DEF At
    <3>6. v = [n \in 0..m |-> v[n]] OBVIOUS
    <3>7. Is(v, m) BY <3>5, <3>6
    <3> QED BY <2>1, <3>7
  <2> QED BY <2>2, <2>3
<1>2. \E w : Is(w, Len(names)) BY <1>1
<1>3. Walk(dir, names) = CHOOSE w : Is(w, Len(names)) BY Zenon DEF Walk
<1> DEFINE W == Walk(dir, names)
<1>4. Is(W, Len(names)) BY <1>2, <1>3
<1> HIDE DEF W
<1>5. \A n \in 0..Len(names) : W[n] = At(W, n) BY <1>4
<1>6. W[0] = dir /\ \A n \in 1..Len(names) : W[n] = Enter(W[n - 1], names[n]) BY <1>5
<1> QED BY <1>6 DEF W

LEMMA DirsAreNames == \A d \in Dirs : d \in Seq(Seq(Chars))
<1> TAKE d \in Dirs
<1>1. PICK f \in Files : \E n \in 0..(Len(f) - 1) : d = SubSeq(f, 1, n) BY DEF Dirs
<1>2. PICK n \in 0..(Len(f) - 1) : d = SubSeq(f, 1, n) BY <1>1
<1>3. f \in Seq(Seq(Chars)) BY <1>1, HttpAssumption
<1> HIDE <1>1
<1> DEFINE T == Seq(Chars)
<1>4. f \in Seq(T) BY <1>3
<1> HIDE DEF T
<1>5. n \in 0..(Len(f) - 1) /\ d = SubSeq(f, 1, n) BY <1>2
<1>6. n \in Nat /\ n <= Len(f) BY <1>4, <1>5
<1>7. d \in Seq(T) BY <1>4, <1>5, <1>6
<1> QED BY <1>7 DEF T

\* A walk whose level is never negative ends below the directory it began in,
\* if it ends at a file: isValidPath is enough for Stat.
LEMMA WalkConfined ==
    ASSUME NEW dir \in Dirs, NEW S, NEW names \in Seq(S),
           \A n \in 1..Len(names) : Level(names, n) >= 0, Stat(dir, names) \in Files
    PROVE  IsPrefix(dir, Stat(dir, names))
<1> DEFINE T == Seq(Chars) \cup S
           w == Walk(dir, names)
           Good(n) == /\ w[n] \in Seq(T) /\ Len(w[n]) = Len(dir) + Level(names, n)
                      /\ \A i \in 1..Len(dir) : w[n][i] = dir[i]
           Bad == {n \in Nat : n <= Len(names) /\ w[n] # NoFile /\ ~Good(n)}
<1>1. dir \in Seq(Seq(Chars)) BY DirsAreNames
<1>2. dir \in Seq(T)
  <2> DEFINE C == Seq(Chars)
  <2>1. dir \in Seq(C) /\ C \subseteq T BY <1>1
  <2> HIDE DEF C, T
  <2> QED BY <2>1
<1>3. \A n \in 1..Len(names) : names[n] \in T OBVIOUS
<1>4. w[0] = dir /\ \A n \in 1..Len(names) : w[n] = Enter(w[n - 1], names[n]) BY WalkSteps
<1>5. Len(names) \in Nat /\ Level(names, 0) = 0 BY LevelZero
<1>6. \A n \in 1..Len(names) :
         /\ Level(names, n) \in Int /\ Level(names, n - 1) \in Int
         /\ names[n] = Dot => Level(names, n) = Level(names, n - 1)
         /\ names[n] = DotDot => Level(names, n) = Level(names, n - 1) - 1
         /\ names[n] \notin {Dot, DotDot} => Level(names, n) = Level(names, n - 1) + 1
    BY LevelStep
<1>7. NoFile \notin Dirs /\ NoFile \notin Files BY HttpAssumption
<1> HIDE DEF T, w
<1>8. Bad = {}
  <2> SUFFICES ASSUME Bad # {} PROVE FALSE OBVIOUS
  <2>1. PICK n \in Bad : \A k \in Bad : n <= k BY LeastNumber
  <2>2. n \in Nat /\ n <= Len(names) /\ w[n] # NoFile /\ ~Good(n) BY <2>1
  <2>3. n # 0
    <3>1. Good(0) BY <1>2, <1>4, <1>5
    <3> QED BY <2>2, <3>1
  <2>4. n \in 1..Len(names) /\ n - 1 \in Nat /\ n - 1 <= Len(names) /\ ~(n <= n - 1)
      BY <1>5, <2>2, <2>3
  <2>5. w[n] = Enter(w[n - 1], names[n]) BY <1>4, <2>4
  <2>6. w[n - 1] \in Dirs BY <2>2, <2>5 DEF Enter
  <2>7. w[n - 1] # NoFile BY <1>7, <2>6
  <2>8. Good(n - 1) BY <2>1, <2>4, <2>7
  <2>9. Level(names, n - 1) >= 0
    <3>1. CASE n = 1 BY <1>5, <3>1
    <3>2. CASE n # 1
      <4>1. n - 1 \in 1..Len(names) BY <1>5, <2>4, <3>2
      <4> QED BY <4>1
    <3> QED BY <3>1, <3>2
  <2>10. Level(names, n) >= 0 /\ names[n] \in T BY <1>3, <2>4
  <2> DEFINE at == w[n - 1]
             name == names[n]
             l == Level(names, n - 1)
             k == Level(names, n)
  <2>11. /\ at \in Seq(T) /\ name \in T /\ at \in Dirs /\ Len(at) = Len(dir) + l
         /\ \A i \in 1..Len(dir) : at[i] = dir[i]
      BY <2>6, <2>8, <2>10
  <2>12. /\ l \in Int /\ k \in Int /\ l >= 0 /\ k >= 0
         /\ name = Dot => k = l
         /\ name = DotDot => k = l - 1
         /\ name \notin {Dot, DotDot} => k = l + 1
      BY <1>6, <2>4, <2>9, <2>10
  <2> HIDE DEF at, name, l, k
  <2>13. /\ Enter(at, name) \in Seq(T) /\ Len(Enter(at, name)) = Len(dir) + k
         /\ \A i \in 1..Len(dir) : Enter(at, name)[i] = dir[i]
    <3>0. Dot # DotDot BY DEF Dot, DotDot
    <3>1. CASE name = Dot
      <4>1. Enter(at, name) = at BY <1>2, <2>11, <2>12, <3>0, <3>1 DEF Enter
      <4> QED BY <1>2, <2>11, <2>12, <3>1, <4>1
    <3>2. CASE name = DotDot
      <4>1. Len(at) >= 1 /\ at # <<>> BY <1>2, <2>11, <2>12, <3>2
      <4>2. Enter(at, name) = SubSeq(at, 1, Len(at) - 1) BY <1>2, <2>11, <2>12, <3>0, <3>2, <4>1 DEF Enter, Front
      <4>3. Len(dir) <= Len(at) - 1 BY <1>2, <2>11, <2>12, <3>2
      <4>4. /\ SubSeq(at, 1, Len(at) - 1) \in Seq(T)
            /\ Len(SubSeq(at, 1, Len(at) - 1)) = Len(at) - 1
            /\ \A i \in 1..(Len(at) - 1) : SubSeq(at, 1, Len(at) - 1)[i] = at[i]
          BY <1>2, <2>11, <2>12, <4>1
      <4> QED BY <1>2, <2>11, <2>12, <3>2, <4>2, <4>3, <4>4
    <3>3. CASE name \notin {Dot, DotDot}
      <4>1. Enter(at, name) = Append(at, name) BY <1>2, <2>11, <2>12, <3>3 DEF Enter
      <4>2. /\ Append(at, name) \in Seq(T) /\ Len(Append(at, name)) = Len(at) + 1
            /\ \A i \in 1..Len(at) : Append(at, name)[i] = at[i]
          BY <2>11
      <4>3. Len(dir) <= Len(at) /\ k = l + 1 BY <1>2, <2>11, <2>12, <3>3
      <4> QED BY <1>2, <2>11, <2>12, <4>1, <4>2, <4>3
    <3> QED BY <3>1, <3>2, <3>3
  <2>14. Good(n) BY <2>5, <2>13 DEF at, name, k
  <2> QED BY <2>2, <2>14
<1> DEFINE N == Len(names)
           file == w[N]
<1>9. Stat(dir, names) = file BY DEF Stat, w
<1>10. file # NoFile BY <1>7, <1>9
<1>11. Good(N) BY <1>5, <1>8, <1>10
<1>12. Level(names, N) >= 0 /\ Level(names, N) \in Int
  <2>1. CASE N = 0 BY <1>5, <2>1
  <2>2. CASE N # 0
    <3>1. N \in 1..Len(names) BY <1>5, <2>2
    <3> QED BY <1>6, <3>1
  <2> QED BY <2>1, <2>2
<1>13. /\ file \in Seq(T) /\ Len(dir) <= Len(file)
       /\ \A i \in 1..Len(dir) : file[i] = dir[i]
    BY <1>2, <1>11, <1>12
<1> HIDE DEF file
<1>14. SubSeq(dir, 1, Len(dir)) = SubSeq(file, 1, Len(dir)) BY <1>2, <1>13
<1> QED BY <1>9, <1>13, <1>14 DEF IsPrefix

\* isValidPath looks at the path before index.html is added to it.
LEMMA ValidNames ==
    ASSUME NEW path \in Seq(Chars), IsValidPath(path), NEW more \in {<<Index>>, <<>>}
    PROVE  \E S : /\ Components(path) \o more \in Seq(S)
                  /\ \A n \in 1..Len(Components(path) \o more) :
                        Level(Components(path) \o more, n) >= 0
<1> DEFINE cs == Components(path)
           all == cs \o more
<1>1. PICK S : cs \in Seq(S) BY ComponentsSequence
<1> DEFINE T == S \cup {Index}
<1>2. \A n \in 1..Len(cs) : Level(cs, n) >= 0 BY DEF IsValidPath
<1> HIDE DEF cs
<1>3. cs \in Seq(T) /\ more \in Seq(T)
  <2>1. Index \in T /\ S \subseteq T OBVIOUS
  <2> HIDE DEF T
  <2>2. cs \in Seq(T) BY <1>1, <2>1
  <2>3. <<Index>> \in Seq(T) /\ <<>> \in Seq(T) BY <2>1
  <2> QED BY <2>2, <2>3
<1> HIDE DEF T
<1> DEFINE len == Len(cs)
<1>4. /\ all \in Seq(T) /\ len \in Nat /\ \A i \in 1..len : all[i] = cs[i]
      /\ Len(all) = len \/ (Len(all) = len + 1 /\ all[len + 1] = Index)
  <2>1. all \in Seq(T) /\ len \in Nat BY <1>3
  <2>2. CASE more = <<>> BY <1>3, <2>2
  <2>3. CASE more = <<Index>> BY <1>3, <2>3
  <2> QED BY <2>1, <2>2, <2>3
<1> HIDE DEF all, len
<1>5. \A n \in 1..len : Level(all, n) = Level(cs, n)
  <2> TAKE n \in 1..len
  <2>1. \A i \in 1..n : all[i] = cs[i] BY <1>4
  <2>2. /\ {i \in 1..n : all[i] \notin {Dot, DotDot}} = {i \in 1..n : cs[i] \notin {Dot, DotDot}}
        /\ {i \in 1..n : all[i] = DotDot} = {i \in 1..n : cs[i] = DotDot}
      BY <2>1
  <2> QED BY <2>2 DEF Level
<1>6. \A n \in 1..Len(all) : Level(all, n) >= 0
  <2> TAKE n \in 1..Len(all)
  <2>1. CASE n \in 1..len BY <1>2, <1>5, <2>1 DEF len
  <2>2. CASE n \notin 1..len
    <3>1. n = len + 1 /\ all[n] = Index /\ n - 1 = len BY <1>4, <2>2
    <3>2. Index \notin {Dot, DotDot} BY DEF Index, Dot, DotDot
    <3>3. Level(all, n) = Level(all, n - 1) + 1 /\ Level(all, n - 1) \in Int
        BY <1>4, <3>1, <3>2, LevelStep
    <3>4. Level(all, n - 1) >= 0
      <4>1. CASE len = 0
        <5>1. Level(all, 0) = 0 BY LevelZero
        <5> QED BY <3>1, <4>1, <5>1
      <4>2. CASE len # 0
        <5>1. n - 1 \in 1..len BY <1>4, <3>1, <4>2
        <5> QED BY <1>2, <1>5, <5>1 DEF len
      <4> QED BY <4>1, <4>2
    <3> QED BY <3>3, <3>4
  <2> QED BY <2>1, <2>2
<1> QED BY <1>4, <1>6 DEF all, cs

\* What MountFor finds is a file below the directory of its mount point.
LEMMA MountForInside ==
    ASSUME MountsSane, NEW line, line.path \in Seq(Chars), MountFor(line).at > 0
    PROVE  /\ MountFor(line).dir \in Dirs /\ MountFor(line).file \in Files
           /\ IsPrefix(MountFor(line).dir, MountFor(line).file)
<1> DEFINE Sub(e) == <<"/">> \o Drop(line.path, Len(e.mnt))
           Name(e) == Components(Sub(e)) \o (IF Last(Sub(e)) = "/" THEN <<Index>> ELSE <<>>)
           hits == {i \in 1..Len(baseDirs) :
                       /\ line.method = "GET" /\ IsPrefix(baseDirs[i].mnt, line.path)
                       /\ IsValidPath(Sub(baseDirs[i]))
                       /\ IsFile(baseDirs[i].dir, Name(baseDirs[i]))}
           first == CHOOSE i \in hits : \A j \in hits : i <= j
<1>1. MountFor(line)
        = IF hits = {} THEN [at |-> 0, dir |-> <<>>, file |-> <<>>]
          ELSE [at |-> first, dir |-> baseDirs[first].dir,
                file |-> Stat(baseDirs[first].dir, Name(baseDirs[first]))]
    BY Zenon DEF MountFor
<1>2. hits # {}
  <2> HIDE DEF hits, first
  <2> QED BY <1>1
<1>3. first \in hits
  <2>1. hits \in SUBSET Nat OBVIOUS
  <2> HIDE DEF hits
  <2> QED BY <1>2, <2>1, LeastNumber
<1> DEFINE e == baseDirs[first]
<1>4. e \in [mnt : Seq(Chars), dir : Dirs]
  <2> DEFINE M == [mnt : Seq(Chars), dir : Dirs]
  <2>1. baseDirs \in Seq(M) BY DEF MountsSane
  <2>2. first \in 1..Len(baseDirs) BY <1>3, Zenon
  <2> HIDE DEF M, first
  <2>3. baseDirs[first] \in M BY <2>1, <2>2, ElementOfSeq
  <2> QED BY <2>3 DEF M
<1>5. IsValidPath(Sub(e)) /\ IsFile(e.dir, Name(e)) BY <1>3, Zenon
<1>6. /\ MountFor(line).dir = e.dir /\ MountFor(line).file = Stat(e.dir, Name(e))
  <2> HIDE DEF hits, first, e, Name
  <2> QED BY <1>1, <1>2 DEF e
<1> HIDE DEF hits, first, e
<1>7. Sub(e) \in Seq(Chars)
  <2>1. Len(e.mnt) \in Nat BY <1>4
  <2>2. Drop(line.path, Len(e.mnt)) \in Seq(Chars) BY <2>1, DropType
  <2> QED BY <2>2, HttpAssumption
<1> DEFINE names == Name(e)
<1>8. \E S : names \in Seq(S) /\ \A n \in 1..Len(names) : Level(names, n) >= 0
  <2> DEFINE more == IF Last(Sub(e)) = "/" THEN <<Index>> ELSE <<>>
             path == Sub(e)
  <2>1. more \in {<<Index>>, <<>>} OBVIOUS
  <2>2. path \in Seq(Chars) /\ IsValidPath(path) BY <1>5, <1>7
  <2>3. names = Components(path) \o more OBVIOUS
  <2> HIDE DEF more, path, names
  <2> QED BY <2>1, <2>2, <2>3, ValidNames
<1>9. Stat(e.dir, names) \in Files /\ e.dir \in Dirs BY <1>4, <1>5 DEF IsFile
<1>10. MountFor(line).file = Stat(e.dir, names) BY <1>6
<1> HIDE DEF names
<1>11. IsPrefix(e.dir, Stat(e.dir, names)) BY <1>8, <1>9, WalkConfined
<1> QED BY <1>6, <1>9, <1>10, <1>11

\* A request that is parsed has the path of one of the start lines.
LEMMA ParsedPath ==
    ASSUME NEW b, ParseRequest(b).ok
    PROVE  ParseRequest(b).line.path \in Seq(Chars)
<1> DEFINE head == ParseHead(b)
<1>1. head.ok BY DEF ParseRequest
<1>2. \E token \in DOMAIN Lines : \E headers, rest :
          head = [ok |-> TRUE, line |-> Lines[token], headers |-> headers, rest |-> rest]
    BY <1>1 DEF ParseHead
<1>3. PICK token \in DOMAIN Lines : \E headers, rest :
          head = [ok |-> TRUE, line |-> Lines[token], headers |-> headers, rest |-> rest]
    BY <1>2
<1>4. ParseRequest(b) = ParseBody(head) BY <1>1 DEF ParseRequest
<1> HIDE DEF head
<1>5. ParseBody(head).line = head.line BY <1>3 DEF ParseBody
<1>6. head.line = Lines[token] BY <1>3
<1> QED BY <1>4, <1>5, <1>6, HttpAssumption

-----------------------------------------------------------------------------
(* The connection *)

\* What is written and what is listed: the same connection, elsewhere.
Same(c, d) == d \in ConnType /\ d.open = c.open /\ d.by = c.by

LEMMA WriteType ==
    ASSUME NEW c \in ConnType, NEW q \in Seq(Chunk)
    PROVE  Same(c, Write(c, q))
<1> DEFINE n == IF c.room < Len(q) THEN c.room ELSE Len(q)
           w == c.wire \o SubSeq(q, 1, n)
           p == c.pending \o Drop(q, n)
           m == c.room - n
<1>1. Write(c, q) = [c EXCEPT !.wire = w, !.room = m, !.pending = p] BY DEF Write
<1>2. c.pending \in Seq(Chunk) /\ c.wire \in Seq(Chunk) /\ c.room \in 0..Room BY DEF ConnType
<1>3. Len(q) \in Nat /\ Room \in Nat BY HttpAssumption
<1>4. n \in Nat /\ n <= Len(q) /\ m \in 0..Room BY <1>2, <1>3
<1> HIDE DEF n, m
<1>5. Drop(q, n) \in Seq(Chunk) BY <1>4, DropType
<1>6. SubSeq(q, 1, n) \in Seq(Chunk) BY <1>3, <1>4
<1>7. w \in Seq(Chunk) /\ p \in Seq(Chunk) BY <1>2, <1>5, <1>6
<1> DEFINE d == [c EXCEPT !.wire = w, !.room = m, !.pending = p]
<1> HIDE DEF w, p
<1>8. Same(c, d) BY <1>4, <1>7 DEF Same, ConnType
<1> HIDE DEF d
<1> QED BY <1>1, <1>8 DEF d

LEMMA ListedType == \A c \in ConnType : Listed(c) \in BOOLEAN
BY DEF Listed, ConnType

LEMMA SendMemoryType ==
    ASSUME NEW c \in ConnType, NEW q \in Seq(Chunk)
    PROVE  Same(c, SendMemory(c, q))
<1>1. CASE Listed(c)
  <2> DEFINE p == c.pending \o q
             b == TRUE
             d == [c EXCEPT !.pending = p, !.writing = b]
  <2>1. c.pending \in Seq(Chunk) BY DEF ConnType
  <2>2. p \in Seq(Chunk) BY <2>1
  <2>3. b \in BOOLEAN OBVIOUS
  <2>4. SendMemory(c, q) = d BY <1>1 DEF SendMemory
  <2> HIDE DEF p, b
  <2>5. Same(c, d) BY <2>2, <2>3 DEF Same, ConnType
  <2> HIDE DEF d
  <2> QED BY <2>4, <2>5
<1>2. CASE ~Listed(c)
  <2> DEFINE d == Write(c, q)
             b == c.room < Len(q)
  <2>1. Same(c, d) BY WriteType
  <2>2. b \in BOOLEAN OBVIOUS
  <2>3. SendMemory(c, q) = [d EXCEPT !.writing = b] BY <1>2 DEF SendMemory
  <2> HIDE DEF d, b
  <2>4. Same(d, [d EXCEPT !.writing = b]) BY <2>1, <2>2 DEF Same, ConnType
  <2> QED BY <2>1, <2>3, <2>4 DEF Same
<1> QED BY <1>1, <1>2

LEMMA SendFileType ==
    ASSUME NEW c \in ConnType, NEW f \in Chunk
    PROVE  Same(c, SendFile(c, f))
<1> HIDE DEF Chunk
<1>1. CASE Listed(c)
  <2> DEFINE p == Append(c.pending, f)
  <2>1. c.pending \in Seq(Chunk) BY DEF ConnType
  <2>2. SendFile(c, f) = [c EXCEPT !.pending = p] BY <1>1 DEF SendFile
  <2>3. p \in Seq(Chunk) BY <2>1
  <2> HIDE DEF p
  <2>4. Same(c, [c EXCEPT !.pending = p]) BY <2>3 DEF Same, ConnType
  <2> QED BY <2>2, <2>4
<1>2. CASE ~Listed(c)
  <2> DEFINE q == <<f>>
             d == Write(c, q)
             b == c.room > 0
  <2>1. q \in Seq(Chunk) OBVIOUS
  <2>2. b \in BOOLEAN OBVIOUS
  <2>3. SendFile(c, f) = [d EXCEPT !.writing = b] BY <1>2 DEF SendFile, SendFileInLoop
  <2> HIDE DEF q, b
  <2>4. Same(c, d) BY <2>1, WriteType
  <2> HIDE DEF d
  <2>5. Same(d, [d EXCEPT !.writing = b]) BY <2>2, <2>4 DEF Same, ConnType
  <2> QED BY <2>3, <2>4, <2>5 DEF Same
<1> QED BY <1>1, <1>2

\* sendResponse leaves the connection open.
LEMMA SendType ==
    ASSUME NEW c \in ConnType, NEW k \in Nat, NEW isFile
    PROVE  Same(c, SendResponse(c, k, isFile))
<1> DEFINE h == <<k, "head">>
           b == <<k, "body">>
           f == <<k, "file">>
<1>1. h \in Chunk /\ b \in Chunk /\ f \in Chunk BY DEF Chunk
<1>2. SendResponse(c, k, isFile) = IF isFile THEN SendFile(SendMemory(c, <<h>>), f)
                                   ELSE SendMemory(c, <<h, b>>)
    BY DEF SendResponse
<1> HIDE DEF h, b, f
<1>3. <<h>> \in Seq(Chunk) /\ <<h, b>> \in Seq(Chunk) BY <1>1
<1>4. Same(c, SendMemory(c, <<h, b>>)) BY <1>3, SendMemoryType
<1>5. Same(c, SendMemory(c, <<h>>)) BY <1>3, SendMemoryType
<1> DEFINE d == SendMemory(c, <<h>>)
<1> HIDE DEF d
<1>6. Same(c, d) BY <1>5 DEF d
<1>7. Same(d, SendFile(d, f)) BY <1>1, <1>6, SendFileType DEF Same
<1>8. Same(c, SendFile(d, f)) BY <1>6, <1>7 DEF Same
<1> QED BY <1>2, <1>4, <1>8 DEF d

\* forceClose of an open connection.
LEMMA CloseType ==
    ASSUME NEW c \in ConnType, c.open, NEW who \in {"server", "peer", "idle"}
    PROVE  /\ Close(c, who) \in ConnType
           /\ ~Close(c, who).open /\ Close(c, who).by = who
<1> DEFINE b == FALSE
<1>1. b \in BOOLEAN /\ ~b OBVIOUS
<1> DEFINE d == [c EXCEPT !.open = b, !.by = who, !.pending = <<>>, !.writing = b]
<1>2. Close(c, who) = d BY DEF Close
<1> HIDE DEF b, d
<1>3. d \in ConnType /\ d.open = b /\ d.by = who
  <2> DEFINE z == <<>>
  <2>1. who \in {"", "server", "peer", "idle"} OBVIOUS
  <2>2. z \in Seq(Chunk) BY EmptySeq
  <2>3. d = [c EXCEPT !.open = b, !.by = who, !.pending = z, !.writing = b] BY DEF d
  <2> HIDE DEF z
  <2> QED BY <1>1, <2>1, <2>2, <2>3 DEF ConnType
<1> QED BY <1>1, <1>2, <1>3

\* The entries of keepAliveRequests.
EntryType == [first : Nat, second : Nat, in : BOOLEAN]

\* The end of recvMsgCallback for an open connection whose entry counts the
\* answers sent: one more is counted, or the connection is closed and forgotten.
LEMMA FinishCounts ==
    ASSUME conn \in ConnType, conn.open, conn.by # "server", hist.answers \in Seq(Nat),
           NEW status, NEW entry \in EntryType, entry.first = Len(hist.answers),
           entry.second <= maxKeepAlive, maxKeepAlive \in Nat, NEW isFile,
           Finish(status, entry, isFile)
    PROVE  /\ conn' \in ConnType /\ ka' \in EntryType
           /\ conn'.open => /\ ka'.in /\ ka'.first = Len(hist.answers) + 1
                            /\ ka'.first < ka'.second
           /\ ka'.in => ka'.second <= maxKeepAlive
           /\ conn'.by = "server" => ~conn'.open /\ ~ka'.in
<1> DEFINE answered == SendResponse(conn, Len(hist.answers) + 1, isFile)
           f == IF status # 200 THEN 0 ELSE entry.first
           s == IF status # 200 THEN 0 ELSE entry.second
<1>1. Len(hist.answers) \in Nat OBVIOUS
<1>2. answered \in ConnType /\ answered.open /\ answered.by # "server"
  <2>1. Len(hist.answers) + 1 \in Nat BY <1>1
  <2> QED BY <2>1, SendType DEF Same
<1>3. f \in Nat /\ s \in Nat /\ s <= maxKeepAlive /\ (s = 0 \/ f = Len(hist.answers)) BY DEF EntryType
<1> HIDE DEF f, s
<1>4. IF f + 1 >= s
      THEN conn' = Close(answered, "server") /\ ka' = NoEntry
      ELSE conn' = answered /\ ka' = Entry(f + 1, s)
    BY DEF Finish, f, s, Entry
<1> HIDE DEF answered
<1>5. CASE f + 1 >= s
  <2>1. conn' = Close(answered, "server") /\ ka' = NoEntry BY <1>4, <1>5
  <2>2. conn' \in ConnType /\ ~conn'.open BY <1>2, <2>1, CloseType
  <2>3. ka' \in EntryType /\ ~ka'.in BY <2>1 DEF NoEntry, EntryType
  <2> QED BY <2>2, <2>3
<1>6. CASE ~(f + 1 >= s)
  <2>1. conn' = answered /\ ka' = Entry(f + 1, s) BY <1>4, <1>6
  <2>2. ka' \in EntryType /\ ka'.in /\ ka'.first = f + 1 /\ ka'.second = s
      BY <1>3, <2>1 DEF Entry, EntryType
  <2>3. f + 1 < s /\ f = Len(hist.answers) BY <1>1, <1>3, <1>6
  <2> QED BY <1>2, <1>3, <2>1, <2>2, <2>3
<1> QED BY <1>5, <1>6

\* The entry with which an answer is begun.
Counting(entry) ==
    /\ entry \in EntryType /\ entry.in /\ entry.first = Len(hist.answers)
    /\ hist.answers # <<>> => entry.first < entry.second
    /\ entry.second <= maxKeepAlive

\* The set-up of a connection that is served.
Quiet == UNCHANGED <<peer, phase, calls, baseDirs, maxKeepAlive, hasAuth>>

\* An answer is given, and with it perhaps a file.
Answered(status, entry, isFile, files) ==
    /\ conn.open /\ Counting(entry) /\ status \in Nat /\ Finish(status, entry, isFile)
    /\ hist' \in HistType /\ hist'.answers = Append(hist.answers, status)
    /\ hist'.served = hist.served \cup files
    /\ \A f \in files : IsPrefix(f[1], f[2]) /\ (hasAuth => f[2] \in Allowed)
    /\ stage' = "idle" /\ Quiet

LEMMA MountsKept == ASSUME MountsSane, Quiet PROVE MountsSane'
BY DEF MountsSane, Quiet

LEMMA AnsweredKeeps ==
    ASSUME IInv, NEW status, NEW entry, NEW isFile, NEW files,
           Answered(status, entry, isFile, files)
    PROVE  IInv'
<1>1. /\ conn \in ConnType /\ conn.open /\ conn.by # "server" /\ hist.answers \in Seq(Nat)
      /\ entry \in EntryType /\ entry.first = Len(hist.answers) /\ entry.second <= maxKeepAlive
      /\ maxKeepAlive \in Nat /\ Finish(status, entry, isFile)
    BY DEF IInv, EntrySane, KeepAliveAccounts, ServerTypeOK, HistType, Answered, Counting
<1>2. /\ conn' \in ConnType /\ ka' \in EntryType
      /\ conn'.open => /\ ka'.in /\ ka'.first = Len(hist.answers) + 1
                       /\ ka'.first < ka'.second
      /\ ka'.in => ka'.second <= maxKeepAlive
      /\ conn'.by = "server" => ~conn'.open /\ ~ka'.in
    BY <1>1, FinishCounts
<1>3. /\ hist' \in HistType /\ hist'.answers \in Seq(Nat) /\ hist'.answers # <<>>
      /\ Len(hist'.answers) = Len(hist.answers) + 1
    BY <1>1 DEF Answered
<1>4. Len(hist'.answers) <= IF maxKeepAlive' > 1 THEN maxKeepAlive' ELSE 1
  <2>1. maxKeepAlive' = maxKeepAlive BY DEF Answered, Quiet
  <2>2. hist.answers # <<>> => entry.first < entry.second BY DEF Answered, Counting
  <2>3. hist.answers = <<>> => Len(hist'.answers) = 1 BY <1>3
  <2>4. entry.second \in Nat BY <1>1 DEF EntryType
  <2> QED BY <1>1, <1>3, <2>1, <2>2, <2>3, <2>4
<1>5. ServerTypeOK'
    BY <1>2, <1>3 DEF IInv, KeepAliveAccounts, ServerTypeOK, Answered, Quiet, EntryType
<1>6. KeepAliveAccounts'
  <2>1. conn'.open => /\ ka'.in = (hist'.answers # <<>>) /\ ka'.first = Len(hist'.answers)
                      /\ ka'.in => ka'.first < ka'.second
    <3>1. ka'.in \in BOOLEAN BY <1>2 DEF EntryType
    <3> QED BY <1>2, <1>3, <3>1
  <2> QED BY <1>2, <1>4, <1>5, <2>1 DEF KeepAliveAccounts
<1>7. ServedInside' BY DEF IInv, ServedInside, Answered, Quiet
<1>8. MountsSane' BY MountsKept DEF IInv, Answered
<1>9. EntrySane' BY <1>1, <1>2 DEF EntrySane, Answered, Quiet
<1> QED BY <1>6, <1>7, <1>8, <1>9 DEF IInv

-----------------------------------------------------------------------------
(* The steps *)

LEMMA CutByType == \A n : CutBy(n) \in BOOLEAN
BY DEF CutBy

\* A request that is refused closes the connection and leaves no entry.
LEMMA RefuseKeeps ==
    ASSUME IInv, conn.open, stage = "idle", Quiet, NEW n, Refuse(n)
    PROVE  IInv'
<1>1. /\ conn \in ConnType /\ hist \in HistType /\ hist.answers \in Seq(Nat) /\ maxKeepAlive \in Nat
    BY DEF IInv, EntrySane, KeepAliveAccounts, ServerTypeOK, HistType
<1>2. Len(hist.answers) \in Nat /\ Len(hist.answers) + 1 \in Nat BY <1>1
<1>3. conn' \in ConnType /\ ~conn'.open
  <2>1. /\ SendResponse(conn, Len(hist.answers) + 1, FALSE) \in ConnType
        /\ SendResponse(conn, Len(hist.answers) + 1, FALSE).open
      BY <1>1, <1>2, SendType DEF Same
  <2> QED BY <2>1, CloseType DEF Refuse
<1>4. ka' \in EntryType /\ ~ka'.in BY DEF Refuse, NoEntry, EntryType
<1>5. hist' \in HistType /\ hist'.answers = Append(hist.answers, 400) /\ hist'.served = hist.served
  <2> DEFINE a == Append(hist.answers, 400)
             x == CutBy(n)
             g == [hist EXCEPT !.answers = a, !.cut = x]
  <2>1. a \in Seq(Nat) BY <1>1
  <2>2. x \in BOOLEAN BY CutByType
  <2>3. hist' = g BY DEF Refuse
  <2> HIDE DEF a, x
  <2>4. g \in HistType /\ g.answers = a /\ g.served = hist.served BY <1>1, <2>1, <2>2 DEF HistType
  <2> HIDE DEF g
  <2> QED BY <2>3, <2>4 DEF a
<1>6. Len(hist'.answers) <= IF maxKeepAlive' > 1 THEN maxKeepAlive' ELSE 1
  <2>1. maxKeepAlive' = maxKeepAlive /\ Len(hist'.answers) = Len(hist.answers) + 1 BY <1>1, <1>5 DEF Quiet
  <2>2. hist.answers # <<>> => ka.in /\ Len(hist.answers) < ka.second /\ ka.second <= maxKeepAlive
      BY DEF IInv, KeepAliveAccounts, EntrySane
  <2>3. ka.second \in Nat BY DEF IInv, KeepAliveAccounts, ServerTypeOK
  <2>4. hist.answers = <<>> => Len(hist.answers) = 0 BY <1>1
  <2> QED BY <1>1, <1>2, <2>1, <2>2, <2>3, <2>4
<1>7. stage' = "idle" BY DEF Refuse
<1>8. ServerTypeOK'
    BY <1>3, <1>4, <1>5, <1>7 DEF IInv, KeepAliveAccounts, ServerTypeOK, Quiet, EntryType
<1>9. KeepAliveAccounts' BY <1>3, <1>4, <1>6, <1>8 DEF KeepAliveAccounts
<1>10. ServedInside' BY <1>5 DEF IInv, ServedInside, Quiet
<1>11. MountsSane' BY MountsKept DEF IInv
<1>12. EntrySane' BY <1>1, <1>3, <1>4, <1>7 DEF EntrySane, Quiet
<1> QED BY <1>9, <1>10, <1>11, <1>12 DEF IInv

\* An answer given at once.
LEMMA AnswerKeeps ==
    ASSUME IInv, conn.open, stage = "idle", Quiet, NEW r, NEW n, NEW status \in Nat,
           NEW entry, Counting(entry),
           NEW files \in SUBSET (Dirs \X Files),
           \A f \in files : IsPrefix(f[1], f[2]) /\ (hasAuth => f[2] \in Allowed),
           Answer(r, status, entry, files, n)
    PROVE  IInv'
<1>1. hist \in HistType /\ hist.answers \in Seq(Nat) /\ hist.served \in SUBSET (Dirs \X Files)
    BY DEF IInv, KeepAliveAccounts, ServerTypeOK, HistType
<1> DEFINE a == Append(hist.answers, status)
           s == hist.served \cup files
           x == CutBy(n)
           y == hist.left \/ IsMultipartFormData(r)
<1>2. hist' \in HistType /\ hist'.answers = a /\ hist'.served = s
  <2>1. a \in Seq(Nat) /\ s \in SUBSET (Dirs \X Files) BY <1>1
  <2>2. x \in BOOLEAN BY CutByType
  <2>3. y \in BOOLEAN OBVIOUS
  <2> DEFINE g == [hist EXCEPT !.answers = a, !.cut = x, !.served = s, !.left = y]
  <2>4. hist' = g BY DEF Answer
  <2> HIDE DEF a, s, x, y
  <2>5. g \in HistType /\ g.answers = a /\ g.served = s BY <1>1, <2>1, <2>2, <2>3 DEF HistType
  <2> HIDE DEF g
  <2> QED BY <2>4, <2>5
<1>3. Finish(status, entry, files # {}) /\ stage' = "idle" BY DEF Answer
<1>4. Answered(status, entry, files # {}, files) BY <1>2, <1>3 DEF Answered
<1> QED BY <1>4, AnsweredKeeps

\* A form is going to be parsed: the entry is kept, nothing is answered yet.
LEMMA ParsingKeeps ==
    ASSUME IInv, conn.open, stage = "idle", Quiet, NEW n, NEW entry, Counting(entry),
           stage' = "parsing", ka' = entry, hist' = [hist EXCEPT !.cut = CutBy(n)],
           UNCHANGED conn
    PROVE  IInv'
<1>1. hist \in HistType BY DEF IInv, KeepAliveAccounts, ServerTypeOK
<1>2. hist' \in HistType /\ hist'.answers = hist.answers /\ hist'.served = hist.served
  <2> DEFINE x == CutBy(n)
             g == [hist EXCEPT !.cut = x]
  <2>1. x \in BOOLEAN /\ hist' = g BY CutByType
  <2> HIDE DEF x
  <2>2. g \in HistType /\ g.answers = hist.answers /\ g.served = hist.served
      BY <1>1, <2>1 DEF HistType
  <2> HIDE DEF g
  <2> QED BY <2>1, <2>2
<1>3. conn.by # "server" BY DEF IInv, EntrySane
<1>4. ServerTypeOK'
    BY <1>2 DEF IInv, KeepAliveAccounts, ServerTypeOK, Quiet, Counting, EntryType
<1>5. KeepAliveAccounts' BY <1>2, <1>3, <1>4 DEF IInv, KeepAliveAccounts, Quiet
<1>6. ServedInside' BY <1>2 DEF IInv, ServedInside, Quiet
<1>7. MountsSane' BY MountsKept DEF IInv
<1>8. EntrySane' BY <1>2, <1>3 DEF IInv, EntrySane, Counting, Quiet
<1> QED BY <1>5, <1>6, <1>7, <1>8 DEF IInv

\* recvMsgCallback for a request that is well formed.
LEMMA HandleKeeps ==
    ASSUME IInv, conn.open, stage = "idle", Quiet, NEW r, r.line.path \in Seq(Chars),
           NEW n, Handle(r, n)
    PROVE  IInv'
<1> DEFINE max == IF KeepsAlive(r) THEN maxKeepAlive ELSE 0
           f == MountFor(r.line)
           entry == IF ka.in THEN ka ELSE Entry(0, max)
<1>1. Counting(entry)
  <2>1. /\ ka \in EntryType /\ maxKeepAlive \in Nat /\ max \in Nat /\ max <= maxKeepAlive
        /\ ka.in = (hist.answers # <<>>) /\ ka.first = Len(hist.answers)
        /\ ka.in => ka.first < ka.second /\ ka.second <= maxKeepAlive
        /\ hist.answers \in Seq(Nat)
      BY DEF IInv, KeepAliveAccounts, EntrySane, ServerTypeOK, HistType, EntryType
  <2> HIDE DEF max
  <2>2. CASE ka.in BY <2>1, <2>2 DEF Counting
  <2>3. CASE ~ka.in
    <3>0. hist.answers = <<>> BY <2>1, <2>3, Zenon
    <3>1. hist.answers = <<>> /\ Len(hist.answers) = 0 BY <3>0
    <3>2. entry = Entry(0, max) BY <2>3
    <3>3. entry \in EntryType /\ entry.in /\ entry.first = 0 /\ entry.second = max
        BY <2>1, <3>2 DEF Entry, EntryType
    <3> HIDE DEF entry
    <3> QED BY <2>1, <3>1, <3>3 DEF Counting
  <2> QED BY <2>2, <2>3
<1>2. f.at > 0 => f.dir \in Dirs /\ f.file \in Files /\ IsPrefix(f.dir, f.file)
    BY MountForInside DEF IInv
<1> DEFINE Fixed == Answer(r, 403, entry, {}, n) \/ Answer(r, 405, entry, {}, n)
                       \/ Answer(r, 404, entry, {}, n)
           Form == /\ stage' = "parsing" /\ ka' = entry
                   /\ hist' = [hist EXCEPT !.cut = CutBy(n)] /\ UNCHANGED conn
<1>3. \/ /\ f.at > 0 /\ (hasAuth => f.file \in Allowed)
         /\ Answer(r, 200, entry, {<<f.dir, f.file>>}, n)
      \/ Fixed
      \/ \E status \in {200, 500} : Answer(r, status, entry, {}, n)
      \/ Form
    BY DEF Handle
<1> HIDE DEF f, entry, Form
<1>4. {} \in SUBSET (Dirs \X Files) OBVIOUS
<1>5. ASSUME NEW status \in Nat, Answer(r, status, entry, {}, n) PROVE IInv'
    BY <1>1, <1>4, <1>5, AnswerKeeps
<1>6. ASSUME f.at > 0 /\ (hasAuth => f.file \in Allowed),
             Answer(r, 200, entry, {<<f.dir, f.file>>}, n)
      PROVE  IInv'
  <2> DEFINE files == {<<f.dir, f.file>>}
  <2>1. files \in SUBSET (Dirs \X Files) BY <1>2, <1>6
  <2>2. \A s \in files : IsPrefix(s[1], s[2]) /\ (hasAuth => s[2] \in Allowed) BY <1>2, <1>6
  <2>3. Answer(r, 200, entry, files, n) /\ 200 \in Nat BY <1>6
  <2> HIDE DEF files
  <2> QED BY <1>1, <2>1, <2>2, <2>3, AnswerKeeps
<1>7. ASSUME Fixed PROVE IInv' BY <1>5, <1>7
<1>8. ASSUME NEW status \in {200, 500}, Answer(r, status, entry, {}, n) PROVE IInv' BY <1>5, <1>8
<1>9. ASSUME Form PROVE IInv' BY <1>1, <1>9, ParsingKeeps DEF Form
<1> QED BY <1>3, <1>6, <1>7, <1>8, <1>9

\* Steps that leave the connection and its entry alone.
LEMMA ServedKept ==
    ASSUME IInv, UNCHANGED <<stage, ka, conn, hist, maxKeepAlive, hasAuth>>,
           peer' \in {"open", "closed", "reset"}, phase' \in {"setup", "run"}, MountsSane'
    PROVE  IInv'
BY DEF IInv, KeepAliveAccounts, ServerTypeOK, ServedInside, EntrySane

\* The program's calls before start: what is mounted is a directory.
LEMMA SetupKeeps ==
    ASSUME IInv, AddEndpoint \/ AddMountPoint \/ RemoveMountPoint \/ Start
    PROVE  IInv'
<1> DEFINE M == [mnt : Seq(Chars), dir : Dirs]
<1>1. /\ calls \in Seq(Setup) /\ baseDirs \in Seq(M)
      /\ peer \in {"open", "closed", "reset"} /\ phase \in {"setup", "run"}
    BY DEF IInv, KeepAliveAccounts, ServerTypeOK, MountsSane
<1>2. /\ UNCHANGED <<stage, ka, conn, hist, maxKeepAlive, hasAuth, peer>>
      /\ phase' \in {"setup", "run"}
    BY <1>1 DEF AddEndpoint, AddMountPoint, RemoveMountPoint, Start, Served, config
<1>3. calls' \in Seq(Setup)
  <2>1. UNCHANGED calls \/ (calls # <<>> /\ calls' = Tail(calls))
      BY DEF AddEndpoint, AddMountPoint, RemoveMountPoint, Start, Calls
  <2> HIDE <1>2 DEF M
  <2> QED BY <1>1, <2>1
<1>4. baseDirs' \in Seq(M)
  <2>1. CASE AddEndpoint \/ Start BY <1>1, <2>1 DEF AddEndpoint, Start, config
  <2>2. CASE AddMountPoint
    <3> DEFINE m == Head(calls)
               mnt == IF m.mnt = <<>> THEN <<"/">> ELSE m.mnt
               e == [mnt |-> mnt, dir |-> m.dir]
    <3>1. baseDirs' = IF m.dir \in Dirs /\ mnt[1] = "/" THEN Append(baseDirs, e) ELSE baseDirs
        BY <2>2 DEF AddMountPoint
    <3>2. m \in Setup
      <4>1. calls # <<>> BY <2>2 DEF AddMountPoint, Calls
      <4> QED BY <1>1, <4>1
    <3>3. mnt \in Seq(Chars)
      <4>1. m.mnt \in Seq(Chars) BY <3>2 DEF Setup
      <4>2. <<"/">> \in Seq(Chars) BY HttpAssumption
      <4> QED BY <4>1, <4>2
    <3> HIDE DEF mnt, m
    <3>4. m.dir \in Dirs => e \in M BY <3>3
    <3> HIDE DEF e, M
    <3> QED BY <1>1, <3>1, <3>4
  <2>3. CASE RemoveMountPoint
    <3> DEFINE hits == {i \in 1..Len(baseDirs) : baseDirs[i].mnt = Head(calls).mnt}
               at == IF hits # {} THEN Min(hits) ELSE 0
    <3>1. baseDirs' = IF at = 0 THEN baseDirs ELSE RemoveAt(baseDirs, at)
        BY <2>3 DEF RemoveMountPoint, SelectInSeq
    <3>2. at \in 0..Len(baseDirs)
      <4>1. hits \in SUBSET (1..Len(baseDirs)) /\ hits \in SUBSET Nat /\ Len(baseDirs) \in Nat BY <1>1
      <4> HIDE DEF hits
      <4>2. hits # {} => Min(hits) \in hits BY <4>1, LeastNumber DEF Min
      <4>3. CASE hits = {} BY <4>1, <4>3
      <4>4. CASE hits # {}
        <5>1. at = Min(hits) /\ Min(hits) \in 1..Len(baseDirs) BY <4>1, <4>2, <4>4
        <5> HIDE DEF at
        <5> QED BY <4>1, <5>1
      <4> QED BY <4>3, <4>4
    <3> HIDE DEF at, M
    <3>3. at # 0 => RemoveAt(baseDirs, at) \in Seq(M)
      <4> SUFFICES ASSUME at # 0 PROVE RemoveAt(baseDirs, at) \in Seq(M) OBVIOUS
      <4>1. SubSeq(baseDirs, 1, at - 1) \in Seq(M) BY <1>1, <3>2
      <4>2. SubSeq(baseDirs, at + 1, Len(baseDirs)) \in Seq(M) BY <1>1, <3>2
      <4> QED BY <4>1, <4>2 DEF RemoveAt
    <3> QED BY <1>1, <3>1, <3>3
  <2> QED BY <2>1, <2>2, <2>3
<1>5. MountsSane' BY <1>3, <1>4 DEF MountsSane
<1> QED BY <1>1, <1>2, <1>5, ServedKept

\* A handler that has parsed a form answers.
LEMMA HandlerReturnsKeeps == ASSUME IInv, HandlerReturns PROVE IInv'
<1>1. PICK status \in {200, 500} :
         /\ Finish(status, ka, FALSE)
         /\ hist' = [hist EXCEPT !.answers = Append(@, status), !.left = @ \/ mp.ret = "false"]
    BY DEF HandlerReturns
<1>2. hist \in HistType /\ hist.answers \in Seq(Nat) /\ ka \in EntryType
    BY DEF IInv, KeepAliveAccounts, ServerTypeOK, HistType, EntryType
<1> DEFINE a == Append(hist.answers, status)
           y == hist.left \/ mp.ret = "false"
           g == [hist EXCEPT !.answers = a, !.left = y]
<1>3. a \in Seq(Nat) BY <1>2
<1>4. y \in BOOLEAN OBVIOUS
<1>5. hist' = g BY <1>1
<1> HIDE DEF a, y
<1>6. g \in HistType /\ g.answers = a /\ g.served = hist.served BY <1>2, <1>3, <1>4 DEF HistType
<1> HIDE DEF g
<1>7. conn.open /\ Counting(ka)
    BY <1>2 DEF IInv, EntrySane, Counting, HandlerReturns
<1>8. stage' = "idle" /\ Quiet BY DEF HandlerReturns, Quiet, config
<1> DEFINE isFile == FALSE
<1>9. Finish(status, ka, isFile) BY <1>1
<1> HIDE DEF isFile
<1>10. Answered(status, ka, isFile, {})
  <2>1. hist'.answers = Append(hist.answers, status) BY <1>5, <1>6 DEF a
  <2>2. hist' \in HistType /\ hist'.served = hist.served \cup {} BY <1>5, <1>6
  <2>3. status \in Nat OBVIOUS
  <2> QED BY <1>7, <1>8, <1>9, <2>1, <2>2, <2>3 DEF Answered
<1> QED BY <1>10, AnsweredKeeps

\* The connection is written to, read from by the client, or closed because the
\* client is gone or has been idle.
LEMMA ConnKeeps ==
    ASSUME IInv, Quiet, UNCHANGED <<stage, ka, hist>>, conn' \in ConnType,
           \/ conn'.open = conn.open /\ conn'.by = conn.by
           \/ stage = "idle" /\ ~conn'.open /\ conn'.by \in {"peer", "idle"}
    PROVE  IInv'
<1>1. ServerTypeOK' BY DEF IInv, KeepAliveAccounts, ServerTypeOK, Quiet
<1>2. KeepAliveAccounts' BY <1>1 DEF IInv, KeepAliveAccounts, Quiet
<1>3. ServedInside' BY DEF IInv, ServedInside, Quiet
<1>4. MountsSane' BY MountsKept DEF IInv
<1>5. EntrySane' BY DEF IInv, EntrySane, Quiet
<1> QED BY <1>2, <1>3, <1>4, <1>5 DEF IInv

LEMMA WriteMoreKeeps == ASSUME IInv, WriteMore PROVE IInv'
<1>1. /\ conn \in ConnType /\ conn.pending \in Seq(Chunk) /\ conn.wire \in Seq(Chunk)
      /\ conn.room \in 0..Room
    BY DEF IInv, KeepAliveAccounts, ServerTypeOK, ConnType
<1>2. conn.room > 0 BY DEF WriteMore
<1>3. Same(conn, conn')
  <2>1. CASE conn.pending = <<>>
    <3> DEFINE b == FALSE
               d == [conn EXCEPT !.writing = b]
    <3>1. conn' = d BY <2>1 DEF WriteMore
    <3>2. b \in BOOLEAN OBVIOUS
    <3> HIDE DEF b
    <3>3. Same(conn, d) BY <1>1, <3>2 DEF Same, ConnType
    <3> QED BY <3>1, <3>3
  <2>2. CASE conn.pending # <<>>
    <3> DEFINE w == Append(conn.wire, Head(conn.pending))
               p == Tail(conn.pending)
               m == conn.room - 1
               d == [conn EXCEPT !.wire = w, !.pending = p, !.room = m]
    <3>1. w \in Seq(Chunk) /\ p \in Seq(Chunk) BY <1>1, <2>2
    <3>2. m \in 0..Room BY <1>1, <1>2, HttpAssumption
    <3>3. conn' = d BY <2>2 DEF WriteMore
    <3> HIDE DEF w, p, m
    <3>4. Same(conn, d) BY <1>1, <3>1, <3>2 DEF Same, ConnType
    <3> QED BY <3>3, <3>4
  <2> QED BY <2>1, <2>2
<1>4. Quiet /\ UNCHANGED <<stage, ka, hist>> BY DEF WriteMore, Quiet, config
<1> QED BY <1>3, <1>4, ConnKeeps DEF Same

LEMMA ClientReadsKeeps == ASSUME IInv, ClientReads PROVE IInv'
<1>1. conn \in ConnType /\ conn.room \in 0..Room
    BY DEF IInv, KeepAliveAccounts, ServerTypeOK, ConnType
<1> DEFINE m == conn.room + 1
           c == [conn EXCEPT !.room = m]
<1>2. m \in 0..Room BY <1>1, HttpAssumption DEF ClientReads
<1>3. conn' = c BY DEF ClientReads
<1> HIDE DEF m
<1>4. c \in ConnType /\ c.open = conn.open /\ c.by = conn.by BY <1>1, <1>2 DEF ConnType
<1> HIDE DEF c
<1>5. Quiet /\ UNCHANGED <<stage, ka, hist>> BY DEF ClientReads, Quiet, config
<1> QED BY <1>3, <1>4, <1>5, ConnKeeps

LEMMA ClosedKeeps == ASSUME IInv, PeerGone \/ IdleTimeout PROVE IInv'
<1>1. conn \in ConnType BY DEF IInv, KeepAliveAccounts, ServerTypeOK
<1>2. PICK who \in {"peer", "idle"} : conn' = Close(conn, who) BY DEF PeerGone, IdleTimeout
<1>3. conn.open /\ stage = "idle" BY DEF PeerGone, IdleTimeout
<1>4. conn' \in ConnType /\ ~conn'.open /\ conn'.by = who BY <1>1, <1>2, <1>3, CloseType
<1>5. Quiet /\ UNCHANGED <<stage, ka, hist>> BY DEF PeerGone, IdleTimeout, Quiet, config
<1> QED BY <1>3, <1>4, <1>5, ConnKeeps

\* What the client sends, and its end, are seen by the history alone.
LEMMA ClientKeeps == ASSUME IInv, ClientSends \/ ClientStops PROVE IInv'
<1>1. hist \in HistType /\ peer \in {"open", "closed", "reset"} /\ phase \in {"setup", "run"}
    BY DEF IInv, KeepAliveAccounts, ServerTypeOK
<1>2. hist' \in HistType /\ hist'.answers = hist.answers /\ hist'.served = hist.served
  <2>1. CASE hist' = hist BY <1>1, <2>1
  <2>2. CASE \E x \in BOOLEAN : hist' = [hist EXCEPT !.cut = x]
    <3>1. PICK x \in BOOLEAN : hist' = [hist EXCEPT !.cut = x] BY <2>2
    <3> QED BY <1>1, <3>1 DEF HistType
  <2>3. CASE \E x \in BOOLEAN : hist' = [hist EXCEPT !.piped = x]
    <3>1. PICK x \in BOOLEAN : hist' = [hist EXCEPT !.piped = x] BY <2>3
    <3> QED BY <1>1, <3>1 DEF HistType
  <2>4. CASE ClientSends
    <3> DEFINE x == hist.piped \/ Len(hist.answers) < Len(sent)
    <3>1. x \in BOOLEAN /\ hist' = [hist EXCEPT !.piped = x] BY <2>4 DEF ClientSends
    <3> HIDE DEF x
    <3> QED BY <2>3, <3>1
  <2>5. CASE ClientStops
    <3> DEFINE x == TRUE
    <3>1. x \in BOOLEAN /\ (hist' = hist \/ hist' = [hist EXCEPT !.cut = x]) BY <2>5 DEF ClientStops
    <3> HIDE DEF x
    <3> QED BY <2>1, <2>2, <3>1
  <2> QED BY <2>4, <2>5
<1>3. /\ peer' \in {"open", "closed", "reset"}
      /\ UNCHANGED <<phase, calls, baseDirs, maxKeepAlive, hasAuth, stage, ka, conn>>
    BY <1>1 DEF ClientSends, ClientStops, config
<1>4. ServerTypeOK' BY <1>2, <1>3 DEF IInv, KeepAliveAccounts, ServerTypeOK
<1>5. KeepAliveAccounts' BY <1>2, <1>3, <1>4 DEF IInv, KeepAliveAccounts
<1>6. ServedInside' BY <1>2, <1>3 DEF IInv, ServedInside
<1>7. MountsSane' BY <1>3 DEF IInv, MountsSane
<1>8. EntrySane' BY <1>2, <1>3 DEF IInv, EntrySane
<1> QED BY <1>5, <1>6, <1>7, <1>8 DEF IInv

\* readCallback and recvMsgCallback.
LEMMA RecvMsgKeeps == ASSUME IInv, NEW n, RecvMsg(n) PROVE IInv'
<1>1. PICK r \in {ParseRequest(buf \o SubSeq(sock, 1, n))} :
          IF r.ok THEN Handle(r, n) ELSE Refuse(n)
    BY DEF RecvMsg
<1>2. conn.open /\ stage = "idle" /\ Quiet BY DEF RecvMsg, Quiet, config
<1>3. CASE r.ok
  <2>1. r.line.path \in Seq(Chars) BY <1>3, ParsedPath
  <2> QED BY <1>1, <1>2, <1>3, <2>1, HandleKeeps
<1>4. CASE ~r.ok BY <1>1, <1>2, <1>4, RefuseKeeps
<1> QED BY <1>3, <1>4

\* A step of the parser touches nothing but the parser.
LEMMA ParseStepKeeps == ASSUME IInv, ParseStep PROVE IInv'
<1>1. /\ UNCHANGED <<stage, ka, conn, hist, maxKeepAlive, hasAuth, peer, phase>>
      /\ UNCHANGED <<calls, baseDirs>>
    BY DEF ParseStep, config
<1>2. peer \in {"open", "closed", "reset"} /\ phase \in {"setup", "run"}
    BY DEF IInv, KeepAliveAccounts, ServerTypeOK
<1>3. MountsSane' BY <1>1 DEF IInv, MountsSane
<1> QED BY <1>1, <1>2, <1>3, ServedKept

LEMMA InitIInv == ASSUME Init PROVE IInv
<1>1. ServerTypeOK
  <2>1. ka \in [first : Nat, second : Nat, in : BOOLEAN] BY DEF Init, NoEntry
  <2>2. conn \in ConnType
    <3>1. \A x, y \in BOOLEAN, q \in Seq(Chunk), n \in 0..Room :
             [open |-> x, by |-> "", writing |-> y, pending |-> q, wire |-> q, room |-> n] \in ConnType
        BY DEF ConnType
    <3>2. Room \in 0..Room BY HttpAssumption
    <3>3. <<>> \in Seq(Chunk) BY EmptySeq
    <3>4. TRUE \in BOOLEAN /\ FALSE \in BOOLEAN OBVIOUS
    <3> QED BY <3>1, <3>2, <3>3, <3>4, Zenon DEF Init
  <2>3. hist \in HistType
    <3>1. \A a \in Seq(Nat), s \in SUBSET (Dirs \X Files), x \in BOOLEAN :
             [answers |-> a, served |-> s, cut |-> x, left |-> x, piped |-> x] \in HistType
        BY DEF HistType
    <3>2. <<>> \in Seq(Nat) /\ {} \in SUBSET (Dirs \X Files) OBVIOUS
    <3>3. FALSE \in BOOLEAN OBVIOUS
    <3> QED BY <3>1, <3>2, <3>3, Zenon DEF Init
  <2> QED BY <2>1, <2>2, <2>3 DEF Init, ServerTypeOK
<1>2. /\ ka.in = FALSE /\ ka.first = 0 /\ conn.by = "" /\ conn.open /\ stage = "idle"
      /\ hist.answers = <<>> /\ hist.served = {}
    BY DEF Init, NoEntry
<1>3. maxKeepAlive \in Nat BY HttpAssumption DEF Init
<1>4. Len(hist.answers) = 0 BY <1>2
<1>5. KeepAliveAccounts
  <2>1. ka.in = (hist.answers # <<>>) /\ ~ka.in /\ conn.by # "server" BY <1>2
  <2>2. ka.first = Len(hist.answers) BY <1>2, <1>4
  <2>3. Len(hist.answers) <= IF maxKeepAlive > 1 THEN maxKeepAlive ELSE 1 BY <1>3, <1>4
  <2> QED BY <1>1, <2>1, <2>2, <2>3, Zenon DEF KeepAliveAccounts
<1>6. ServedInside BY <1>2 DEF ServedInside
<1>7. MountsSane
  <2>1. baseDirs \in Seq([mnt : Seq(Chars), dir : Dirs]) BY EmptySeq DEF Init
  <2>2. calls \in Seq(Setup) BY HttpAssumption DEF Init
  <2> QED BY <2>1, <2>2 DEF MountsSane
<1>8. EntrySane BY <1>2, <1>3 DEF EntrySane
<1> QED BY <1>5, <1>6, <1>7, <1>8 DEF IInv

LEMMA NextKeeps == ASSUME IInv, [Next]_vars PROVE IInv'
<1>1. CASE AddEndpoint \/ AddMountPoint \/ RemoveMountPoint \/ Start BY <1>1, SetupKeeps
<1>2. ASSUME NEW n \in 1..Len(sock), RecvMsg(n) PROVE IInv' BY <1>2, RecvMsgKeeps
<1>3. CASE ParseStep BY <1>3, ParseStepKeeps
<1>4. CASE HandlerReturns BY <1>4, HandlerReturnsKeeps
<1>5. CASE PeerGone \/ IdleTimeout BY <1>5, ClosedKeeps
<1>6. CASE WriteMore BY <1>6, WriteMoreKeeps
<1>7. CASE ClientSends \/ ClientStops BY <1>7, ClientKeeps
<1>8. CASE ClientReads BY <1>8, ClientReadsKeeps
<1>9. CASE UNCHANGED vars
  <2>1. /\ UNCHANGED <<stage, ka, conn, hist, maxKeepAlive, hasAuth, peer, phase>>
        /\ UNCHANGED <<calls, baseDirs>>
      BY <1>9 DEF vars, config
  <2>2. peer \in {"open", "closed", "reset"} /\ phase \in {"setup", "run"}
      BY DEF IInv, KeepAliveAccounts, ServerTypeOK
  <2>3. MountsSane' BY <2>1 DEF IInv, MountsSane
  <2> QED BY <2>1, <2>2, <2>3, ServedKept
<1> QED BY <1>1, <1>2, <1>3, <1>4, <1>5, <1>6, <1>7, <1>8, <1>9 DEF Next

-----------------------------------------------------------------------------
(* The theorems *)

\* IInv holds in every state: mount points are directories, the entry of a
\* connection counts its answers, what is sent is inside.
THEOREM Invariance == Spec => []IInv
<1>1. Init => IInv BY InitIInv
<1>2. IInv /\ [Next]_vars => IInv' BY NextKeeps
<1> QED BY <1>1, <1>2, PTL DEF Spec

\* handleFileRequest never sends a file outside the mounted directory that
\* matched, nor one the auth callback has not accepted, for every file system,
\* every path, every set of mount points.
THEOREM NothingOutside == Spec => []ServedInside
<1>1. IInv => ServedInside BY DEF IInv
<1> QED BY <1>1, Invariance, PTL

\* recvMsgCallback's keepAliveRequests counts the answers of an open connection
\* below its limit, forgets one the server has closed, and no connection gets
\* more answers than maxKeepAliveRequests_.
THEOREM AnswersCounted == Spec => []KeepAliveAccounts
<1>1. IInv => KeepAliveAccounts BY DEF IInv
<1> QED BY <1>1, Invariance, PTL

=============================================================================
