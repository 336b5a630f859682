------------------------------ MODULE SitesProofs ------------------------------
(***************************************************************************)
(* What holds of the routing table for every set of names, directories,    *)
(* pools and clients.  The two ways the code has to say what serves a name *)
(* agree: the fold over all parked directories, and the search for one     *)
(* name.  So the pass over one site leaves the table the full pass would.  *)
(***************************************************************************)
EXTENDS Sites, FiniteSetTheorems, FunctionTheorems, WellFoundedInduction, TLAPS

-------------------------------------------------------------------------------
(* Numbers and sequences *)

(* A set of natural numbers has a least member... *)
LEMMA Least ==
  ASSUME NEW T \in SUBSET Nat, T # {}
  PROVE  \E i \in T : \A j \in T : i =< j
<1>1. PICK i \in T : \A j \in T : ~(<<j, i>> \in OpToRel(<, Nat))
  BY NatLessThanWellFounded, WFMin
<1>2. \A j \in T : ~(j < i)
  BY <1>1 DEF OpToRel
<1> QED BY <1>2

LEMMA MinIs ==
  ASSUME NEW T \in SUBSET Nat, T # {}
  PROVE  Min(T) \in T /\ \A j \in T : Min(T) =< j
BY Least, Zenon DEF Min

(* ... and a bounded one a greatest. *)
LEMMA MaxIs ==
  ASSUME NEW N \in Nat, NEW T \in SUBSET (0 .. N), T # {}
  PROVE  Max(T) \in T /\ \A j \in T : j =< Max(T)
<1> DEFINE below == {N - i : i \in T}
<1>1. below \in SUBSET Nat /\ below # {}
  <2>1. \A i \in T : N - i \in Nat OBVIOUS
  <2>2. PICK i : i \in T OBVIOUS
  <2>3. N - i \in below BY <2>2
  <2> QED BY <2>1, <2>3
<1>2. PICK k \in below : \A j \in below : k =< j BY <1>1, Least
<1>3. PICK m \in T : k = N - m BY <1>2
<1>4. \A j \in T : m >= j
  <2> TAKE j \in T
  <2>1. N - j \in below OBVIOUS
  <2>2. N - m =< N - j BY <1>2, <1>3, <2>1
  <2> QED BY <2>2
<1>5. Max(T) \in T /\ \A j \in T : Max(T) >= j BY <1>4, Zenon DEF Max
<1> QED BY <1>5

(* What is kept of a list, in its order, is such a list. The recursion has a *)
(* solution for every length, or there would be a least without one.         *)
LEMMA WithoutIs ==
  ASSUME NEW S, NEW list \in Seq(S), NEW removed
  PROVE  Without(list, removed) \in Seq(S)
<1> DEFINE N == Len(list)
           step(f, i) == IF i = 0 THEN <<>>
                         ELSE IF list[i] \in removed THEN f[i - 1] ELSE Append(f[i - 1], list[i])
           Kept(f, n) == f = [i \in 0 .. n |-> step(f, i)]
           Bad == {n \in 0 .. N : ~\E f : Kept(f, n)}
<1>0. N \in Nat OBVIOUS
<1>1. \A n \in 0 .. N : \E f : Kept(f, n)
  <2>1. SUFFICES ASSUME Bad # {} PROVE FALSE
    <3> HIDE DEF Kept
    <3> QED OBVIOUS
  <2>2. Bad \in SUBSET Nat BY <1>0
  <2> HIDE DEF Bad
  <2>3. PICK n \in Bad : \A j \in Bad : n =< j BY <2>1, <2>2, Least
  <2>4. n \in 0 .. N /\ ~\E f : Kept(f, n) BY <2>3 DEF Bad
  <2>5. CASE n = 0
    <3>1. Kept([i \in 0 .. 0 |-> <<>>], 0) OBVIOUS
    <3> QED BY <2>4, <2>5, <3>1
  <2>6. CASE n # 0
    <3>1. n - 1 \in 0 .. N /\ n - 1 < n BY <1>0, <2>4, <2>6
    <3>2. n - 1 \notin Bad BY <2>2, <2>3, <3>1
    <3>3. PICK f : Kept(f, n - 1) BY <3>1, <3>2 DEF Bad
    <3> DEFINE g == [i \in 0 .. n |-> IF i = n THEN step(f, n) ELSE f[i]]
    <3>4. \A i \in 0 .. n : g[i] = step(g, i)
      <4> TAKE i \in 0 .. n
      <4>1. CASE i = n
        <5>1. n \in 0 .. n /\ n - 1 \in 0 .. n /\ n - 1 # n BY <2>4, <2>6
        <5>2. g[n] = step(f, n) /\ g[n - 1] = f[n - 1] BY <5>1
        <5> HIDE DEF g
        <5> QED BY <2>6, <4>1, <5>2
      <4>2. CASE i # n /\ i # 0
        <5>1. i \in 0 .. (n - 1) /\ i - 1 \in 0 .. n /\ i - 1 # n BY <2>4, <4>2
        <5>2. g[i] = f[i] /\ g[i - 1] = f[i - 1] BY <4>2, <5>1
        <5>3. f[i] = step(f, i) BY <3>3, <5>1
        <5> HIDE DEF g
        <5> QED BY <4>2, <5>2, <5>3
      <4>3. CASE i # n /\ i = 0
        <5>1. g[0] = f[0] /\ 0 \in 0 .. (n - 1) BY <2>4, <4>3
        <5>2. f[0] = <<>> BY <3>3, <5>1
        <5> HIDE DEF g
        <5> QED BY <4>3, <5>1, <5>2
      <4> QED BY <4>1, <4>2, <4>3
    <3>5. g = [i \in 0 .. n |-> g[i]] OBVIOUS
    <3> HIDE DEF g
    <3>6. Kept(g, n) BY <3>4, <3>5
    <3> QED BY <2>4, <3>6
  <2> QED BY <2>5, <2>6
<1>2. \E f : Kept(f, N)
  <2>1. N \in 0 .. N BY <1>0
  <2> HIDE DEF Kept
  <2> QED BY <1>1, <2>1
<1>3. PICK k : Kept(k, N) /\ Without(list, removed) = k[N]
  <2> DEFINE k == CHOOSE f : Kept(f, N)
  <2>1. Kept(k, N) BY <1>2, Zenon
  <2>2. Without(list, removed) = k[N] BY Zenon DEF Without
  <2> QED BY <2>1, <2>2
<1>4. k[0] = <<>> /\ \A i \in 0 .. N : i # 0 =>
        k[i] = IF list[i] \in removed THEN k[i - 1] ELSE Append(k[i - 1], list[i])
  <2>1. \A i \in 0 .. N : k[i] = step(k, i)
    <3> HIDE DEF step
    <3> QED BY <1>3
  <2>2. 0 \in 0 .. N BY <1>0
  <2> QED BY <2>1, <2>2
<1> DEFINE Wrong == {n \in 0 .. N : k[n] \notin Seq(S)}
<1>5. \A n \in 0 .. N : k[n] \in Seq(S)
  <2>1. SUFFICES ASSUME Wrong # {} PROVE FALSE OBVIOUS
  <2>2. Wrong \in SUBSET Nat BY <1>0
  <2> HIDE DEF Wrong
  <2>3. PICK n \in Wrong : \A j \in Wrong : n =< j BY <2>1, <2>2, Least
  <2>4. n \in 0 .. N /\ k[n] \notin Seq(S) BY <2>3 DEF Wrong
  <2>a. <<>> \in Seq(S) OBVIOUS
  <2>5. n # 0 BY ONLY <1>4, <2>4, <2>a
  <2>6. n - 1 \in 0 .. N /\ n - 1 < n BY <1>0, <2>4, <2>5
  <2>7. k[n - 1] \in Seq(S) BY <2>2, <2>3, <2>6 DEF Wrong
  <2>8. n \in 1 .. N /\ list[n] \in S BY <2>4, <2>5
  <2>9. Append(k[n - 1], list[n]) \in Seq(S) BY <2>7, <2>8
  <2> QED BY <1>4, <2>4, <2>5, <2>7, <2>9
<1>6. N \in 0 .. N BY <1>0
<1> QED BY <1>3, <1>5, <1>6

-------------------------------------------------------------------------------
(* What a configuration serves *)

FoundAt(c, s, n) == {i \in s : n \in Entries(c.parked[i])}

(* What the links and the directories in s serve, said at once. *)
Serves(c, s) ==
  [n \in DOMAIN LinkedIn(c) \cup {m \in Names : FoundAt(c, s, m) # {}} |->
     IF n \in DOMAIN LinkedIn(c) THEN LinkedIn(c)[n]
     ELSE ParkedAt(Spelled(<<c.parked[Min(FoundAt(c, s, n))], n>>))]

(* One directory more, after those in s, adds what they have not.            *)
LEMMA ServesMore ==
  ASSUME NEW c, NEW s \in SUBSET Nat, NEW x \in Nat, \A i \in s : i < x
  PROVE  Serves(c, s \cup {x}) = Adding(Serves(c, s), c.parked[x])
<1> DEFINE more == s \cup {x}
           root == c.parked[x]
<1>0. \A n : FoundAt(c, s, n) \in SUBSET Nat /\ FoundAt(c, more, n) \in SUBSET Nat BY DEF FoundAt
<1>1. \A n : FoundAt(c, more, n) = IF n \in Entries(root) THEN FoundAt(c, s, n) \cup {x} ELSE FoundAt(c, s, n)
  BY DEF FoundAt
<1>2. \A n : FoundAt(c, s, n) # {} => Min(FoundAt(c, more, n)) = Min(FoundAt(c, s, n))
  <2> SUFFICES ASSUME NEW n, FoundAt(c, s, n) # {} PROVE Min(FoundAt(c, more, n)) = Min(FoundAt(c, s, n))
    OBVIOUS
  <2>1. Min(FoundAt(c, s, n)) \in FoundAt(c, s, n) /\ \A j \in FoundAt(c, s, n) : Min(FoundAt(c, s, n)) =< j
    BY <1>0, MinIs
  <2>2. FoundAt(c, more, n) # {} BY <1>1
  <2>3. Min(FoundAt(c, more, n)) \in FoundAt(c, more, n) /\ \A j \in FoundAt(c, more, n) : Min(FoundAt(c, more, n)) =< j
    BY <1>0, <2>2, MinIs
  <2>4. \A j \in FoundAt(c, s, n) : j < x BY DEF FoundAt
  <2>5. PICK a : a = Min(FoundAt(c, s, n)) OBVIOUS
  <2>6. PICK b : b = Min(FoundAt(c, more, n)) OBVIOUS
  <2>7. a \in Nat /\ b \in Nat /\ a \in FoundAt(c, more, n) BY <1>0, <1>1, <2>1, <2>3, <2>5, <2>6
  <2>8. b =< a BY <2>3, <2>6, <2>7
  <2>9. a < x BY <2>1, <2>4, <2>5
  <2>10. b \in FoundAt(c, s, n)
    <3>1. b # x BY <2>7, <2>8, <2>9
    <3>2. b \in FoundAt(c, more, n) BY <2>3, <2>6
    <3> HIDE DEF more
    <3> QED BY <1>1, <3>1, <3>2
  <2>11. a =< b BY <2>1, <2>5, <2>10
  <2>12. a = b BY <2>7, <2>8, <2>11
  <2> QED BY <2>5, <2>6, <2>12
<1>3. \A n : FoundAt(c, s, n) = {} /\ n \in Entries(root) => Min(FoundAt(c, more, n)) = x
  <2> SUFFICES ASSUME NEW n, FoundAt(c, s, n) = {}, n \in Entries(root) PROVE Min(FoundAt(c, more, n)) = x
    OBVIOUS
  <2>1. FoundAt(c, more, n) = {x} BY <1>1
  <2> QED BY <1>0, <2>1, MinIs
<1>4. \A n \in Entries(root) : n \in Names BY DEF Entries
<1>5. DOMAIN Serves(c, more) = DOMAIN Serves(c, s) \cup Entries(root)
  BY <1>1, <1>4 DEF Serves
<1>6. \A n \in DOMAIN Serves(c, more) :
        Serves(c, more)[n] = IF n \in DOMAIN Serves(c, s) THEN Serves(c, s)[n] ELSE ParkedAt(Spelled(<<root, n>>))
  <2> SUFFICES ASSUME NEW n \in DOMAIN Serves(c, more)
               PROVE  Serves(c, more)[n] = IF n \in DOMAIN Serves(c, s) THEN Serves(c, s)[n] ELSE ParkedAt(Spelled(<<root, n>>))
    OBVIOUS
  <2>1. CASE n \in DOMAIN LinkedIn(c) BY <2>1 DEF Serves
  <2>2. CASE n \notin DOMAIN LinkedIn(c) /\ FoundAt(c, s, n) # {} /\ n \in Names
    <3>1. n \in DOMAIN Serves(c, s) /\ Serves(c, s)[n] = ParkedAt(Spelled(<<c.parked[Min(FoundAt(c, s, n))], n>>))
      BY <2>2 DEF Serves
    <3>2. Serves(c, more)[n] = ParkedAt(Spelled(<<c.parked[Min(FoundAt(c, more, n))], n>>)) BY <2>2 DEF Serves
    <3> QED BY <1>2, <2>2, <3>1, <3>2
  <2>3. CASE n \notin DOMAIN LinkedIn(c) /\ FoundAt(c, s, n) = {}
    <3>1. n \notin DOMAIN Serves(c, s) BY <2>3 DEF Serves
    <3>2. n \in Entries(root) BY <1>5, <3>1
    <3>3. Serves(c, more)[n] = ParkedAt(Spelled(<<c.parked[Min(FoundAt(c, more, n))], n>>)) BY <2>3 DEF Serves
    <3> QED BY <1>3, <2>3, <3>1, <3>2, <3>3
  <2>4. n \in DOMAIN LinkedIn(c) \/ n \in Names BY DEF Serves
  <2> QED BY <2>1, <2>2, <2>3, <2>4
<1>7. Serves(c, more) = [n \in DOMAIN Serves(c, s) \cup Entries(root) |-> Serves(c, more)[n]]
  <2>1. Serves(c, more) = [n \in DOMAIN Serves(c, more) |-> Serves(c, more)[n]] BY DEF Serves
  <2> QED BY <1>5, <2>1
<1> QED BY <1>5, <1>6, <1>7 DEF Adding

(* The fold has a solution, the one above, and no other. *)
LEMMA ResolveServes ==
  ASSUME NEW c, c.parked \in Seq(Roots)
  PROVE  resolve(c) = Serves(c, DOMAIN c.parked)
<1> DEFINE D == DOMAIN c.parked
           N == Len(c.parked)
           Folds(f) == f = [s \in SUBSET D |->
                              IF s = {} THEN LinkedIn(c)
                              ELSE Adding(f[s \ {Max(s)}], c.parked[Max(s)])]
           G == [s \in SUBSET D |-> Serves(c, s)]
<1>0. N \in Nat /\ D = 1 .. N OBVIOUS
<1>1. Serves(c, {}) = LinkedIn(c)
  <2>1. \A n : FoundAt(c, {}, n) = {} BY DEF FoundAt
  <2>2. {m \in Names : FoundAt(c, {}, m) # {}} = {} BY <2>1
  <2>3. LinkedIn(c) = [n \in DOMAIN LinkedIn(c) |-> LinkedIn(c)[n]] BY DEF LinkedIn
  <2> DEFINE links == LinkedIn(c)
  <2>4. Serves(c, {}) = [n \in DOMAIN links |->
            IF n \in DOMAIN links THEN links[n] ELSE ParkedAt(Spelled(<<c.parked[Min(FoundAt(c, {}, n))], n>>))]
    BY <2>2 DEF Serves
  <2> HIDE DEF links
  <2>5. Serves(c, {}) = [n \in DOMAIN links |-> links[n]] BY <2>4
  <2> QED BY <2>3, <2>5 DEF links
<1>2. Folds(G)
  <2>1. ASSUME NEW s \in SUBSET D, s # {}
        PROVE  Serves(c, s) = Adding(Serves(c, s \ {Max(s)}), c.parked[Max(s)]) /\ s \ {Max(s)} \in SUBSET D
    <3>1. s \in SUBSET (0 .. N) BY <1>0, <2>1
    <3>2. Max(s) \in s /\ \A j \in s : j =< Max(s) BY <1>0, <2>1, <3>1, MaxIs
    <3>3. PICK x : x = Max(s) OBVIOUS
    <3>4. x \in Nat /\ s \ {x} \in SUBSET Nat /\ s = (s \ {x}) \cup {x} BY <1>0, <3>1, <3>2, <3>3
    <3>5. \A i \in s \ {x} : i < x BY <3>1, <3>2, <3>3, <3>4
    <3>6. Serves(c, (s \ {x}) \cup {x}) = Adding(Serves(c, s \ {x}), c.parked[x]) BY <3>4, <3>5, ServesMore
    <3> QED BY <3>3, <3>4, <3>6
  <2>2. ASSUME NEW s \in SUBSET D
        PROVE  G[s] = IF s = {} THEN LinkedIn(c) ELSE Adding(G[s \ {Max(s)}], c.parked[Max(s)])
    <3>1. CASE s = {} BY <1>1, <3>1
    <3>2. CASE s # {}
      <4>1. G[s] = Serves(c, s) OBVIOUS
      <4>2. G[s \ {Max(s)}] = Serves(c, s \ {Max(s)}) BY <2>1, <3>2
      <4> QED BY <2>1, <3>2, <4>1, <4>2
    <3> QED BY <3>1, <3>2
  <2>3. G = [s \in SUBSET D |-> G[s]] OBVIOUS
  <2> HIDE DEF G
  <2> QED BY <2>2, <2>3
<1>3. PICK f : Folds(f) /\ resolve(c) = f[D]
  <2> DEFINE f == CHOOSE g : Folds(g)
  <2> HIDE DEF G
  <2>1. Folds(f) BY <1>2, Zenon
  <2>2. resolve(c) = f[D] BY Zenon DEF resolve, FoldLeft, MapThenFoldSet
  <2> QED BY <2>1, <2>2
<1>4. f[{}] = LinkedIn(c)
  <2>1. {} \in SUBSET D OBVIOUS
  <2> HIDE DEF D
  <2> QED BY <1>3, <2>1
<1>5. ASSUME NEW s \in SUBSET D, s # {} PROVE f[s] = Adding(f[s \ {Max(s)}], c.parked[Max(s)])
  <2> HIDE DEF D
  <2> QED BY <1>3, <1>5
<1> DEFINE Wrong == {i \in 0 .. N : f[1 .. i] # Serves(c, 1 .. i)}
<1>6. \A i \in 0 .. N : f[1 .. i] = Serves(c, 1 .. i)
  <2>1. SUFFICES ASSUME Wrong # {} PROVE FALSE OBVIOUS
  <2>2. Wrong \in SUBSET Nat BY <1>0
  <2> HIDE DEF Wrong
  <2>3. PICK i \in Wrong : \A j \in Wrong : i =< j BY <2>1, <2>2, Least
  <2>4. i \in 0 .. N /\ f[1 .. i] # Serves(c, 1 .. i) BY <2>3 DEF Wrong
  <2>5. CASE i = 0
    <3>1. 1 .. i = {} BY <2>5
    <3> QED BY <1>1, <1>4, <2>4, <3>1
  <2>6. CASE i # 0
    <3>1. i \in Nat /\ i - 1 \in 0 .. N /\ i - 1 < i BY <1>0, <2>4, <2>6
    <3>2. f[1 .. (i - 1)] = Serves(c, 1 .. (i - 1)) BY <2>2, <2>3, <3>1 DEF Wrong
    <3>3. 1 .. i \in SUBSET D /\ 1 .. i # {} BY <1>0, <2>4, <2>6
    <3>4. Max(1 .. i) = i
      <4>1. 1 .. i \in SUBSET (0 .. N) BY <1>0, <2>4
      <4>2. Max(1 .. i) \in 1 .. i /\ \A j \in 1 .. i : j =< Max(1 .. i) BY <1>0, <3>3, <4>1, MaxIs
      <4>3. i \in 1 .. i BY <2>6, <3>1
      <4> QED BY <3>1, <4>2, <4>3
    <3>5. (1 .. i) \ {i} = 1 .. (i - 1) /\ 1 .. i = (1 .. (i - 1)) \cup {i} BY <2>6, <3>1
    <3>6. f[1 .. i] = Adding(f[1 .. (i - 1)], c.parked[i]) BY <1>5, <3>3, <3>4, <3>5
    <3>7. Serves(c, (1 .. (i - 1)) \cup {i}) = Adding(Serves(c, 1 .. (i - 1)), c.parked[i])
      <4>1. 1 .. (i - 1) \in SUBSET Nat /\ \A j \in 1 .. (i - 1) : j < i BY <3>1
      <4> QED BY <3>1, <4>1, ServesMore
    <3> QED BY <2>4, <3>2, <3>5, <3>6, <3>7
  <2> QED BY <2>5, <2>6
<1>7. N \in 0 .. N BY <1>0
<1> HIDE DEF Wrong, Folds
<1> QED BY <1>0, <1>3, <1>6, <1>7

(* What serves a name: its link, or the first parked directory that has it.  *)
Site(c, n) ==
  IF c.links[n] # None THEN c.links[n]
  ELSE IF FoundAt(c, DOMAIN c.parked, n) # {} THEN ParkedAt(Spelled(<<c.parked[Min(FoundAt(c, DOMAIN c.parked, n))], n>>))
  ELSE None

LEMMA PathTyped ==
  ASSUME NEW root \in Roots, NEW n \in Names
  PROVE  /\ <<root, n>> \in Dirs
         /\ Spelled(<<root, n>>) \in Paths /\ Lowered(<<root, n>>) \in Paths
<1>1. PICK low \in BOOLEAN : low = (<<root, n>> \notin Capital) BY Zenon
<1>2. Spelled(<<root, n>>) = <<root, n, low>> /\ Lowered(<<root, n>>) = <<root, n, TRUE>>
  BY <1>1 DEF Spelled, Lowered
<1>3. <<root, n, low>> \in Paths /\ <<root, n, TRUE>> \in Paths BY DEF Paths
<1>4. <<root, n>> \in Dirs BY DEF Dirs
<1> QED BY <1>2, <1>3, <1>4

LEMMA ParkedTyped ==
  ASSUME NEW root \in Roots, NEW n \in Names
  PROVE  ParkedAt(Spelled(<<root, n>>)) \in Link
<1>1. PICK path \in Paths : path = Spelled(<<root, n>>) BY PathTyped
<1>2. LinkOf(path, None, FALSE, FALSE) \in Link BY DEF LinkOf, Link
<1> QED BY <1>1, <1>2 DEF ParkedAt

LEMMA SiteTyped ==
  ASSUME NEW c \in Config, NEW n \in Names
  PROVE  Site(c, n) \in Link \cup {None}
<1> DEFINE found == FoundAt(c, DOMAIN c.parked, n)
<1>1. c.parked \in Seq(Roots) /\ c.links \in [Names -> Link \cup {None}] BY DEF Config
<1>2. found \in SUBSET Nat /\ found \subseteq DOMAIN c.parked BY <1>1 DEF FoundAt
<1>3. Site(c, n) = IF c.links[n] # None THEN c.links[n]
                   ELSE IF found # {} THEN ParkedAt(Spelled(<<c.parked[Min(found)], n>>)) ELSE None
  BY DEF Site
<1> HIDE DEF found
<1>4. ASSUME found # {} PROVE ParkedAt(Spelled(<<c.parked[Min(found)], n>>)) \in Link
  <2>1. Min(found) \in DOMAIN c.parked BY <1>2, <1>4, MinIs
  <2>2. c.parked[Min(found)] \in Roots BY <1>1, <2>1
  <2> QED BY <2>2, ParkedTyped
<1> QED BY <1>1, <1>3, <1>4

(* `resolve` says it of all names... *)
LEMMA ResolveIs ==
  ASSUME NEW c \in Config, NEW n \in Names
  PROVE  /\ n \in DOMAIN resolve(c) <=> Site(c, n) # None
         /\ n \in DOMAIN resolve(c) => resolve(c)[n] = Site(c, n)
<1> DEFINE found == FoundAt(c, DOMAIN c.parked, n)
           site == Site(c, n)
<1>1. c.parked \in Seq(Roots) /\ c.links \in [Names -> Link \cup {None}] BY DEF Config
<1>2. resolve(c) = Serves(c, DOMAIN c.parked) BY <1>1, ResolveServes
<1>3. n \in DOMAIN LinkedIn(c) <=> c.links[n] # None BY DEF LinkedIn
<1>4. c.links[n] # None => LinkedIn(c)[n] = c.links[n] BY DEF LinkedIn
<1>5. site = IF c.links[n] # None THEN c.links[n]
             ELSE IF found # {} THEN ParkedAt(Spelled(<<c.parked[Min(found)], n>>)) ELSE None
  BY DEF Site
<1>6. n \in DOMAIN Serves(c, DOMAIN c.parked) <=> c.links[n] # None \/ found # {} BY <1>3 DEF Serves
<1>7. n \in DOMAIN Serves(c, DOMAIN c.parked) =>
        Serves(c, DOMAIN c.parked)[n] = IF c.links[n] # None THEN c.links[n]
                                        ELSE ParkedAt(Spelled(<<c.parked[Min(found)], n>>))
  BY <1>3, <1>4 DEF Serves
<1>8. found # {} => ParkedAt(Spelled(<<c.parked[Min(found)], n>>)) # None
  <2>1. ASSUME found # {} PROVE ParkedAt(Spelled(<<c.parked[Min(found)], n>>)) \in Link
    <3>1. found \in SUBSET Nat BY <1>1 DEF FoundAt
    <3>2. Min(found) \in found BY <2>1, <3>1, MinIs
    <3>3. Min(found) \in DOMAIN c.parked BY <3>2 DEF FoundAt
    <3>4. c.parked[Min(found)] \in Roots BY <1>1, <3>3
    <3> QED BY <3>4, ParkedTyped
  <2> QED BY <2>1, SitesAssumption
<1> HIDE DEF found, site
<1>9. n \in DOMAIN resolve(c) <=> site # None BY <1>1, <1>2, <1>5, <1>6, <1>8
<1>10. n \in DOMAIN resolve(c) => resolve(c)[n] = site BY <1>2, <1>5, <1>6, <1>7
<1> QED BY <1>9, <1>10 DEF site

(* ... and `resolve_one` of one that it mirrors: the first directory of the  *)
(* name in a parked one is spelled as the path that is joined.               *)
LEMMA OneIs ==
  ASSUME NEW c \in Config, NEW n \in Names, Mirrored(c, n)
  PROVE  resolve_one(c, n) = Site(c, n)
<1> DEFINE found == {i \in DOMAIN c.parked : IsDir(c.parked[i], n)}
<1>0. n \notin Dotted BY DEF Mirrored
<1>1. CASE c.links[n] # None BY <1>0, <1>1 DEF resolve_one, Site
<1>2. CASE c.links[n] = None
  <2> DEFINE all == {i \in DOMAIN c.parked : <<c.parked[i], n>> \in dirs}
  <2>1. FoundAt(c, DOMAIN c.parked, n) = all BY <1>0 DEF FoundAt, Entries
  <2>2. all \in SUBSET Nat /\ found \subseteq all BY DEF Config, IsDir
  <2>3. ASSUME all # {} PROVE Min(all) \in found /\ Min(all) = Min(found)
                              /\ <<c.parked[Min(all)], n>> \notin Capital
    <3>1. Min(all) \in all /\ \A i \in all : Min(all) <= i BY <2>2, <2>3, MinIs
    <3>2. PICK least : least = Min(all) OBVIOUS
    <3>3. least \in Nat /\ DOMAIN c.parked = 1..Len(c.parked) BY <2>2, <3>1, <3>2 DEF Config
    <3>4. \A j \in 1..(least - 1) : j \notin all
      <4> HIDE DEF all
      <4>1. \A i \in all : least <= i BY <3>1, <3>2
      <4> QED BY <3>3, <4>1
    <3>5. <<c.parked[least], n>> \notin Capital
      <4>1. ASSUME NEW j \in 1..(least - 1), <<c.parked[j], n>> \in dirs PROVE FALSE
        <5>1. j \in DOMAIN c.parked BY <3>1, <3>2, <3>3
        <5> QED BY <3>4, <4>1, <5>1
      <4> QED BY <1>2, <3>1, <3>2, <4>1 DEF Mirrored
    <3>6. least \in found BY <3>1, <3>2, <3>5 DEF IsDir
    <3>7. Min(found) \in found /\ \A i \in found : Min(found) <= i BY <2>2, <3>6, MinIs
    <3>8. Min(found) = least
      <4> HIDE DEF all, found
      <4>1. PICK first : first = Min(found) OBVIOUS
      <4>2. first \in found /\ first <= least BY <3>6, <3>7, <4>1
      <4>3. first \in Nat /\ least <= first BY <2>2, <3>1, <3>2, <4>2
      <4> QED BY <3>3, <4>1, <4>2, <4>3
    <3> QED BY <3>2, <3>5, <3>6, <3>8
  <2>4. all # {} <=> found # {} BY <2>2, <2>3
  <2>5. all # {} => Spelled(<<c.parked[Min(all)], n>>) = Lowered(<<c.parked[Min(all)], n>>)
    BY <2>3 DEF Spelled, Lowered
  <2>6. Site(c, n) = IF all # {} THEN ParkedAt(Spelled(<<c.parked[Min(all)], n>>)) ELSE None
    BY <1>2, <2>1 DEF Site
  <2>7. resolve_one(c, n) = IF found # {} THEN ParkedAt(Lowered(<<c.parked[Min(found)], n>>)) ELSE None
    BY <1>0, <1>2 DEF resolve_one
  <2> HIDE DEF found, all
  <2> QED BY <2>3, <2>4, <2>5, <2>6, <2>7
<1> QED BY <1>1, <1>2

LEMMA OneTyped ==
  ASSUME NEW c \in Config, NEW n \in Names
  PROVE  resolve_one(c, n) \in Link \cup {None}
<1> DEFINE found == {i \in DOMAIN c.parked : IsDir(c.parked[i], n)}
<1>1. c.parked \in Seq(Roots) /\ c.links[n] \in Link \cup {None} BY DEF Config
<1>2. ASSUME found # {} PROVE ParkedAt(Lowered(<<c.parked[Min(found)], n>>)) \in Link
  <2>1. found \in SUBSET Nat /\ found \subseteq DOMAIN c.parked BY <1>1
  <2>2. Min(found) \in found BY <1>2, <2>1, MinIs
  <2>a. Min(found) \in DOMAIN c.parked BY <2>1, <2>2
  <2>b. c.parked[Min(found)] \in Roots
    <3> HIDE DEF found
    <3> QED BY <1>1, <2>a
  <2>3. PICK root \in Roots : root = c.parked[Min(found)]
    <3> HIDE DEF found
    <3> QED BY <2>b
  <2>4. PICK path \in Paths : path = Lowered(<<root, n>>) BY PathTyped
  <2>5. LinkOf(path, None, FALSE, FALSE) \in Link BY DEF LinkOf, Link
  <2> QED BY <2>3, <2>4, <2>5 DEF ParkedAt
<1>3. \/ resolve_one(c, n) = None
      \/ resolve_one(c, n) = c.links[n]
      \/ found # {} /\ resolve_one(c, n) = ParkedAt(Lowered(<<c.parked[Min(found)], n>>))
  BY DEF resolve_one
<1> HIDE DEF found
<1> QED BY <1>1, <1>2, <1>3

(* A record without its upstream. *)
LEMMA Bare ==
  ASSUME NEW path, NEW pool, NEW secure, NEW up, NEW route,
         route = [path |-> path, pool |-> pool, secure |-> secure, upstream |-> up]
  PROVE  [route EXCEPT !.upstream = FALSE] =
           [path |-> path, pool |-> pool, secure |-> secure, upstream |-> FALSE]
<1>1. PICK off : off = FALSE OBVIOUS
<1> DEFINE l == [route EXCEPT !.upstream = off]
           r == [path |-> path, pool |-> pool, secure |-> secure, upstream |-> off]
<1>2. l.path = r.path /\ l.pool = r.pool /\ l.secure = r.secure /\ l.upstream = r.upstream OBVIOUS
<1>3. l = [k \in {"path", "pool", "secure", "upstream"} |-> l[k]] OBVIOUS
<1>4. r = [k \in {"path", "pool", "secure", "upstream"} |-> r[k]] OBVIOUS
<1>5. l = r
  <2> HIDE DEF l, r
  <2> QED BY <1>2, <1>3, <1>4
<1> QED BY <1>1, <1>5

(* A route to a site; only its upstream depends on what does not start.      *)
LEMMA RouteTyped ==
  ASSUME NEW c \in Config, NEW n \in Names, NEW site \in Link, NEW refused
  PROVE  /\ RouteTo(c, n, site, refused) \in Route /\ RouteTo(c, n, site, refused) # None
         /\ RouteTo(c, n, site, refused).pool = PoolOf(c, site)
         /\ [RouteTo(c, n, site, refused) EXCEPT !.upstream = FALSE] = RouteTo(c, n, site, Names)
<1> DEFINE route == RouteTo(c, n, site, refused)
<1>1. c.pool \in Pools BY DEF Config
<1>2. site.path \in Paths /\ site.pool \in Pools \cup {None} /\ site.secure \in BOOLEAN BY DEF Link
<1>3. PoolOf(c, site) \in Pools BY <1>1, <1>2 DEF PoolOf
<1>4. PICK up \in BOOLEAN : up = (site.octane /\ n \notin refused) BY Zenon
<1>5. route = [path |-> site.path, pool |-> PoolOf(c, site), secure |-> site.secure, upstream |-> up]
  BY <1>4 DEF RouteTo
<1>6. RouteTo(c, n, site, Names) = [path |-> site.path, pool |-> PoolOf(c, site), secure |-> site.secure, upstream |-> FALSE]
  BY DEF RouteTo
<1> HIDE DEF route
<1>7. route \in Route BY <1>2, <1>3, <1>5 DEF Route
<1>8. route # None BY <1>7, SitesAssumption
<1>9. [route EXCEPT !.upstream = FALSE] = RouteTo(c, n, site, Names)
  <2> DEFINE bare == [path |-> site.path, pool |-> PoolOf(c, site), secure |-> site.secure, upstream |-> FALSE]
  <2>1. [route EXCEPT !.upstream = FALSE] = bare BY ONLY <1>5, Bare
  <2> QED BY <1>6, <2>1
<1>10. route.pool = PoolOf(c, site) BY <1>5
<1> QED BY <1>7, <1>8, <1>9, <1>10 DEF route

LEMMA RoutesAre ==
  ASSUME NEW c \in Config, NEW refused
  PROVE  /\ RoutesOf(c, refused) \in [Names -> Route \cup {None}]
         /\ \A n \in Names : RoutesOf(c, refused)[n] =
              IF Site(c, n) = None THEN None ELSE RouteTo(c, n, Site(c, n), refused)
<1>1. \A n \in Names : RoutesOf(c, refused)[n] =
              IF Site(c, n) = None THEN None ELSE RouteTo(c, n, Site(c, n), refused)
  BY ResolveIs DEF RoutesOf
<1>2. \A n \in Names : RoutesOf(c, refused)[n] \in Route \cup {None}
  BY <1>1, SiteTyped, RouteTyped
<1> DEFINE new == RoutesOf(c, refused)
<1>3. new = [n \in Names |-> new[n]] BY DEF RoutesOf
<1> HIDE DEF new
<1> QED BY <1>1, <1>2, <1>3 DEF new

(* A finite set as a list. *)
LEMMA SetToSeqIs ==
  ASSUME NEW S, NEW T, IsFiniteSet(S), S \subseteq T
  PROVE  SetToSeq(S) \in Seq(T)
<1>1. Cardinality(S) \in Nat /\ ExistsBijection(1 .. Cardinality(S), S) BY FS_CardinalityType
<1>2. PICK f \in [1 .. Cardinality(S) -> S] : IsInjective(f)
  <2>1. PICK f : f \in Bijection(1 .. Cardinality(S), S) BY <1>1 DEF ExistsBijection
  <2> DEFINE D == 1 .. Cardinality(S)
  <2>2. f \in [D -> S] /\ \A a, b \in D : f[a] = f[b] => a = b
    BY <2>1, Fun_BijectionProperties
  <2> HIDE DEF D
  <2> QED BY <2>2 DEF IsInjective, D
<1>3. SetToSeq(S) \in [1 .. Cardinality(S) -> S] BY <1>2, Zenon DEF SetToSeq
<1>4. SetToSeq(S) \in [1 .. Cardinality(S) -> T] BY <1>3
<1> QED BY <1>1, <1>4

-------------------------------------------------------------------------------
(* What a mutation does *)

(* It changes the configuration to another one, and then it runs the full    *)
(* pass...                                                                   *)
FullPass == \E reset \in SUBSET (Pools \cup Names), block \in {hosts, {}} : Reconcile(config', reset, block)

(* ... or leaves everything to a later pass ...                              *)
AllLeft == unvisited' = unvisited \cup Everything /\ UNCHANGED backends

(* ... or it is about one name, of which it has changed the link, ...        *)
Relinked(n) == \E link \in Link \cup {None} : config' = SetLink(n, link)
SitePass(n) == Relinked(n) /\ ReconcileSite(config', n)
SiteLeft(n) == Relinked(n) /\ unvisited' = unvisited \cup {n} /\ UNCHANGED backends

(* ... or a proxy is gone. *)
ProxyGone ==
  /\ \E n \in Names : config' = [config EXCEPT !.proxies = @ \ {n}]
  /\ UNCHANGED <<unvisited, backends>>

Mutated ==
  /\ config' \in Config /\ disk' \in Config /\ dirs' = dirs
  /\ FullPass \/ AllLeft \/ (\E n \in Names : SitePass(n) \/ SiteLeft(n)) \/ ProxyGone

Kept == config \in Config /\ disk \in Config /\ pools \subseteq Pools /\ servers \subseteq Names

LEMMA AllMutated ==
  ASSUME Kept, NEW kind, NEW c \in Config, ChangeAll(kind, c)
  PROVE  Mutated
<1>1. config' = c /\ dirs' = dirs BY DEF ChangeAll, Change
<1>2. CASE SaveFails(Everything) BY <1>1, <1>2 DEF SaveFails, Kept, Mutated, AllLeft
<1>3. CASE disk' = c /\ Reconcile(c, {}, hosts)
  <2>1. {} \in SUBSET (Pools \cup Names) OBVIOUS
  <2>2. Reconcile(config', {}, hosts) BY <1>1, <1>3
  <2>3. FullPass BY <2>1, <2>2 DEF FullPass
  <2> QED BY <1>1, <1>3, <2>3 DEF Mutated
<1> QED BY <1>2, <1>3 DEF ChangeAll

LEMMA SiteMutated ==
  ASSUME Kept, NEW kind, NEW n \in Names, NEW link \in Link \cup {None},
         ChangeSite(kind, n, SetLink(n, link))
  PROVE  Mutated
<1>1. config' = SetLink(n, link) /\ dirs' = dirs BY DEF ChangeSite, Change
<1>2. SetLink(n, link) \in Config BY DEF Kept, Config, SetLink
<1>3. Relinked(n) BY <1>1 DEF Relinked
<1>4. CASE SaveFails({n}) BY <1>1, <1>2, <1>3, <1>4 DEF SaveFails, Kept, Mutated, SiteLeft
<1>5. CASE disk' = SetLink(n, link) /\ ReconcileSite(SetLink(n, link), n)
  <2>1. ReconcileSite(config', n) BY <1>1, <1>5
  <2> QED BY <1>1, <1>2, <1>3, <1>5, <2>1 DEF Mutated, SitePass
<1> QED BY <1>4, <1>5 DEF ChangeSite

LEMMA Mutates ==
  ASSUME Kept, Mutate
  PROVE  Mutated
<1> DEFINE ts == ConfiguredTlds(config)
<1>0. /\ config.parked \in Seq(Roots) /\ config.links \in [Names -> Link \cup {None}]
      /\ config.tlds \in Seq(Tlds) /\ config.proxies \subseteq Names
      /\ config.pool \in Pools /\ config.hosts \in BOOLEAN
      /\ config \in Config /\ disk \in Config
  BY DEF Kept, Config
<1>1. ts \in Seq(Tlds)
  <2>1. <<DefaultTld>> \in Seq(Tlds) BY SitesAssumption
  <2> QED BY <1>0, <2>1 DEF ConfiguredTlds
<1>2. ASSUME NEW parked \in Seq(Roots) PROVE [config EXCEPT !.parked = parked] \in Config
  BY <1>0 DEF Config
<1>3. ASSUME NEW tlds2 \in Seq(Tlds) PROVE [config EXCEPT !.tlds = tlds2] \in Config
  BY <1>0 DEF Config
<1>4. ASSUME NEW n \in Names, Linked(n)
      PROVE  config.links[n] \in Link
  BY <1>0, <1>4 DEF Linked
<1> HIDE DEF ts
<1>p. ASSUME NEW root \in Roots, Park(root) \/ Unpark(root) PROVE Mutated
  <2>1. CASE Park(root)
    <3>1. Append(config.parked, root) \in Seq(Roots) BY <1>0
    <3>2. [config EXCEPT !.parked = Append(config.parked, root)] \in Config BY <1>2, <3>1
    <3> QED BY <2>1, <3>2, AllMutated DEF Park
  <2>2. CASE Unpark(root)
    <3>1. Without(config.parked, {root}) \in Seq(Roots) BY <1>0, WithoutIs
    <3>2. [config EXCEPT !.parked = Without(config.parked, {root})] \in Config BY <1>2, <3>1
    <3> QED BY <2>2, <3>2, AllMutated DEF Unpark
  <2> QED BY <1>p, <2>1, <2>2
<1>u. ASSUME NEW n \in Names, Unlink(n) \/ ProxySet(n) \/ ProxyRemove(n) PROVE Mutated
  <2>1. CASE Unlink(n) BY <2>1, SiteMutated DEF Unlink
  <2>2. CASE ProxySet(n)
    <3>1. [config EXCEPT !.proxies = config.proxies \cup {n}] \in Config BY <1>0 DEF Config
    <3> QED BY <2>2, <3>1, AllMutated DEF ProxySet
  <2>3. CASE ProxyRemove(n)
    <3>1. [config EXCEPT !.proxies = config.proxies \ {n}] \in Config BY <1>0 DEF Config
    <3>2. /\ config' = [config EXCEPT !.proxies = config.proxies \ {n}] /\ dirs' = dirs
          /\ disk' = disk \/ disk' = config'
          /\ UNCHANGED <<unvisited, backends>>
      BY <2>3 DEF ProxyRemove, Change
    <3>3. ProxyGone BY <3>2 DEF ProxyGone
    <3> QED BY <1>0, <3>1, <3>2, <3>3 DEF Mutated
  <2> QED BY <1>u, <2>1, <2>2, <2>3
<1>l. ASSUME NEW n \in Names, NEW root \in Roots, LinkSite(n, <<root, n>>) \/ Relink(n, <<root, n>>) PROVE Mutated
  <2>0. PICK path \in Paths : path = Spelled(<<root, n>>) BY PathTyped
  <2>1. CASE LinkSite(n, <<root, n>>)
    <3>1. LinkOf(path, None, FALSE, FALSE) \in Link BY DEF LinkOf, Link
    <3> QED BY <2>0, <2>1, <3>1, SiteMutated DEF LinkSite
  <2>2. CASE Relink(n, <<root, n>>)
    <3>1. Linked(n) BY <2>2 DEF Relink
    <3>2. [config.links[n] EXCEPT !.path = path] \in Link BY <1>4, <3>1 DEF Link
    <3> QED BY <2>0, <2>2, <3>2, SiteMutated DEF Relink
  <2> QED BY <1>l, <2>1, <2>2
<1>a. ASSUME NEW n \in Names, NEW root \in Roots, NEW spec \in Specs, ApplySpec(n, <<root, n>>, spec) PROVE Mutated
  <2>0. PICK path \in Paths : path = Spelled(<<root, n>>) BY PathTyped
  <2>1. spec \in [pool: Pools \cup {None}, secure: BOOLEAN, octane: BOOLEAN] BY SitesAssumption
  <2>2. LinkOf(path, spec.pool, spec.secure, spec.octane) \in Link BY <2>1 DEF LinkOf, Link
  <2> QED BY <1>a, <2>0, <2>2, SiteMutated DEF ApplySpec
<1>r. ASSUME NEW old \in {{}, Roots}, NEW names \in {{}, Names}, RemoveSites(old, names) PROVE Mutated
  <2> DEFINE parked == Without(config.parked, old)
             links == [n \in Names |-> IF n \in names THEN None ELSE config.links[n]]
  <2>1. parked \in Seq(Roots) BY <1>0, WithoutIs
  <2>2. links \in [Names -> Link \cup {None}] BY <1>0
  <2>3. ChangeAll("import", [config EXCEPT !.parked = parked, !.links = links])
    BY <1>r, Zenon DEF RemoveSites
  <2> HIDE DEF parked, links
  <2>4. [config EXCEPT !.parked = parked, !.links = links] \in Config BY <1>0, <2>1, <2>2 DEF Config
  <2> QED BY <2>3, <2>4, AllMutated
<1>i. ASSUME NEW new \in {{}, Roots}, NEW names \in {{}, Names}, NEW root \in Roots, ImportSites(new, names, root)
      PROVE  Mutated
  <2> DEFINE fresh == new \ ToSet(config.parked)
             parked == config.parked \o SetToSeq(fresh)
             links == [n \in Names |-> IF n \in names /\ <<root, n>> \in dirs
                                       THEN LinkOf(Spelled(<<root, n>>), None, FALSE, FALSE) ELSE config.links[n]]
  <2>1. ChangeAll("import", [config EXCEPT !.parked = parked, !.links = links])
    BY <1>i, Zenon DEF ImportSites
  <2>2. fresh \subseteq Roots /\ IsFiniteSet(fresh) BY SitesAssumption, FS_Subset
  <2>3. SetToSeq(fresh) \in Seq(Roots) BY <2>2, SetToSeqIs
  <2> HIDE DEF fresh
  <2>4. parked \in Seq(Roots) BY <1>0, <2>3
  <2>5. \A n \in Names : LinkOf(Spelled(<<root, n>>), None, FALSE, FALSE) \in Link
    BY ParkedTyped DEF ParkedAt
  <2>6. links \in [Names -> Link \cup {None}] BY <1>0, <2>5
  <2> HIDE DEF parked, links
  <2>7. [config EXCEPT !.parked = parked, !.links = links] \in Config BY <1>0, <2>4, <2>6 DEF Config
  <2> QED BY <2>1, <2>7, AllMutated
<1>s. ASSUME NEW n \in Names, NEW pool \in Pools \cup {None}, SetPool(n, pool) PROVE Mutated
  <2>1. Linked(n) BY <1>s DEF SetPool
  <2>2. [config.links[n] EXCEPT !.pool = pool] \in Link BY <1>4, <2>1 DEF Link
  <2> QED BY <1>s, <2>2, SiteMutated DEF SetPool
<1>d. ASSUME NEW pool \in Pools, SetDefaultPool(pool) PROVE Mutated
  <2>1. [config EXCEPT !.pool = pool] \in Config BY <1>0 DEF Config
  <2> QED BY <1>d, <2>1, AllMutated DEF SetDefaultPool
<1>c. ASSUME NEW n \in Names, NEW on \in BOOLEAN, SetSecure(n, on) \/ SetRuntime(n, on) PROVE Mutated
  <2>1. Linked(n) BY <1>c DEF SetSecure, SetRuntime
  <2>2. [config.links[n] EXCEPT !.secure = on] \in Link /\ [config.links[n] EXCEPT !.octane = on] \in Link
    BY <1>4, <2>1 DEF Link
  <2>3. CASE SetSecure(n, on) BY <2>2, <2>3, SiteMutated DEF SetSecure
  <2>4. CASE SetRuntime(n, on) BY <2>2, <2>4, SiteMutated DEF SetRuntime
  <2> QED BY <1>c, <2>3, <2>4
<1>t. ASSUME NEW tld \in Tlds, TldAdd(tld) \/ TldPrimary(tld) \/ TldRemove(tld) PROVE Mutated
  <2>1. Append(ts, tld) \in Seq(Tlds) BY <1>1
  <2>2. Without(ts, {tld}) \in Seq(Tlds) BY <1>1, WithoutIs
  <2>3. <<tld>> \o Without(ts, {tld}) \in Seq(Tlds) BY <2>2
  <2>4. CASE TldAdd(tld) BY <1>3, <2>1, <2>4, AllMutated DEF TldAdd, ts
  <2>5. CASE TldPrimary(tld) BY <1>3, <2>3, <2>5, AllMutated DEF TldPrimary, ts
  <2>6. CASE TldRemove(tld) BY <1>3, <2>2, <2>6, AllMutated DEF TldRemove, ts
  <2> QED BY <1>t, <2>4, <2>5, <2>6
<1>h. ASSUME NEW on \in BOOLEAN, SetResolution(on) PROVE Mutated
  <2> DEFINE c == [config EXCEPT !.hosts = on]
  <2>1. c \in Config BY <1>0 DEF Config
  <2>2. /\ config' = c /\ dirs' = dirs
        /\ \/ SaveFails(Everything)
           \/ disk' = c /\ \E block \in {hosts, {}} : Reconcile(c, {}, block)
    BY <1>h DEF SetResolution, Change
  <2> HIDE DEF c
  <2>3. CASE SaveFails(Everything) BY <1>0, <2>1, <2>2, <2>3 DEF SaveFails, Mutated, AllLeft
  <2>4. CASE disk' = c /\ \E block \in {hosts, {}} : Reconcile(c, {}, block)
    <3>1. {} \in SUBSET (Pools \cup Names) OBVIOUS
    <3>2. FullPass BY <2>2, <2>4, <3>1 DEF FullPass
    <3> QED BY <2>1, <2>2, <2>4, <3>2 DEF Mutated
  <2> QED BY <2>2, <2>3, <2>4
<1>b. ASSUME Reload \/ RepairBackends \/ RestartFpm PROVE Mutated
  <2>1. /\ config' \in Config /\ disk' \in Config /\ dirs' = dirs
        /\ Reconcile(config', pools, hosts) \/ Reconcile(config', pools \cup servers, hosts)
    BY <1>0, <1>b DEF Reload, RepairBackends, RestartFpm, Change
  <2>2. pools \in SUBSET (Pools \cup Names) /\ pools \cup servers \in SUBSET (Pools \cup Names) BY DEF Kept
  <2>3. FullPass BY <2>1, <2>2 DEF FullPass
  <2> QED BY <2>1, <2>3 DEF Mutated
<1> QED BY <1>p, <1>u, <1>l, <1>a, <1>r, <1>i, <1>s, <1>d, <1>c, <1>t, <1>h, <1>b DEF Mutate

-------------------------------------------------------------------------------
(* Type correctness *)

LEMMA ConfiguredIs ==
  ASSUME NEW c \in Config
  PROVE  ConfiguredTlds(c) \in Seq(Tlds) /\ ConfiguredTlds(c) # <<>>
<1>1. <<DefaultTld>> \in Seq(Tlds) /\ <<DefaultTld>> # <<>> BY SitesAssumption
<1> QED BY <1>1 DEF ConfiguredTlds, Config

LEMMA PoolsTyped ==
  ASSUME NEW rs \in [Names -> Route \cup {None}]
  PROVE  PoolsOf(rs) \subseteq Pools /\ Upstreams(rs) \subseteq Names
BY DEF PoolsOf, Upstreams, Route

LEMMA ListTyped ==
  ASSUME NEW list \in Seq(Tlds)
  PROVE  ToSet(list) \subseteq Tlds
BY DEF ToSet

LEMMA SyncTyped ==
  ASSUME NEW c \in Config, NEW ts \in Seq(Tlds), hosts \subseteq Names \X Tlds
  PROVE  SyncHosts(c, ts) \subseteq Names \X Tlds
<1>1. resolve(c) = Serves(c, DOMAIN c.parked) BY ResolveServes DEF Config
<1>2. DOMAIN resolve(c) \subseteq Names BY <1>1 DEF Serves, LinkedIn
<1>3. ToSet(ts) \subseteq Tlds /\ c.proxies \subseteq Names BY ListTyped DEF Config
<1>4. HostsOf(c, ts) \subseteq Names \X Tlds BY <1>2, <1>3 DEF HostsOf
<1> QED BY <1>4 DEF SyncHosts

LEMMA InitTyped == Init => TypeOK
<1> SUFFICES ASSUME Init PROVE TypeOK OBVIOUS
<1>1. PICK rs \in {{}, Roots} : config = [Fresh EXCEPT !.parked = SetToSeq(rs)] BY DEF Init
<1>2. SetToSeq(rs) \in Seq(Roots)
  <2>1. IsFiniteSet(rs) /\ rs \subseteq Roots BY <1>1, SitesAssumption, FS_EmptySet
  <2> QED BY <2>1, SetToSeqIs
<1>3. Fresh \in Config
  <2>1. <<>> \in Seq(Tlds) /\ <<>> \in Seq(Roots) OBVIOUS
  <2> QED BY <2>1, SitesAssumption DEF Fresh, Config
<1>4. config \in Config
  <2> DEFINE parked == SetToSeq(rs)
  <2> HIDE DEF parked
  <2>1. parked \in Seq(Roots) /\ config = [Fresh EXCEPT !.parked = parked] BY <1>1, <1>2 DEF parked
  <2> QED BY <1>3, <2>1 DEF Config
<1>5. routes \in [Names -> Route \cup {None}] BY <1>4, RoutesAre DEF Init
<1>6. tlds \in Seq(Tlds) /\ tlds # <<>> BY <1>4, ConfiguredIs DEF Init
<1>7. pools \subseteq Pools BY <1>5, PoolsTyped DEF Init
<1> QED BY <1>4, <1>5, <1>6, <1>7 DEF Init, TypeOK

(* The passes keep what they build within its kind. *)
LEMMA FullPassTyped ==
  ASSUME TypeOK, config' \in Config, FullPass
  PROVE  /\ routes' \in [Names -> Route \cup {None}]
         /\ tlds' \in Seq(Tlds) /\ tlds' # <<>>
         /\ pools' \subseteq Pools /\ servers' \subseteq Names
         /\ hosts' \subseteq Names \X Tlds
         /\ unvisited' \subseteq Everything
<1> PICK reset \in SUBSET (Pools \cup Names), block \in {hosts, {}} : Reconcile(config', reset, block)
  BY DEF FullPass
<1>1. PICK refused : /\ tlds' = ConfiguredTlds(config')
                     /\ routes' = RoutesOf(config', refused)
                     /\ pools' = PoolsOf(routes') \ refused
                     /\ servers' = Upstreams(routes')
                     /\ hosts' = IF config'.hosts THEN SyncHosts(config', tlds') ELSE block
                     /\ unvisited' = {}
  BY DEF Reconcile
<1>2. PICK c \in Config : c = config' OBVIOUS
<1>3. routes' \in [Names -> Route \cup {None}] BY <1>1, <1>2, RoutesAre
<1>4. tlds' \in Seq(Tlds) /\ tlds' # <<>> BY <1>1, <1>2, ConfiguredIs
<1>5. pools' \subseteq Pools /\ servers' \subseteq Names BY <1>1, <1>3, PoolsTyped
<1>6. hosts \subseteq Names \X Tlds /\ block \subseteq Names \X Tlds BY DEF TypeOK
<1>7. SyncHosts(c, tlds') \subseteq Names \X Tlds BY <1>4, <1>6, SyncTyped
<1>8. hosts' \subseteq Names \X Tlds BY <1>1, <1>2, <1>6, <1>7
<1> QED BY <1>1, <1>3, <1>4, <1>5, <1>8

LEMMA SitePassTyped ==
  ASSUME TypeOK, config' \in Config, NEW n \in Names, ReconcileSite(config', n)
  PROVE  /\ routes' \in [Names -> Route \cup {None}]
         /\ pools' \subseteq Pools /\ servers' \subseteq Names
         /\ hosts' \subseteq Names \X Tlds
         /\ unvisited' \subseteq Everything /\ tlds' = tlds
<1>1. PICK c \in Config : c = config' OBVIOUS
<1>2. ReconcileSite(c, n) BY <1>1
<1> DEFINE site == resolve_one(c, n)
           new(refused) == [routes EXCEPT ![n] = IF site = None THEN None
                                                 ELSE RouteTo(c, n, site, refused)]
<1>3. PICK refused : /\ routes' = new(refused)
                     /\ pools' \subseteq Needed(routes', n)
                     /\ servers' = Upstreams(routes')
                     /\ hosts' = IF c.hosts THEN SyncHosts(c, tlds) ELSE hosts
                     /\ unvisited' = unvisited \ {n} /\ tlds' = tlds
  BY <1>2 DEF ReconcileSite
<1>4. site \in Link \cup {None} BY OneTyped
<1> HIDE DEF site
<1>5. routes' \in [Names -> Route \cup {None}] BY <1>3, <1>4, RouteTyped DEF TypeOK
<1>6. pools' \subseteq Pools /\ servers' \subseteq Names BY <1>3, <1>5, PoolsTyped DEF Needed
<1>7. SyncHosts(c, tlds) \subseteq Names \X Tlds BY SyncTyped DEF TypeOK
<1> QED BY <1>3, <1>5, <1>6, <1>7 DEF TypeOK

LEMMA NextTyped == TypeOK /\ [Next]_vars => TypeOK'
<1> SUFFICES ASSUME TypeOK, [Next]_vars PROVE TypeOK' OBVIOUS
<1>k. Kept BY DEF TypeOK, Kept
<1>1. ASSUME Mutate PROVE TypeOK'
  <2>1. Mutated BY <1>k, <1>1, Mutates
  <2>2. config' \in Config /\ disk' \in Config /\ dirs' \subseteq Dirs BY <2>1 DEF Mutated, TypeOK
  <2>3. CASE FullPass BY <2>2, <2>3, FullPassTyped DEF TypeOK
  <2>4. CASE AllLeft BY <2>2, <2>4 DEF AllLeft, TypeOK, backends, Everything
  <2>5. ASSUME NEW n \in Names, SitePass(n) \/ SiteLeft(n) PROVE TypeOK'
    <3>1. CASE SitePass(n)
      <4>1. ReconcileSite(config', n) BY <3>1 DEF SitePass
      <4> QED BY <2>2, <4>1, SitePassTyped DEF TypeOK
    <3>2. CASE SiteLeft(n) BY <2>2, <3>2 DEF SiteLeft, TypeOK, backends, Everything
    <3> QED BY <2>5, <3>1, <3>2
  <2>6. CASE ProxyGone BY <2>2, <2>6 DEF ProxyGone, TypeOK, backends
  <2> QED BY <2>1, <2>3, <2>4, <2>5, <2>6 DEF Mutated
<1>2. ASSUME NEW k \in Clients, NEW n \in Names, NEW tld \in Tlds, NEW https \in BOOLEAN, Arrive(k, n, tld, https)
      PROVE  TypeOK'
  BY <1>2 DEF Arrive, TypeOK
<1>3. ASSUME NEW k \in Clients, Answer(k) PROVE TypeOK' BY <1>3 DEF Answer, TypeOK
<1>4. ASSUME NEW dir \in Dirs, ChangeDir(dir) PROVE TypeOK'
  <2>1. dir[2] \in Names BY DEF Dirs
  <2>2. dirs' \subseteq Dirs /\ unvisited' = unvisited \cup {dir[2]} /\ UNCHANGED <<config, disk, backends>>
    BY <1>4 DEF ChangeDir, TypeOK
  <2> QED BY <2>1, <2>2 DEF TypeOK, backends, Everything
<1>5. ASSUME RestartDaemon PROVE TypeOK'
  <2>1. PICK fails : routes' = RoutesOf(disk, fails) /\ pools' = PoolsOf(routes') \ fails
    BY <1>5 DEF RestartDaemon
  <2>2. disk \in Config /\ hosts \subseteq Names \X Tlds BY DEF TypeOK
  <2>3. routes' \in [Names -> Route \cup {None}] BY <2>1, <2>2, RoutesAre
  <2>4. pools' \subseteq Pools /\ servers' \subseteq Names BY <1>5, <2>1, <2>3, PoolsTyped DEF RestartDaemon
  <2>5. tlds' \in Seq(Tlds) /\ tlds' # <<>> BY <1>5, <2>2, ConfiguredIs DEF RestartDaemon
  <2>6. SyncHosts(disk, tlds') \subseteq Names \X Tlds BY <2>2, <2>5, SyncTyped
  <2>7. hosts' \subseteq Names \X Tlds BY <1>5, <2>2, <2>6 DEF RestartDaemon
  <2> QED BY <1>5, <2>3, <2>4, <2>5, <2>7 DEF RestartDaemon, TypeOK
<1>6. CASE UNCHANGED vars BY <1>6 DEF vars, TypeOK
<1> QED BY <1>1, <1>2, <1>3, <1>4, <1>5, <1>6 DEF Next

(* Type correctness: configurations, routes, tops of domains and entries of  *)
(* the hosts file are what they are said to be, after every mutation.        *)
THEOREM Typing == Spec => []TypeOK
BY InitTyped, NextTyped, PTL DEF Spec

-------------------------------------------------------------------------------
(* What runs is routed to *)

LEMMA NextRouted == BackendsRouted /\ TypeOK /\ [Next]_vars => BackendsRouted'
<1> SUFFICES ASSUME BackendsRouted, TypeOK, [Next]_vars PROVE BackendsRouted' OBVIOUS
<1> DEFINE Led == pools' \subseteq PoolsOf(routes') /\ servers' = Upstreams(routes')
<1>l. ASSUME Led PROVE BackendsRouted' BY <1>l DEF BackendsRouted, Upstreams, PoolsOf
<1>u. ASSUME UNCHANGED <<routes, pools, servers>> PROVE BackendsRouted'
  BY <1>u DEF BackendsRouted, PoolsOf
<1>1. ASSUME Mutate PROVE BackendsRouted'
  <2>1. Mutated BY <1>1, Mutates DEF Kept, TypeOK
  <2>2. CASE FullPass
    <3>1. PICK c, reset, block : Reconcile(c, reset, block) BY <2>2 DEF FullPass
    <3>2. Led BY <3>1 DEF Reconcile
    <3> QED BY <1>l, <3>2
  <2>3. CASE AllLeft BY <1>u, <2>3 DEF AllLeft, backends
  <2>4. ASSUME NEW n \in Names, SitePass(n) \/ SiteLeft(n) PROVE BackendsRouted'
    <3>1. CASE SitePass(n)
      <4>1. PICK c : ReconcileSite(c, n) BY <3>1 DEF SitePass
      <4>2. Led BY <4>1 DEF ReconcileSite, Needed
      <4> QED BY <1>l, <4>2
    <3>2. CASE SiteLeft(n) BY <1>u, <3>2 DEF SiteLeft, backends
    <3> QED BY <2>4, <3>1, <3>2
  <2>5. CASE ProxyGone BY <1>u, <2>5 DEF ProxyGone, backends
  <2> QED BY <2>1, <2>2, <2>3, <2>4, <2>5 DEF Mutated
<1>2. ASSUME NEW k \in Clients, NEW n \in Names, NEW tld \in Tlds, NEW https \in BOOLEAN, Arrive(k, n, tld, https)
      PROVE  BackendsRouted'
  BY <1>u, <1>2 DEF Arrive
<1>3. ASSUME NEW k \in Clients, Answer(k) PROVE BackendsRouted' BY <1>u, <1>3 DEF Answer
<1>4. ASSUME NEW dir \in Dirs, ChangeDir(dir) PROVE BackendsRouted' BY <1>u, <1>4 DEF ChangeDir, backends
<1>5. ASSUME RestartDaemon PROVE BackendsRouted'
  <2>1. Led BY <1>5 DEF RestartDaemon
  <2> QED BY <1>l, <2>1
<1>6. CASE UNCHANGED vars BY <1>u, <1>6 DEF vars
<1> QED BY <1>1, <1>2, <1>3, <1>4, <1>5, <1>6 DEF Next

(* No pool and no Octane server runs that no route leads to, whatever fails  *)
(* to start, to be saved, or is done again by another daemon: the invariant  *)
(* needs nothing but itself, because every pass ends with the two retains.   *)
THEOREM NoneUnrouted == Spec => []BackendsRouted
<1>1. Init => BackendsRouted BY DEF Init, BackendsRouted
<1>2. Spec => []TypeOK BY Typing
<1> QED BY <1>1, <1>2, NextRouted, PTL DEF Spec

-------------------------------------------------------------------------------
(* Requests in flight *)

(* A request that is to be served by a site, unless its site was given       *)
(* another route, has the route that the table has now, and its backend.     *)
Untouched(r) == ~r.cut /\ routes[r.name] = r.route

Following ==
  /\ DOMAIN inflight = Clients
  /\ \A k \in Clients : LET r == inflight[k] IN
       /\ r # None /\ r.kind # "site" => r.kind \in {"index", "proxy"}
       /\ r # None /\ r.kind = "site" =>
            /\ r \in [kind: {"site"}, name: Names, https: BOOLEAN, route: Route, cut: BOOLEAN, moved: BOOLEAN]
            /\ ~r.moved => Untouched(r)

(* What a pass may stop: nothing that a route as it was leads to.            *)
Sparing(stopped, new, reset) ==
  \A n \in Names : new[n] # None /\ new[n] = routes[n] =>
    LET backend == IF new[n].upstream THEN n ELSE new[n].pool
    IN  backend \in stopped => backend \in reset

LEMMA StoppedSpares ==
  ASSUME TypeOK, NEW new \in [Names -> Route \cup {None}], NEW stopped, NEW reset,
         stopped \subseteq Stopped(new) \cup reset \cup (Pools \ PoolsOf(new))
  PROVE  Sparing(stopped, new, reset)
<1> SUFFICES ASSUME NEW n \in Names, new[n] # None, new[n] = routes[n],
                    NEW backend, backend = IF new[n].upstream THEN n ELSE new[n].pool,
                    backend \in stopped, backend \notin reset
             PROVE  FALSE
  BY DEF Sparing
<1>1. new[n] \in Route OBVIOUS
<1>2. new[n].pool \in Pools /\ new[n].pool \in PoolsOf(new) BY <1>1 DEF Route, PoolsOf
<1>3. pools \subseteq Pools /\ servers \subseteq Names BY DEF TypeOK
<1>4. CASE new[n].upstream
  <2>1. backend = n /\ n \notin Pools BY <1>4, SitesAssumption
  <2>2. n \in Upstreams(new) BY <1>4 DEF Upstreams
  <2> QED BY <1>3, <2>1, <2>2 DEF Stopped
<1>5. CASE ~new[n].upstream
  <2>1. backend = new[n].pool /\ backend \notin Names BY <1>2, <1>5, SitesAssumption
  <2> QED BY <1>2, <1>3, <2>1 DEF Stopped
<1> QED BY <1>4, <1>5

LEMMA DisturbFollows ==
  ASSUME Following, NEW stopped, NEW new, NEW reset,
         Disturb(stopped, new, reset), Sparing(stopped, new, reset), routes' = new
  PROVE  Following'
<1>a. DOMAIN inflight' = Clients BY DEF Disturb
<1>b. ASSUME NEW k \in Clients, inflight'[k] # None, inflight'[k].kind # "site"
      PROVE  inflight'[k].kind \in {"index", "proxy"}
  <2>1. PICK r : r = inflight[k] OBVIOUS
  <2>2. CASE r = None \/ r.kind # "site"
    <3>1. inflight'[k] = r BY <2>1, <2>2, Zenon DEF Disturb
    <3> QED BY <1>b, <2>1, <3>1 DEF Following
  <2>3. CASE ~(r = None \/ r.kind # "site")
    <3> DEFINE backend == IF r.route.upstream THEN r.name ELSE r.route.pool
    <3>1. PICK cut, moved : inflight'[k] = [r EXCEPT !.cut = cut, !.moved = moved]
      <4>1. inflight'[k] = [r EXCEPT !.cut = r.cut \/ backend \in stopped,
                                     !.moved = r.moved \/ backend \in reset \/ new[r.name] # r.route]
        BY <2>1, <2>3, Zenon DEF Disturb
      <4> QED BY <4>1, Zenon
    <3>2. r \in [kind: {"site"}, name: Names, https: BOOLEAN, route: Route, cut: BOOLEAN, moved: BOOLEAN]
      BY <2>1, <2>3 DEF Following
    <3>3. inflight'[k].kind = "site" BY ONLY <3>1, <3>2
    <3> QED BY <1>b, <3>3
  <2> QED BY <2>2, <2>3
<1> SUFFICES ASSUME NEW k \in Clients, inflight'[k] # None, inflight'[k].kind = "site"
             PROVE  /\ inflight'[k] \in [kind: {"site"}, name: Names, https: BOOLEAN, route: Route,
                                         cut: BOOLEAN, moved: BOOLEAN]
                    /\ ~inflight'[k].moved => Untouched(inflight[k])'
  BY <1>a, <1>b DEF Following
<1> DEFINE backend(r) == IF r.route.upstream THEN r.name ELSE r.route.pool
<1>1. PICK r : r = inflight[k] OBVIOUS
<1>2. PICK q : q = inflight'[k] OBVIOUS
<1>3. q = IF r = None \/ r.kind # "site" THEN r
          ELSE [r EXCEPT !.cut = r.cut \/ backend(r) \in stopped,
                         !.moved = r.moved \/ backend(r) \in reset \/ new[r.name] # r.route]
  BY <1>1, <1>2, Zenon DEF Disturb
<1>4. r # None /\ r.kind = "site" BY <1>2, <1>3
<1>5. r \in [kind: {"site"}, name: Names, https: BOOLEAN, route: Route, cut: BOOLEAN, moved: BOOLEAN]
  BY <1>1, <1>4 DEF Following
<1>6. PICK cut \in BOOLEAN : cut = (r.cut \/ backend(r) \in stopped) BY Zenon
<1>7. PICK moved \in BOOLEAN : moved = (r.moved \/ backend(r) \in reset \/ new[r.name] # r.route) BY Zenon
<1>8. q = [r EXCEPT !.cut = cut, !.moved = moved] BY <1>3, <1>4, <1>6, <1>7, Zenon
<1>9. q \in [kind: {"site"}, name: Names, https: BOOLEAN, route: Route, cut: BOOLEAN, moved: BOOLEAN]
  BY ONLY <1>5, <1>6, <1>7, <1>8
<1>10. q.moved = moved /\ q.cut = cut /\ q.name = r.name /\ q.route = r.route BY ONLY <1>5, <1>8
<1>11. ASSUME ~moved PROVE ~cut /\ new[r.name] = r.route
  <2>1. ~r.moved /\ backend(r) \notin reset /\ new[r.name] = r.route BY <1>7, <1>11
  <2>2. ~r.cut /\ routes[r.name] = r.route BY <1>1, <1>4, <2>1 DEF Following, Untouched
  <2>3. r.name \in Names /\ r.route \in Route BY <1>5
  <2>4. r.route # None BY <2>3, SitesAssumption
  <2>5. backend(r) \notin stopped BY <2>1, <2>2, <2>3, <2>4 DEF Sparing
  <2> QED BY <1>6, <2>1, <2>2, <2>5
<1>12. ~q.moved => Untouched(inflight[k])' BY <1>2, <1>10, <1>11 DEF Untouched
<1> QED BY <1>2, <1>9, <1>12

LEMMA NextFollows == Following /\ TypeOK /\ [Next]_vars => Following'
<1> SUFFICES ASSUME Following, TypeOK, [Next]_vars PROVE Following' OBVIOUS
<1>t. TypeOK' BY NextTyped
<1>u. ASSUME UNCHANGED <<routes, inflight>> PROVE Following' BY <1>u DEF Following, Untouched
<1>1. ASSUME Mutate PROVE Following'
  <2>1. Mutated BY <1>1, Mutates DEF Kept, TypeOK
  <2>2. CASE FullPass
    <3>1. PICK c, reset, block : Reconcile(c, reset, block) BY <2>2 DEF FullPass
    <3>2. PICK new : new = routes' OBVIOUS
    <3>3. Disturb(Stopped(new) \cup reset, new, reset) BY <3>1, <3>2 DEF Reconcile
    <3>4. Sparing(Stopped(new) \cup reset, new, reset) BY <1>t, <3>2, StoppedSpares DEF TypeOK
    <3> QED BY <3>2, <3>3, <3>4, DisturbFollows
  <2>3. CASE AllLeft BY <1>u, <2>3 DEF AllLeft, backends
  <2>4. ASSUME NEW n \in Names, SitePass(n) \/ SiteLeft(n) PROVE Following'
    <3>1. CASE SitePass(n)
      <4>1. PICK c : ReconcileSite(c, n) BY <3>1 DEF SitePass
      <4>2. PICK new : new = routes' OBVIOUS
      <4>3. PICK lost : lost = pools \ pools' OBVIOUS
      <4>4. Disturb(lost \cup Stopped(new), new, {}) BY <4>1, <4>2, <4>3 DEF ReconcileSite
      <4>5. PICK started : pools' = (pools \cup started) \cap PoolsOf(new) BY <4>1, <4>2 DEF ReconcileSite, Needed
      <4>6. lost \subseteq Pools \ PoolsOf(new) BY <4>3, <4>5 DEF TypeOK
      <4>7. Sparing(lost \cup Stopped(new), new, {}) BY <1>t, <4>2, <4>6, StoppedSpares DEF TypeOK
      <4> QED BY <4>2, <4>4, <4>7, DisturbFollows
    <3>2. CASE SiteLeft(n) BY <1>u, <3>2 DEF SiteLeft, backends
    <3> QED BY <2>4, <3>1, <3>2
  <2>5. CASE ProxyGone BY <1>u, <2>5 DEF ProxyGone, backends
  <2> QED BY <2>1, <2>2, <2>3, <2>4, <2>5 DEF Mutated
<1>2. ASSUME NEW k \in Clients, NEW n \in Names, NEW tld \in Tlds, NEW https \in BOOLEAN, Arrive(k, n, tld, https)
      PROVE  Following'
  <2> DEFINE Comes(r) == inflight' = [inflight EXCEPT ![k] = r]
             site == [kind |-> "site", name |-> n, https |-> https, route |-> routes[n],
                      cut |-> FALSE, moved |-> FALSE]
             kind == IF ~site_for_host(n, tld) THEN "index"
                     ELSE IF n \in config.proxies THEN "proxy"
                     ELSE IF Servable(n) THEN "site" ELSE "index"
             Served == [kind: {"site"}, name: Names, https: BOOLEAN, route: Route, cut: BOOLEAN, moved: BOOLEAN]
  <2>1. routes' = routes /\ Comes(IF kind = "site" THEN site ELSE [kind |-> kind])
    <3>1. routes' = routes BY <1>2 DEF Arrive
    <3>2. inflight' = [inflight EXCEPT ![k] =
             IF kind = "site"
             THEN [kind |-> kind, name |-> n, https |-> https, route |-> routes[n],
                   cut |-> FALSE, moved |-> FALSE]
             ELSE [kind |-> kind]]
      BY <1>2, Zenon DEF Arrive
    <3> HIDE DEF kind
    <3>3. CASE kind = "site" BY <3>1, <3>2, <3>3, Zenon
    <3>4. CASE kind # "site" BY <3>1, <3>2, <3>4, Zenon
    <3> QED BY <3>3, <3>4
  <2>2. kind \in {"index", "proxy"} \/ (kind = "site" /\ Servable(n)) OBVIOUS
  <2> HIDE DEF kind, site
  <2>3. ASSUME NEW r, Comes(r),
               r.kind \in {"index", "proxy"} \/ (r \in Served /\ r.cut = FALSE /\ routes[r.name] = r.route)
        PROVE  Following'
    <3>1. DOMAIN inflight' = Clients BY <2>3 DEF Following
    <3>2. ASSUME NEW j \in Clients PROVE inflight'[j] = inflight[j] \/ inflight'[j] = r
      BY <2>3 DEF Following
    <3>3. r.kind # "site" => r.kind \in {"index", "proxy"} BY <2>3
    <3>4. r.kind = "site" => r \in Served /\ ~r.cut /\ routes[r.name] = r.route BY <2>3
    <3> HIDE DEF Comes
    <3> QED BY <2>1, <3>1, <3>2, <3>3, <3>4 DEF Following, Untouched
  <2>4. CASE kind \in {"index", "proxy"}
    <3>1. kind # "site" BY <2>4
    <3>2. Comes([kind |-> kind]) BY <2>1, <3>1
    <3>3. [kind |-> kind].kind = kind OBVIOUS
    <3> HIDE DEF Comes
    <3> QED BY <2>3, <2>4, <3>2, <3>3
  <2>5. CASE kind = "site" /\ Servable(n)
    <3>1. Comes(site) BY <2>1, <2>5
    <3>2. PICK route : route = routes[n] OBVIOUS
    <3>3. route \in Route BY <2>5, <3>2 DEF Servable, TypeOK
    <3>4. site = [kind |-> "site", name |-> n, https |-> https, route |-> route, cut |-> FALSE, moved |-> FALSE]
      BY <3>2 DEF site
    <3>5. site \in Served /\ site.cut = FALSE /\ site.name = n /\ site.route = route BY ONLY <3>3, <3>4
    <3> HIDE DEF Comes
    <3> QED BY <2>3, <3>1, <3>2, <3>5
  <2> QED BY <2>2, <2>4, <2>5
<1>3. ASSUME NEW k \in Clients, Answer(k) PROVE Following'
  <2>1. inflight' = [inflight EXCEPT ![k] = None] /\ routes' = routes BY <1>3 DEF Answer
  <2>2. DOMAIN inflight' = Clients BY <2>1 DEF Following
  <2>3. ASSUME NEW j \in Clients PROVE inflight'[j] = inflight[j] \/ inflight'[j] = None
    BY <2>1 DEF Following
  <2> QED BY <2>1, <2>2, <2>3 DEF Following, Untouched
<1>4. ASSUME NEW dir \in Dirs, ChangeDir(dir) PROVE Following' BY <1>u, <1>4 DEF ChangeDir, backends
<1>5. ASSUME RestartDaemon PROVE Following' BY <1>5 DEF RestartDaemon, Following
<1>6. CASE UNCHANGED vars BY <1>u, <1>6 DEF vars
<1> QED BY <1>1, <1>2, <1>3, <1>4, <1>5, <1>6 DEF Next

(* A request fails with 502 only when its own site was given another route   *)
(* while it was on its way, or everything was stopped on purpose.  What a    *)
(* pass over another site stops is never its backend: every route of the     *)
(* table keeps its pool, and a server is stopped only for a new directory.   *)
THEOREM FailuresExplained == Spec => []FailsOnlyIfMoved
<1>1. Init => Following BY DEF Init, Following
<1>2. Following => FailsOnlyIfMoved
  <2> SUFFICES ASSUME Following, NEW k \in Clients, inflight[k] # None,
                      Outcome(inflight[k]) = "bad gateway"
               PROVE  inflight[k].moved
    BY DEF FailsOnlyIfMoved
  <2>1. CASE inflight[k].kind = "site"
    <3>1. inflight[k].cut BY <2>1 DEF Outcome
    <3> QED BY <2>1, <3>1 DEF Following, Untouched
  <2>2. CASE inflight[k].kind # "site"
    <3>1. Outcome(inflight[k]) = inflight[k].kind BY <2>2 DEF Outcome
    <3>2. inflight[k].kind \in {"index", "proxy"} BY <2>2 DEF Following
    <3> QED BY <3>1, <3>2
  <2> QED BY <2>1, <2>2
<1>3. Spec => []TypeOK BY Typing
<1> QED BY <1>1, <1>2, <1>3, NextFollows, PTL DEF Spec

-------------------------------------------------------------------------------
(* The table is what the configuration says *)

(* What the table has for a name is the route to what serves it.             *)
Fits(route, site, n) ==
  IF site = None THEN route = None
  ELSE route # None /\ [route EXCEPT !.upstream = FALSE] = RouteTo(config, n, site, Names)

FitsMirrored(n) == Mirrored(config, n) => Fits(routes[n], Site(config, n), n)

RoutesFit == \A n \in Names : Visited(n) => FitsMirrored(n)

(* A pass over everything makes it so, ...                                   *)
LEMMA PassFits ==
  ASSUME NEW c \in Config, NEW refused, config' = c, dirs' = dirs,
         routes' = RoutesOf(c, refused)
  PROVE  RoutesFit'
<1> SUFFICES ASSUME NEW n \in Names PROVE Fits(routes[n], Site(config, n), n)' BY DEF RoutesFit, FitsMirrored
<1>1. PICK site : site = Site(c, n) OBVIOUS
<1>2. Site(config, n)' = site BY <1>1 DEF Site, FoundAt, Entries
<1>3. routes'[n] = IF site = None THEN None ELSE RouteTo(c, n, site, refused) BY <1>1, RoutesAre
<1>4. site \in Link \cup {None} BY <1>1, SiteTyped
<1>5. RouteTo(config, n, site, Names)' = RouteTo(c, n, site, Names) BY DEF RouteTo, PoolOf
<1> QED BY <1>2, <1>3, <1>4, <1>5, RouteTyped DEF Fits

(* ... a pass over one name makes it so for it ...                           *)
LEMMA OnePassFits ==
  ASSUME NEW c \in Config, NEW n \in Names, TypeOK, config' = c, dirs' = dirs,
         ReconcileSite(c, n)
  PROVE  FitsMirrored(n)'
<1> SUFFICES ASSUME Mirrored(c, n) PROVE Fits(routes[n], Site(config, n), n)' BY DEF FitsMirrored, Mirrored
<1>1. PICK site : site = Site(c, n) OBVIOUS
<1>2. Site(config, n)' = site BY <1>1 DEF Site, FoundAt, Entries
<1>3. resolve_one(c, n) = site BY <1>1, OneIs
<1>4. PICK refused : routes' = [routes EXCEPT ![n] = IF site = None THEN None ELSE RouteTo(c, n, site, refused)]
  BY <1>3 DEF ReconcileSite
<1>5. routes'[n] = IF site = None THEN None ELSE RouteTo(c, n, site, refused) BY <1>4 DEF TypeOK
<1>6. site \in Link \cup {None} BY <1>1, SiteTyped
<1>7. RouteTo(config, n, site, Names)' = RouteTo(c, n, site, Names) BY DEF RouteTo, PoolOf
<1> QED BY <1>2, <1>5, <1>6, <1>7, RouteTyped DEF Fits

(* ... and what serves a name is not changed by what is done to another.     *)
LEMMA OtherFits ==
  ASSUME NEW n \in Names, FitsMirrored(n), routes'[n] = routes[n],
         config'.links[n] = config.links[n], config'.parked = config.parked, config'.pool = config.pool,
         \A root : <<root, n>> \in dirs' <=> <<root, n>> \in dirs
  PROVE  FitsMirrored(n)'
<1>0. Mirrored(config, n)' => Mirrored(config, n) BY DEF Mirrored
<1>1. FoundAt(config, DOMAIN config.parked, n)' = FoundAt(config, DOMAIN config.parked, n)
  BY DEF FoundAt, Entries
<1>2. Site(config, n)' = Site(config, n) BY <1>1 DEF Site
<1>3. RouteTo(config, n, Site(config, n), Names)' = RouteTo(config, n, Site(config, n), Names)
  BY <1>2 DEF RouteTo, PoolOf
<1> QED BY <1>0, <1>2, <1>3 DEF Fits, FitsMirrored

LEMMA NextFits == RoutesFit /\ TypeOK /\ [Next]_vars => RoutesFit'
<1> SUFFICES ASSUME RoutesFit, TypeOK, [Next]_vars PROVE RoutesFit' OBVIOUS
<1>c. config \in Config /\ disk \in Config BY DEF TypeOK
<1>u. ASSUME UNCHANGED <<routes, dirs, unvisited>>, config' = config PROVE RoutesFit'
  <2>1. ASSUME NEW n \in Names, Visited(n)' PROVE FitsMirrored(n)'
    <3>1. FitsMirrored(n) BY <1>u, <2>1 DEF RoutesFit, Visited
    <3> QED BY <1>u, <3>1, OtherFits
  <2> QED BY <2>1 DEF RoutesFit
<1>1. ASSUME Mutate PROVE RoutesFit'
  <2>1. Mutated BY <1>1, Mutates DEF Kept, TypeOK
  <2>2. config' \in Config /\ dirs' = dirs BY <2>1 DEF Mutated
  <2>3. CASE FullPass
    <3>1. PICK reset, block : Reconcile(config', reset, block) BY <2>3 DEF FullPass
    <3>2. PICK refused : routes' = RoutesOf(config', refused) BY <3>1 DEF Reconcile
    <3> QED BY <2>2, <3>2, PassFits
  <2>4. CASE AllLeft BY <2>4 DEF AllLeft, RoutesFit, Visited, Everything
  <2>5. ASSUME NEW n \in Names, SitePass(n) \/ SiteLeft(n) PROVE RoutesFit'
    <3>1. PICK link \in Link \cup {None} : config' = SetLink(n, link) BY <2>5 DEF SitePass, SiteLeft, Relinked
    <3>2. /\ config'.parked = config.parked /\ config'.pool = config.pool
          /\ \A m \in Names : m # n => config'.links[m] = config.links[m]
      BY <1>c, <3>1 DEF SetLink, Config
    <3>3. \A m \in Names : m # n => routes'[m] = routes[m]
      <4>1. CASE SitePass(n)
        <5>1. PICK c : ReconcileSite(c, n) BY <4>1 DEF SitePass
        <5>2. PICK route : routes' = [routes EXCEPT ![n] = route] BY <5>1 DEF ReconcileSite
        <5> QED BY <5>2 DEF TypeOK
      <4>2. CASE SiteLeft(n) BY <4>2 DEF SiteLeft, backends
      <4> QED BY <2>5, <4>1, <4>2
    <3>4. \A m \in Names : m # n /\ Visited(m)' => Visited(m)
      <4>1. CASE SitePass(n)
        <5>1. PICK c : ReconcileSite(c, n) BY <4>1 DEF SitePass
        <5>2. unvisited' = unvisited \ {n} BY <5>1 DEF ReconcileSite
        <5> QED BY <5>2, SitesAssumption DEF Visited
      <4>2. CASE SiteLeft(n) BY <4>2 DEF SiteLeft, Visited
      <4> QED BY <2>5, <4>1, <4>2
    <3>5. ASSUME NEW m \in Names, m # n, Visited(m)' PROVE FitsMirrored(m)'
      <4>1. FitsMirrored(m) BY <3>4, <3>5 DEF RoutesFit
      <4>2. \A root : <<root, m>> \in dirs' <=> <<root, m>> \in dirs BY <2>2
      <4>3. routes'[m] = routes[m] /\ config'.links[m] = config.links[m] BY <3>2, <3>3, <3>5
      <4> QED BY <3>2, <4>1, <4>2, <4>3, OtherFits
    <3>6. ASSUME Visited(n)' PROVE FitsMirrored(n)'
      <4>1. CASE SitePass(n)
        <5>1. ReconcileSite(config', n) BY <4>1 DEF SitePass
        <5> QED BY <2>2, <3>6, <5>1, OnePassFits
      <4>2. CASE SiteLeft(n) BY <3>6, <4>2 DEF SiteLeft, Visited
      <4> QED BY <2>5, <4>1, <4>2
    <3> QED BY <3>5, <3>6 DEF RoutesFit
  <2>6. CASE ProxyGone
    <3>1. PICK n \in Names : config' = [config EXCEPT !.proxies = @ \ {n}] BY <2>6 DEF ProxyGone
    <3>2. config'.parked = config.parked /\ config'.pool = config.pool /\ config'.links = config.links
      BY <1>c, <3>1 DEF Config
    <3>3. routes' = routes /\ unvisited' = unvisited BY <2>6 DEF ProxyGone, backends
    <3>4. ASSUME NEW m \in Names, Visited(m)' PROVE FitsMirrored(m)'
      <4>1. FitsMirrored(m) BY <3>3, <3>4 DEF RoutesFit, Visited
      <4> QED BY <2>2, <3>2, <3>3, <4>1, OtherFits
    <3> QED BY <3>4 DEF RoutesFit
  <2> QED BY <2>1, <2>3, <2>4, <2>5, <2>6 DEF Mutated
<1>2. ASSUME NEW k \in Clients, NEW n \in Names, NEW tld \in Tlds, NEW https \in BOOLEAN, Arrive(k, n, tld, https)
      PROVE  RoutesFit'
  BY <1>u, <1>2 DEF Arrive
<1>3. ASSUME NEW k \in Clients, Answer(k) PROVE RoutesFit' BY <1>u, <1>3 DEF Answer
<1>4. ASSUME NEW dir \in Dirs, ChangeDir(dir) PROVE RoutesFit'
  <2>1. PICK root \in Roots, n \in Names : dir = <<root, n>> BY DEF Dirs
  <2>2. /\ dirs' = IF dir \in dirs THEN dirs \ {dir} ELSE dirs \cup {dir}
        /\ unvisited' = unvisited \cup {n} /\ config' = config /\ routes' = routes
    BY <1>4, <2>1 DEF ChangeDir, backends
  <2>3. ASSUME NEW m \in Names, Visited(m)' PROVE FitsMirrored(m)'
    <3>1. m # n /\ Visited(m) BY <2>2, <2>3 DEF Visited
    <3>2. FitsMirrored(m) BY <3>1 DEF RoutesFit
    <3>3. \A other : <<other, m>> \in dirs' <=> <<other, m>> \in dirs BY <2>1, <2>2, <3>1
    <3> QED BY <2>2, <3>2, <3>3, OtherFits
  <2> QED BY <2>3 DEF RoutesFit
<1>5. ASSUME RestartDaemon PROVE RoutesFit'
  <2>1. PICK fails : routes' = RoutesOf(disk, fails) BY <1>5 DEF RestartDaemon
  <2> QED BY <1>5, <1>c, <2>1, PassFits DEF RestartDaemon
<1>6. CASE UNCHANGED vars BY <1>u, <1>6 DEF vars
<1> QED BY <1>1, <1>2, <1>3, <1>4, <1>5, <1>6 DEF Next

LEMMA InitFits == Init => RoutesFit
<1> SUFFICES ASSUME Init, NEW n \in Names PROVE Fits(routes[n], Site(config, n), n)
  BY DEF RoutesFit, FitsMirrored
<1>1. config \in Config BY InitTyped DEF TypeOK
<1>2. routes = RoutesOf(config, {}) BY DEF Init
<1>3. PICK site : site = Site(config, n) OBVIOUS
<1>4. site \in Link \cup {None} BY <1>1, <1>3, SiteTyped
<1>5. routes[n] = IF site = None THEN None ELSE RouteTo(config, n, site, {}) BY <1>1, <1>2, <1>3, RoutesAre
<1> QED BY <1>1, <1>3, <1>4, <1>5, RouteTyped DEF Fits

(* reconcile_site leaves the table reconcile would have built, for its site  *)
(* and for all others, whichever passes were made, in whatever order, and    *)
(* whatever failed to start: of every name that resolve_one mirrors. (Of one *)
(* that begins with a dot, or is spelled with capitals on disk, it does not: *)
(* reconcile follows the link or keeps the path it read, resolve_one refuses *)
(* the name or joins it in lower case.)                                      *)
THEOREM TableCurrent == Spec => []RoutesCurrent
<1>1. RoutesFit /\ TypeOK => RoutesCurrent
  <2> SUFFICES ASSUME RoutesFit, TypeOK, NEW n \in Names, Visited(n), Mirrored(config, n)
               PROVE  RouteIsCurrent(n)
    BY DEF RoutesCurrent
  <2>1. config \in Config BY DEF TypeOK
  <2>2. PICK site : site = Site(config, n) OBVIOUS
  <2>3. PICK wanted : wanted = RoutesOf(config, Names)[n] OBVIOUS
  <2>4. wanted = IF site = None THEN None ELSE RouteTo(config, n, site, Names) BY <2>1, <2>2, <2>3, RoutesAre
  <2>5. Fits(routes[n], site, n) BY <2>2 DEF RoutesFit, FitsMirrored
  <2>6. site # None => wanted # None BY <2>1, <2>2, <2>4, SiteTyped, RouteTyped
  <2>7. routes[n] = None <=> wanted = None BY <2>4, <2>5, <2>6 DEF Fits
  <2>8. routes[n] # None => [routes[n] EXCEPT !.upstream = FALSE] = wanted BY <2>4, <2>5 DEF Fits
  <2> QED BY <2>3, <2>7, <2>8, Zenon DEF RouteIsCurrent
<1>2. Spec => []TypeOK BY Typing
<1> QED BY <1>1, <1>2, InitFits, NextFits, PTL DEF Spec

-------------------------------------------------------------------------------
(* The hosts file *)

(* The cache of domains is current unless a change of everything failed to   *)
(* be saved, and so the file has every name on every domain.                 *)
TldsFit == None \notin unvisited => tlds = ConfiguredTlds(config)

Named(c, n) == Site(c, n) # None \/ n \in c.proxies

HostsFit ==
  config.hosts => \A n \in Names : Visited(n) /\ Named(config, n) =>
    \A tld \in ToSet(ConfiguredTlds(config)) : <<n, tld>> \in hosts

(* What a pass writes has every name the configuration has.                  *)
LEMMA SyncNames ==
  ASSUME Unlistable = {}, NEW c \in Config, NEW ts, NEW n \in Names, Named(c, n), NEW tld \in ToSet(ts)
  PROVE  <<n, tld>> \in SyncHosts(c, ts)
<1>1. n \in DOMAIN resolve(c) \cup c.proxies BY ResolveIs DEF Named
<1> QED BY <1>1 DEF SyncHosts, HostsOf

LEMMA PassNames ==
  ASSUME Unlistable = {}, NEW c \in Config, NEW ts, config' = c, dirs' = dirs, ts = ConfiguredTlds(c),
         c.hosts => hosts' = SyncHosts(c, ts)
  PROVE  HostsFit'
<1> SUFFICES ASSUME config'.hosts, NEW n \in Names, Named(config, n)', NEW tld \in ToSet(ConfiguredTlds(config'))
             PROVE  <<n, tld>> \in hosts'
  BY DEF HostsFit, ConfiguredTlds
<1>1. Site(config, n)' = Site(c, n) BY DEF Site, FoundAt, Entries
<1>2. Named(c, n) BY <1>1 DEF Named
<1> QED BY <1>2, SyncNames

(* A name that was there stays in a file that does not change.               *)
LEMMA OtherNamed ==
  ASSUME NEW n \in Names, Named(config, n)',
         config'.links[n] = config.links[n], config'.parked = config.parked,
         n \in config'.proxies => n \in config.proxies,
         \A root : <<root, n>> \in dirs' <=> <<root, n>> \in dirs
  PROVE  Named(config, n)
<1>1. FoundAt(config, DOMAIN config.parked, n)' = FoundAt(config, DOMAIN config.parked, n)
  BY DEF FoundAt, Entries
<1>2. Site(config, n)' = Site(config, n) BY <1>1 DEF Site
<1> QED BY <1>2 DEF Named

LEMMA NextListed ==
  ASSUME Unlistable = {}
  PROVE  TldsFit /\ HostsFit /\ TypeOK /\ [Next]_vars => (TldsFit /\ HostsFit)'
<1> SUFFICES ASSUME TldsFit, HostsFit, TypeOK, [Next]_vars PROVE TldsFit' /\ HostsFit' OBVIOUS
<1>c. config \in Config /\ disk \in Config BY DEF TypeOK
<1>k. ASSUME config'.tlds = config.tlds, config'.hosts = config.hosts, tlds' = tlds, hosts' = hosts,
             None \in unvisited => None \in unvisited',
             \A n \in Names : Visited(n)' /\ Named(config, n)' => Visited(n) /\ Named(config, n)
      PROVE  TldsFit' /\ HostsFit'
  <2>1. ConfiguredTlds(config') = ConfiguredTlds(config) BY <1>k DEF ConfiguredTlds
  <2>2. TldsFit' BY <1>k, <2>1 DEF TldsFit, ConfiguredTlds
  <2>3. ASSUME config'.hosts, NEW n \in Names, Visited(n)', Named(config, n)',
               NEW tld \in ToSet(ConfiguredTlds(config'))
        PROVE  <<n, tld>> \in hosts'
    BY <1>k, <2>1, <2>3 DEF HostsFit
  <2> QED BY <2>2, <2>3 DEF HostsFit, ConfiguredTlds
<1>u. ASSUME UNCHANGED <<tlds, hosts, dirs, unvisited>>, config' = config PROVE TldsFit' /\ HostsFit'
  <2>1. ASSUME NEW n \in Names, Visited(n)', Named(config, n)' PROVE Visited(n) /\ Named(config, n)
    <3>1. Named(config, n) BY <1>u, <2>1, OtherNamed
    <3> QED BY <1>u, <2>1, <3>1 DEF Visited
  <2> QED BY <1>k, <1>u, <2>1
<1>1. ASSUME Mutate PROVE TldsFit' /\ HostsFit'
  <2>1. Mutated BY <1>1, Mutates DEF Kept, TypeOK
  <2>2. config' \in Config /\ dirs' = dirs BY <2>1 DEF Mutated
  <2>3. CASE FullPass
    <3>1. PICK reset, block : Reconcile(config', reset, block) BY <2>3 DEF FullPass
    <3>2. /\ tlds' = ConfiguredTlds(config')
          /\ config'.hosts => hosts' = SyncHosts(config', tlds')
      BY <3>1 DEF Reconcile
    <3>3. PICK c \in Config : c = config' BY <2>2
    <3>4. PICK ts : ts = tlds' OBVIOUS
    <3>5. HostsFit' BY <2>2, <3>2, <3>3, <3>4, PassNames
    <3> QED BY <3>2, <3>5 DEF TldsFit, ConfiguredTlds
  <2>4. CASE AllLeft BY <2>4 DEF AllLeft, TldsFit, HostsFit, Visited, Everything
  <2>5. ASSUME NEW n \in Names, SitePass(n) \/ SiteLeft(n) PROVE TldsFit' /\ HostsFit'
    <3>1. PICK link \in Link \cup {None} : config' = SetLink(n, link) BY <2>5 DEF SitePass, SiteLeft, Relinked
    <3>2. /\ config'.parked = config.parked /\ config'.proxies = config.proxies
          /\ config'.tlds = config.tlds /\ config'.hosts = config.hosts
          /\ \A m \in Names : m # n => config'.links[m] = config.links[m]
      BY <1>c, <3>1 DEF SetLink, Config
    <3>3. CASE SitePass(n)
      <4>1. PICK c \in Config : c = config' BY <2>2
      <4>2. ReconcileSite(c, n) BY <3>3, <4>1 DEF SitePass
      <4>3. unvisited' = unvisited \ {n} /\ tlds' = tlds /\ hosts' = IF c.hosts THEN SyncHosts(c, tlds) ELSE hosts
        BY <4>2 DEF ReconcileSite
      <4>4. ConfiguredTlds(c) = ConfiguredTlds(config) BY <3>2, <4>1 DEF ConfiguredTlds
      <4>5. None \in unvisited' <=> None \in unvisited BY <4>3, SitesAssumption
      <4>6. TldsFit' BY <4>1, <4>3, <4>4, <4>5 DEF TldsFit, ConfiguredTlds
      <4>7. CASE None \in unvisited BY <4>5, <4>6, <4>7 DEF HostsFit, Visited
      <4>8. CASE None \notin unvisited
        <5>1. tlds = ConfiguredTlds(c) BY <4>4, <4>8 DEF TldsFit
        <5> QED BY <2>2, <4>1, <4>3, <4>6, <5>1, PassNames
      <4> QED BY <4>7, <4>8
    <3>4. CASE SiteLeft(n)
      <4>1. unvisited' = unvisited \cup {n} /\ tlds' = tlds /\ hosts' = hosts BY <3>4 DEF SiteLeft, backends
      <4>2. ASSUME NEW m \in Names, Visited(m)', Named(config, m)' PROVE Visited(m) /\ Named(config, m)
        <5>1. m # n /\ Visited(m) BY <4>1, <4>2 DEF Visited
        <5>2. config'.links[m] = config.links[m] BY <3>2, <5>1
        <5>3. Named(config, m) BY <2>2, <3>2, <4>2, <5>2, OtherNamed
        <5> QED BY <5>1, <5>3
      <4> QED BY <1>k, <3>2, <4>1, <4>2
    <3> QED BY <2>5, <3>3, <3>4
  <2>6. CASE ProxyGone
    <3>1. PICK n \in Names : config' = [config EXCEPT !.proxies = config.proxies \ {n}] BY <2>6 DEF ProxyGone
    <3>2. /\ config'.parked = config.parked /\ config'.links = config.links
          /\ config'.tlds = config.tlds /\ config'.hosts = config.hosts
          /\ config'.proxies \subseteq config.proxies
      BY <1>c, <3>1 DEF Config
    <3>3. tlds' = tlds /\ hosts' = hosts /\ unvisited' = unvisited BY <2>6 DEF ProxyGone, backends
    <3>4. ASSUME NEW m \in Names, Visited(m)', Named(config, m)' PROVE Visited(m) /\ Named(config, m)
      <4>1. Named(config, m) BY <2>2, <3>2, <3>4, OtherNamed
      <4> QED BY <3>3, <3>4, <4>1 DEF Visited
    <3> QED BY <1>k, <3>2, <3>3, <3>4
  <2> QED BY <2>1, <2>3, <2>4, <2>5, <2>6 DEF Mutated
<1>2. ASSUME NEW k \in Clients, NEW n \in Names, NEW tld \in Tlds, NEW https \in BOOLEAN, Arrive(k, n, tld, https)
      PROVE  TldsFit' /\ HostsFit'
  BY <1>u, <1>2 DEF Arrive
<1>3. ASSUME NEW k \in Clients, Answer(k) PROVE TldsFit' /\ HostsFit' BY <1>u, <1>3 DEF Answer
<1>4. ASSUME NEW dir \in Dirs, ChangeDir(dir) PROVE TldsFit' /\ HostsFit'
  <2>1. PICK root \in Roots, n \in Names : dir = <<root, n>> BY DEF Dirs
  <2>2. /\ dirs' = IF dir \in dirs THEN dirs \ {dir} ELSE dirs \cup {dir}
        /\ unvisited' = unvisited \cup {n} /\ config' = config /\ tlds' = tlds /\ hosts' = hosts
    BY <1>4, <2>1 DEF ChangeDir, backends
  <2>3. ASSUME NEW m \in Names, Visited(m)', Named(config, m)' PROVE Visited(m) /\ Named(config, m)
    <3>1. m # n /\ Visited(m) BY <2>2, <2>3 DEF Visited
    <3>2. \A other : <<other, m>> \in dirs' <=> <<other, m>> \in dirs BY <2>1, <2>2, <3>1
    <3>3. Named(config, m) BY <2>2, <2>3, <3>2, OtherNamed
    <3> QED BY <3>1, <3>3
  <2> QED BY <1>k, <2>2, <2>3
<1>5. ASSUME RestartDaemon PROVE TldsFit' /\ HostsFit'
  <2>1. /\ config' = disk /\ dirs' = dirs /\ tlds' = ConfiguredTlds(disk)
        /\ disk.hosts => hosts' = SyncHosts(disk, tlds')
    BY <1>5 DEF RestartDaemon
  <2>2. PICK c \in Config : c = disk BY <1>c
  <2>3. PICK ts : ts = tlds' OBVIOUS
  <2>4. HostsFit' BY <2>1, <2>2, <2>3, PassNames
  <2> QED BY <2>1, <2>4 DEF TldsFit, ConfiguredTlds
<1>6. CASE UNCHANGED vars BY <1>u, <1>6 DEF vars
<1> QED BY <1>1, <1>2, <1>3, <1>4, <1>5, <1>6 DEF Next

(* In hosts mode the hosts file has every name the daemon answers to, on     *)
(* every domain, when the helper takes all of them. The pass over one site   *)
(* writes the file with the cache of domains, so the invariant also says     *)
(* that the cache is that of the configuration.                              *)
THEOREM NamesListed ==
  ASSUME Unlistable = {}
  PROVE  Spec => []HostsCover
<1>1. Init => TldsFit /\ HostsFit
  <2> SUFFICES ASSUME Init PROVE TldsFit /\ HostsFit OBVIOUS
  <2>1. config.hosts = FALSE BY DEF Init, Fresh
  <2> QED BY <2>1 DEF Init, TldsFit, HostsFit
<1>2. HostsFit /\ TypeOK => HostsCover
  <2> SUFFICES ASSUME HostsFit, TypeOK, config.hosts, NEW n \in Names, NEW tld \in ToSet(ConfiguredTlds(config)),
                      Visited(n), n \in DOMAIN resolve(config) \cup config.proxies
               PROVE  <<n, tld>> \in hosts
    BY Zenon DEF HostsCover
  <2>1. config \in Config BY DEF TypeOK
  <2>2. Named(config, n) BY <2>1, ResolveIs DEF Named
  <2> QED BY <2>2 DEF HostsFit
<1>3. Spec => []TypeOK BY Typing
<1> QED BY <1>1, <1>2, <1>3, NextListed, PTL DEF Spec

-------------------------------------------------------------------------------
(* Secure sites *)

(* A request in the clear to a site that is linked as secure is answered     *)
(* with a redirect, unless the site was changed after the request came: the  *)
(* route it took is the one the configuration wants, and serve_site looks at *)
(* it before any backend.                                                    *)
THEOREM ClearIsRedirected ==
  ASSUME Dotted = {}
  PROVE  Spec => []SecureRedirects
<1>1. Init => Following BY DEF Init, Following
<1>2. RoutesFit /\ Following /\ TypeOK => SecureRedirects
  <2> SUFFICES ASSUME RoutesFit, Following, TypeOK, NEW k \in Clients, NEW r, r = inflight[k],
                      r # None, r.kind = "site", ~r.https, ~r.moved, Visited(r.name),
                      Linked(r.name), config.links[r.name].secure
               PROVE  Outcome(r) = "redirect"
    BY DEF SecureRedirects
  <2>1. r.name \in Names /\ r.route \in Route /\ routes[r.name] = r.route BY DEF Following, Untouched
  <2>2. PICK link : link = config.links[r.name] OBVIOUS
  <2>3. Site(config, r.name) = link /\ link # None BY <2>2 DEF Linked, Site
  <2>a. Mirrored(config, r.name) BY <2>1, <2>2, <2>3 DEF Mirrored
  <2>4. [r.route EXCEPT !.upstream = FALSE] = RouteTo(config, r.name, link, Names)
    BY <2>1, <2>3, <2>a DEF RoutesFit, FitsMirrored, Fits
  <2>5. [r.route EXCEPT !.upstream = FALSE].secure = r.route.secure BY <2>1 DEF Route
  <2>6. RouteTo(config, r.name, link, Names).secure = link.secure BY DEF RouteTo
  <2>7. r.route.secure BY <2>2, <2>4, <2>5, <2>6
  <2> QED BY <2>7 DEF Outcome
<1>3. Spec => []TypeOK BY Typing
<1> QED BY <1>1, <1>2, <1>3, InitFits, NextFits, NextFollows, PTL DEF Spec
================================================================================
