------------------------ MODULE PropertySearchProofs ------------------------
(***************************************************************************)
(* Theorems about a search, for any requests, cards and outcomes of the    *)
(* portals: the two filters agree, what a portal answers says what it has  *)
(* shown, and so the reply says what the portals have shown.               *)
(*                                                                         *)
(* The order of the proof: sums and least elements; the filters; readings; *)
(* the answer of one portal; the merged listings; the reply.               *)
(***************************************************************************)
EXTENDS PropertySearch, FiniteSetTheorems, WellFoundedInduction, TLAPS

-----------------------------------------------------------------------------
(* Sums and least elements: what SumFunction computes, by way of a least   *)
(* counterexample.                                                         *)

\* A set of numbers that is not empty has a least one.
LEMMA LeastNumber ==
    ASSUME NEW S \in SUBSET Nat, S # {}
    PROVE  \E m \in S : \A k \in S : m <= k
<1> DEFINE R == OpToRel(<, Nat)
<1>1. IsWellFoundedOn(R, Nat)
  BY NatLessThanWellFounded
<1>2. PICK m \in S : \A k \in S : <<k, m>> \notin R
  <2> HIDE DEF R
  <2> QED
    BY <1>1, WFMin
<1>3. \A k \in S : ~(k < m)
  BY <1>2 DEF OpToRel
<1> QED
  BY <1>3

\* Of some finite sets one is smallest.
LEMMA SmallestSet ==
    ASSUME NEW S, IsFiniteSet(S), NEW Bad \in SUBSET (SUBSET S), Bad # {}
    PROVE  \E T \in Bad : \A U \in SUBSET T : U # T => U \notin Bad
<1> DEFINE sizes == {Cardinality(T) : T \in Bad}
<1>1. \A T \in Bad : IsFiniteSet(T) /\ Cardinality(T) \in Nat
  BY FS_Subset, FS_CardinalityType
<1>2. PICK n \in sizes : \A k \in sizes : n <= k
  <2>1. sizes \in SUBSET Nat /\ sizes # {}
    BY <1>1
  <2> HIDE DEF sizes
  <2> QED
    BY <2>1, LeastNumber
<1>3. PICK T \in Bad : Cardinality(T) = n
  BY <1>2
<1>4. ASSUME NEW U \in SUBSET T, U # T, U \in Bad
      PROVE  FALSE
  <2>1. IsFiniteSet(T) /\ Cardinality(T) <= Cardinality(U) /\ Cardinality(U) \in Nat /\ Cardinality(T) \in Nat
    BY <1>1, <1>2, <1>3, <1>4
  <2>2. Cardinality(U) <= Cardinality(T) /\ Cardinality(T) # Cardinality(U)
    BY <1>4, <2>1, FS_Subset
  <2> QED
    BY <2>1, <2>2
<1> QED
  BY <1>3, <1>4

\* The element that a fold over a set takes out first.
First(s) == CHOOSE x \in s : TRUE

\* The function by which MapThenFoldSet computes a sum over each of some sets.
SumsOf(sum, fun, sets) ==
    sum = [s \in sets |-> IF s = {} THEN 0 ELSE fun[First(s)] + sum[s \ {First(s)}]]

\* A set without its first element is smaller by one.
LEMMA FirstOut ==
    ASSUME NEW S, IsFiniteSet(S), S # {}
    PROVE  /\ First(S) \in S
           /\ IsFiniteSet(S \ {First(S)})
           /\ Cardinality(S) \in Nat \ {0}
           /\ Cardinality(S \ {First(S)}) = Cardinality(S) - 1
<1>1. First(S) \in S
  BY DEF First
<1> QED
  BY <1>1, FS_RemoveElement, FS_EmptySet, FS_CardinalityType

\* There is such a function for the subsets of every finite set.
LEMMA SumsExist ==
    ASSUME NEW fun, NEW S, IsFiniteSet(S)
    PROVE  \E sum : SumsOf(sum, fun, SUBSET S)
<1> DEFINE UpTo(n) == {s \in SUBSET S : Cardinality(s) <= n}
           Bad == {n \in Nat : ~\E sum : SumsOf(sum, fun, UpTo(n))}
<1>f. \A s \in SUBSET S : IsFiniteSet(s) /\ Cardinality(s) \in Nat /\ Cardinality(s) <= Cardinality(S)
  BY FS_Subset, FS_CardinalityType
<1>1. ASSUME NEW n \in Nat, n \in Bad, \A k \in Bad : n <= k
      PROVE  FALSE
  <2>1. CASE n = 0
    <3> DEFINE sum == [s \in UpTo(n) |-> 0]
    <3>1. UpTo(n) = {{}}
      BY <1>f, <2>1, FS_EmptySet
    <3>2. SumsOf(sum, fun, UpTo(n))
      BY <3>1 DEF SumsOf
    <3> QED
      BY <1>1, <3>2
  <2>2. CASE n # 0
    <3>1. PICK sum : SumsOf(sum, fun, UpTo(n - 1))
      BY <1>1, <2>2
    <3> DEFINE more == [s \in UpTo(n) |->
                 IF s = {} THEN 0 ELSE fun[First(s)] + sum[s \ {First(s)}]]
    <3>2. ASSUME NEW s \in UpTo(n - 1)
          PROVE  s \in UpTo(n) /\ sum[s] = more[s]
      <4>1. s \in UpTo(n)
        BY <1>f
      <4>2. sum[s] = IF s = {} THEN 0 ELSE fun[First(s)] + sum[s \ {First(s)}]
        BY <3>1 DEF SumsOf
      <4> QED
        BY <4>1, <4>2
    <3>3. ASSUME NEW s \in UpTo(n), s # {}
          PROVE  s \ {First(s)} \in UpTo(n - 1)
      BY <1>f, <3>3, FirstOut
    <3>4. SumsOf(more, fun, UpTo(n))
      <4>1. ASSUME NEW s \in UpTo(n), s # {}
            PROVE  sum[s \ {First(s)}] = more[s \ {First(s)}]
        BY <4>1, <3>2, <3>3
      <4> QED
        BY <4>1 DEF SumsOf
    <3> QED
      BY <1>1, <3>4
  <2> QED
    BY <2>1, <2>2
<1>2. Bad = {}
  <2> HIDE DEF Bad
  <2>1. Bad \in SUBSET Nat
    BY DEF Bad
  <2> QED
    BY <1>1, <2>1, LeastNumber
<1>3. UpTo(Cardinality(S)) = SUBSET S
  BY <1>f
<1>4. Cardinality(S) \in Nat
  BY FS_CardinalityType
<1> QED
  BY <1>2, <1>3, <1>4

\* And SumFunction is it.
LEMMA SumByParts ==
    ASSUME NEW fun, IsFiniteSet(DOMAIN fun)
    PROVE  \E sum : SumsOf(sum, fun, SUBSET DOMAIN fun) /\ SumFunction(fun) = sum[DOMAIN fun]
<1> DEFINE S == DOMAIN fun
           it == CHOOSE iter : SumsOf(iter, fun, SUBSET S)
<1>1. SumFunction(fun) = it[S]
  BY DEF SumFunction, SumFunctionOnSet, FoldFunctionOnSet, MapThenFoldSet, First, SumsOf
<1>2. SumsOf(it, fun, SUBSET S)
  BY SumsExist
<1> QED
  BY <1>1, <1>2

\* What a function takes finitely many arguments to is finite.
LEMMA FiniteRange ==
    ASSUME NEW fun, IsFiniteSet(DOMAIN fun)
    PROVE  IsFiniteSet(Range(fun)) /\ Cardinality(Range(fun)) <= Cardinality(DOMAIN fun)
<1> DEFINE g == [x \in DOMAIN fun |-> fun[x]]
<1>1. g \in Surjection(DOMAIN fun, Range(fun))
  BY DEF Surjection, Range
<1> HIDE DEF g
<1> QED
  BY <1>1, FS_Surjection

Union(K, T) == UNION {K[x] : x \in T}

LEMMA FiniteUnion ==
    ASSUME NEW K, NEW T, IsFiniteSet(T), \A x \in T : IsFiniteSet(K[x])
    PROVE  IsFiniteSet(Union(K, T))
<1> DEFINE g == [x \in T |-> K[x]]
<1>1. IsFiniteSet(Range(g))
  <2>1. DOMAIN g = T
    OBVIOUS
  <2> HIDE DEF g
  <2> QED
    BY <2>1, FiniteRange
<1>2. \A S \in Range(g) : IsFiniteSet(S)
  BY DEF Range
<1>3. Union(K, T) = UNION Range(g)
  BY DEF Union, Range
<1> HIDE DEF g
<1> QED
  BY <1>1, <1>2, <1>3, FS_UNION

\* A sum of the sizes of disjoint sets is the size of their union.
LEMMA SumCounts ==
    ASSUME NEW fun, NEW K, IsFiniteSet(DOMAIN fun),
           \A x \in DOMAIN fun : IsFiniteSet(K[x]) /\ fun[x] = Cardinality(K[x]),
           \A x, y \in DOMAIN fun : x # y => K[x] \cap K[y] = {}
    PROVE  IsFiniteSet(Union(K, DOMAIN fun)) /\ SumFunction(fun) = Cardinality(Union(K, DOMAIN fun))
<1> DEFINE S == DOMAIN fun
<1>1. PICK sum : SumsOf(sum, fun, SUBSET S) /\ SumFunction(fun) = sum[S]
  BY SumByParts
<1> DEFINE Counted(T) == IsFiniteSet(Union(K, T)) /\ sum[T] = Cardinality(Union(K, T))
           Bad == {T \in SUBSET S : ~Counted(T)}
<1>2. ASSUME NEW T \in Bad, \A U \in SUBSET T : U # T => U \notin Bad
      PROVE  FALSE
  <2>1. sum[T] = IF T = {} THEN 0 ELSE fun[First(T)] + sum[T \ {First(T)}]
    BY <1>1 DEF SumsOf
  <2>2. IsFiniteSet(T)
    BY FS_Subset
  <2>3. CASE T = {}
    <3>1. Union(K, T) = {}
      BY <2>3 DEF Union
    <3> QED
      BY <2>1, <2>3, <3>1, FS_EmptySet
  <2>4. CASE T # {}
    <3> DEFINE x == First(T)
               R == T \ {First(T)}
    <3>1. x \in T /\ R \in SUBSET S /\ R # T
      BY <2>2, <2>4, FirstOut
    <3>2. Counted(R)
      BY <1>2, <3>1
    <3>3. Union(K, T) = K[x] \cup Union(K, R)
      BY <3>1 DEF Union
    <3>4. K[x] \cap Union(K, R) = {}
      BY <3>1 DEF Union
    <3>5. IsFiniteSet(K[x]) /\ fun[x] = Cardinality(K[x])
      BY <3>1
    <3>6. sum[T] = fun[x] + sum[R]
      BY <2>1, <2>4
    <3> HIDE DEF x, R
    <3>7. /\ IsFiniteSet(Union(K, T))
          /\ Cardinality(Union(K, T)) = Cardinality(K[x]) + Cardinality(Union(K, R))
      <4>1. Cardinality(K[x]) \in Nat /\ Cardinality(Union(K, R)) \in Nat
        BY <3>2, <3>5, FS_CardinalityType
      <4>2. /\ IsFiniteSet(K[x] \cup Union(K, R))
            /\ Cardinality(K[x] \cup Union(K, R)) =
                  Cardinality(K[x]) + Cardinality(Union(K, R)) - Cardinality(K[x] \cap Union(K, R))
        <5>1. IsFiniteSet(K[x]) /\ IsFiniteSet(Union(K, R))
          BY <3>2, <3>5
        <5> QED
          BY <5>1, FS_Union
      <4>3. Cardinality(K[x] \cap Union(K, R)) = 0
        BY <3>4, FS_EmptySet
      <4> QED
        BY <3>3, <4>1, <4>2, <4>3
    <3> QED
      BY <3>2, <3>5, <3>6, <3>7
  <2> QED
    BY <2>3, <2>4
<1>3. Bad = {}
  <2> HIDE DEF Bad
  <2>1. Bad \in SUBSET (SUBSET S)
    BY DEF Bad
  <2> QED
    BY <1>2, <2>1, SmallestSet
<1> QED
  BY <1>1, <1>3

\* A sum of numbers is a number, and nothing but zeros sums up to zero.
LEMMA SumOfNumbers ==
    ASSUME NEW fun, IsFiniteSet(DOMAIN fun), \A x \in DOMAIN fun : fun[x] \in Nat
    PROVE  /\ SumFunction(fun) \in Nat
           /\ SumFunction(fun) = 0 <=> \A x \in DOMAIN fun : fun[x] = 0
<1> DEFINE K == [x \in DOMAIN fun |-> {x} \X (1 .. fun[x])]
<1>1. ASSUME NEW x \in DOMAIN fun
      PROVE  IsFiniteSet(K[x]) /\ fun[x] = Cardinality(K[x])
  <2>1. IsFiniteSet({x}) /\ Cardinality({x}) = 1
    BY FS_Singleton
  <2>2. fun[x] \in Nat /\ IsFiniteSet(1 .. fun[x]) /\ Cardinality(1 .. fun[x]) = fun[x]
    BY FS_Interval
  <2>3. IsFiniteSet({x} \X (1 .. fun[x])) /\ Cardinality({x} \X (1 .. fun[x])) = 1 * fun[x]
    BY <2>1, <2>2, FS_Product
  <2> QED
    BY <2>2, <2>3
<1>2. \A x, y \in DOMAIN fun : x # y => K[x] \cap K[y] = {}
  OBVIOUS
<1> HIDE DEF K
<1>3. IsFiniteSet(Union(K, DOMAIN fun)) /\ SumFunction(fun) = Cardinality(Union(K, DOMAIN fun))
  BY <1>1, <1>2, SumCounts
<1>4. Union(K, DOMAIN fun) = {} <=> \A x \in DOMAIN fun : K[x] = {}
  BY DEF Union
<1>5. \A x \in DOMAIN fun : K[x] = {} <=> fun[x] = 0
  BY <1>1, FS_EmptySet
<1> QED
  BY <1>3, <1>4, <1>5, FS_EmptySet, FS_CardinalityType
-----------------------------------------------------------------------------
(* The filters.                                                            *)

\* A number that may be missing: a price, rooms, a bound of the request.
Priced(l) == {l.price, l.rooms} \subseteq Number

Asks(q) ==
    /\ q.rooms \in Number
    /\ q.price # None => {q.price.min, q.price.max} \subseteq Number

LEMMA SamePrice ==
    ASSUME NEW l, NEW q, Priced(l), Asks(q)
    PROVE  PassesPrice(l, q) <=> ~DroppedForPrice(l, q)
<1>1. CASE q.price = None \/ l.price = None
  BY <1>1 DEF PassesPrice, DroppedForPrice
<1>2. CASE q.price # None /\ l.price # None
  <2>1. l.price \in Int /\ q.price.min \in Number /\ q.price.max \in Number
    BY <1>2 DEF Priced, Asks, Number
  <2>2. q.price.min # None => (l.price >= q.price.min <=> ~(l.price < q.price.min))
    BY <2>1 DEF Number
  <2>3. q.price.max # None => (l.price <= q.price.max <=> ~(l.price > q.price.max))
    BY <2>1 DEF Number
  <2> QED
    BY <1>2, <2>2, <2>3 DEF PassesPrice, DroppedForPrice
<1> QED
  BY <1>1, <1>2

LEMMA SameRooms ==
    ASSUME NEW l, NEW q, Priced(l), Asks(q)
    PROVE  PassesRoomsMin(l, q) <=> ~DroppedForRooms(l, q)
BY ScrapersAssumption DEF Priced, Asks, Number, PassesRoomsMin, DroppedForRooms

\* The adapters' filter is the search's own and the words of the query: what one
\* of the two implementations keeps, the other keeps, so that the second filter
\* never takes away what a portal's diagnostics have counted as kept.
THEOREM FiltersAgree ==
    ASSUME NEW l, NEW q, Priced(l), Asks(q)
    PROVE  KeptByAdapter(l, q) <=>
               PassesPostFilters(l, q) /\ (q.query # None => q.query \in l.words)
BY SamePrice, SameRooms DEF KeptByAdapter, PassesPostFilters, PassesType, PassesLocation

\* A search in Gonnet keeps no listing whose locality is Pilar or City Bell,
\* whatever places its title names (the hard rule of geo/match.py).
THEOREM GonnetIsNotPilar ==
    ASSUME NEW l, NEW q, ResolveLocation(q) = "gonnet",
           l.locality \in {"pilar", "city bell"}
    PROVE  ~PassesPostFilters(l, q)
<1>1. ASSUME NEW s \in Seed, "gonnet" \in s.aliases \cup {s.locality}
      PROVE  l.locality \notin s.aliases \cup {s.locality}
  <2> DEFINE gonnet == [locality |-> "gonnet",
                        aliases |-> {"gonnet", "manuel b gonnet", "manuel belgrano gonnet"}]
             other(p) == [locality |-> p, aliases |-> {p}]
  <2>1. s = gonnet \/ \E p \in {"city bell", "la plata", "pilar"} : s = other(p)
    BY Zenon DEF Seed
  <2>2. gonnet.locality = "gonnet"
        /\ gonnet.aliases = {"gonnet", "manuel b gonnet", "manuel belgrano gonnet"}
    BY Zenon
  <2>3. \A p : other(p).locality = p /\ other(p).aliases = {p}
    BY Zenon
  <2> HIDE DEF gonnet, other
  <2>4. s = gonnet
    BY <1>1, <2>1, <2>3
  <2> QED
    BY <2>2, <2>4
<1>2. l.locality \notin TokensForPlace("gonnet")
  BY <1>1 DEF TokensForPlace
<1>3. ~LocationMatches("gonnet", l)
  BY <1>2 DEF LocationMatches
<1> QED
  BY <1>3, PlacesAssumption DEF PassesPostFilters, PassesLocation, LaPlataChildren

-----------------------------------------------------------------------------
(* Readings.                                                               *)

\* Finitely many places hold what the filters can compare.
IsReading(r) ==
    /\ IsFiniteSet(DOMAIN r)
    /\ DOMAIN r \subseteq Nat \X Nat
    /\ \A p \in DOMAIN r : Priced(r[p])

LEMMA PagesLie ==
    ASSUME NEW C, NEW pages \in Seq(Seq(C)), \A c \in C : Priced(c)
    PROVE  IsReading(Lay(pages))
<1> DEFINE D == UNION {{n} \X DOMAIN pages[n] : n \in DOMAIN pages}
<1>1. \A n \in DOMAIN pages : n \in Nat /\ pages[n] \in Seq(C)
  OBVIOUS
<1>2. \A s : s \in Seq(C) => IsFiniteSet(DOMAIN s)
  BY FS_Interval
<1>3. IsFiniteSet(D)
  <2> DEFINE rows == [n \in DOMAIN pages |-> {n} \X DOMAIN pages[n]]
  <2>1. \A n \in DOMAIN pages : IsFiniteSet(rows[n])
    BY <1>1, <1>2, FS_Singleton, FS_Product
  <2>2. IsFiniteSet(DOMAIN pages) /\ D = Union(rows, DOMAIN pages)
    BY FS_Interval DEF Union
  <2> HIDE DEF rows, D
  <2> QED
    BY <2>1, <2>2, FiniteUnion
<1>4. ASSUME NEW p \in D
      PROVE  p \in Nat \X Nat /\ pages[p[1]][p[2]] \in C
  <2>1. PICK n \in DOMAIN pages : p \in {n} \X DOMAIN pages[n]
    BY <1>4
  <2>2. p[1] = n /\ p[2] \in DOMAIN pages[n] /\ p = <<p[1], p[2]>>
    BY <2>1
  <2>3. pages[n] \in Seq(C)
    BY <1>1
  <2>4. p[2] \in Nat /\ pages[n][p[2]] \in C
    BY <2>2, <2>3
  <2> QED
    BY <1>1, <2>2, <2>4
<1> QED
  BY <1>3, <1>4 DEF IsReading, Lay

\* What is taken from a reading is one.
LEMMA LessIsRead ==
    ASSUME NEW r, IsReading(r), NEW S, S \subseteq DOMAIN r
    PROVE  IsReading(Restrict(r, S)) /\ DOMAIN Restrict(r, S) = S
<1>1. IsFiniteSet(S)
  BY FS_Subset DEF IsReading
<1> QED
  BY <1>1 DEF IsReading, Restrict

LEMMA FirstOfReads ==
    ASSUME NEW r, IsReading(r), NEW n
    PROVE  IsReading(FirstOf(r, n))
BY LessIsRead DEF FirstOf, RestrictDomain

LEMMA UnseenReads ==
    ASSUME NEW r, IsReading(r), NEW key
    PROVE  IsReading(Unseen(r, key))
BY LessIsRead DEF Unseen, RestrictDomain

LEMMA ListingIsPriced ==
    ASSUME NEW c, Priced(c), NEW type, NEW locality, NEW rooms \in Number
    PROVE  Priced(Listing(c, type, locality, rooms))
BY DEF Priced, Listing

\* A page of cards, as the scripts see it.
LEMMA PagesRead ==
    ASSUME NEW pages \in Seq(Seq(Cards)), pages # <<>>, NEW key
    PROVE  /\ IsReading(Lay(pages)) /\ IsReading(Lay(<<pages[1]>>))
           /\ IsReading(ReadCards(pages, key))
<1>1. \A c \in Cards : Priced(c)
  BY ScrapersAssumption DEF Priced
<1>2. <<pages[1]>> \in Seq(Seq(Cards))
  OBVIOUS
<1>3. IsReading(Lay(pages)) /\ IsReading(Lay(<<pages[1]>>))
  BY <1>1, <1>2, PagesLie
<1>4. IsReading(FirstOf(Unseen(Lay(<<pages[1]>>), key), MaxItems))
  BY <1>3, FirstOfReads, UnseenReads
<1> QED
  BY <1>3, <1>4, LessIsRead DEF ReadCards, RestrictValues

LEMMA Century21Reads ==
    ASSUME NEW pages \in Seq(Seq(Cards)), pages # <<>>, NEW q
    PROVE  IsReading(ScrapeCentury21(pages, q))
<1> DEFINE own(c) == Listing(c, "house", c.locality, c.rooms)
           wanted(c) == /\ ~c.junk /\ c.type = "house"
                        /\ ResolveLocation(q) # None => LocationMatches(ResolveLocation(q), own(c))
           rows == FirstOf(RestrictValues(CollectRows(pages), wanted), MaxItems)
           items == [p \in DOMAIN rows |-> own(rows[p])]
           withRooms == RestrictValues(items, LAMBDA l : ~DroppedForRooms(l, q))
<1>1. IsReading(CollectRows(pages))
  BY PagesRead, UnseenReads, LessIsRead DEF CollectRows, RestrictDomain
<1>2. IsReading(RestrictValues(CollectRows(pages), wanted))
  BY <1>1, LessIsRead DEF RestrictValues
<1>3. IsReading(rows)
  BY <1>2, FirstOfReads
<1> HIDE DEF rows
<1>4. \A c : Priced(c) => c.rooms \in Number
  BY DEF Priced
<1>5. \A p \in DOMAIN items : Priced(items[p])
  BY <1>3, <1>4, ListingIsPriced DEF IsReading
<1>6. IsReading(items)
  BY <1>3, <1>5 DEF IsReading
<1> HIDE DEF items
<1>7. IsReading(withRooms)
  BY <1>6, LessIsRead DEF RestrictValues
<1> QED
  BY <1>6, <1>7 DEF ScrapeCentury21, items, rows

LEMMA RemaxReads ==
    ASSUME NEW pages \in Seq(Seq(Cards)), pages # <<>>, NEW q
    PROVE  IsReading(ScrapeRemax(pages, q))
<1> DEFINE takes(c) == /\ ~c.junk
                       /\ c.type \in {None, "house"} \/ c.kinds \cap {"casa", "ph"} # {}
                       /\ MatchesGeo(c, GeoTokens(q))
                       /\ HasRooms(c, q)
           takesLaxly(c) == /\ ~c.junk
                            /\ c.type = "house"
                            /\ HasRooms(c, q)
                            /\ q.location # None =>
                                   MatchesGeo(c, GeoTokens(q) \cup {"la plata", "buenos aires"})
           read == FirstOf(RestrictDomain(RestrictValues(Lay(pages), takes),
                                          LAMBDA p : \A n \in 1..(p[1] - 1) : pages[n] # <<>>),
                           MaxItems)
           lax == FirstOf(RestrictValues(Lay(<<pages[1]>>), takesLaxly), MaxItems)
           rows == IF DOMAIN read # {} THEN read ELSE lax
<1>1. IsReading(RestrictValues(Lay(pages), takes)) /\ IsReading(RestrictValues(Lay(<<pages[1]>>), takesLaxly))
  BY PagesRead, LessIsRead DEF RestrictValues
<1>2. IsReading(read) /\ IsReading(lax)
  BY <1>1, LessIsRead, FirstOfReads DEF RestrictDomain
<1>3. IsReading(rows)
  BY <1>2
<1>4. ScrapeRemax(pages, q) =
        [p \in DOMAIN rows |-> Listing(rows[p], TypeOf(rows[p]), q.location, rows[p].rooms)]
  BY DEF ScrapeRemax
<1> HIDE DEF rows
<1>5. \A c : Priced(c) => c.rooms \in Number
  BY DEF Priced
<1> QED
  BY <1>3, <1>4, <1>5, ListingIsPriced DEF IsReading

LEMMA ArgenpropReads ==
    ASSUME NEW pages \in Seq(Seq(Cards)), pages # <<>>, NEW q, Asks(q)
    PROVE  IsReading(ScrapeArgenprop(pages, q))
<1>1. \A c : Priced(c) => RoomsOr(c, q.rooms) \in Number
  BY DEF Priced, RoomsOr, Asks
<1> QED
  BY <1>1, PagesRead, ListingIsPriced DEF ScrapeArgenprop, IsReading

LEMMA ZonapropReads ==
    ASSUME NEW pages \in Seq(Seq(Cards)), pages # <<>>, NEW q, Asks(q), NEW fellBack
    PROVE  IsReading(ScrapeZonaprop(pages, q, fellBack))
<1> DEFINE read == ReadCards(pages, "href")
           place(c) == IF q.location # None THEN q.location ELSE c.locality
           rooms(c) == IF fellBack THEN c.rooms ELSE RoomsOr(c, q.rooms)
           made(c) == [Listing(c, "house", place(c), rooms(c))
                       EXCEPT !.places = @ \cup ({c.locality} \ {None})]
<1>1. \A c : Priced(c) => rooms(c) \in Number
  BY DEF Priced, RoomsOr, Asks
<1>2. \A c : Priced(c) => Priced(made(c))
  <2> SUFFICES ASSUME NEW c, Priced(c)
               PROVE  Priced(made(c))
    OBVIOUS
  <2>1. Priced(Listing(c, "house", place(c), rooms(c)))
    BY <1>1, ListingIsPriced
  <2>2. /\ made(c).price = Listing(c, "house", place(c), rooms(c)).price
        /\ made(c).rooms = Listing(c, "house", place(c), rooms(c)).rooms
    BY DEF Listing
  <2> QED
    BY <2>1, <2>2 DEF Priced
<1>3. ScrapeZonaprop(pages, q, fellBack) = [p \in DOMAIN read |-> made(read[p])]
  BY DEF ScrapeZonaprop
<1>4. IsReading(read)
  BY PagesRead
<1> HIDE DEF read, made
<1> QED
  BY <1>2, <1>3, <1>4 DEF IsReading

\* Whatever a scraper has seen, it returns finitely many listings in order.
LEMMA ScrapersRead ==
    ASSUME NEW portal \in Portals, NEW q, Asks(q),
           NEW o, o.pages \in Seq(Seq(Cards)), o.pages # <<>>
    PROVE  IsReading(Scrape(portal, q, o))
BY ZonapropReads, ArgenpropReads, Century21Reads, RemaxReads DEF Portals, Scrape, ScrapeMercadolibre

-----------------------------------------------------------------------------
(* The answer of one portal.                                               *)

LEMMA ShownIsRead ==
    ASSUME NEW portal \in Portals, NEW q, Asks(q), NEW o, IsOutcome(o)
    PROVE  IsReading(Shown(portal, q, o))
<1>1. IsReading(<<>>)
  BY FS_EmptySet DEF IsReading
<1>2. CASE o.kind = "read"
  BY <1>2, ScrapersRead DEF IsOutcome, Shown
<1>3. CASE o.kind = "fixtures"
  <2>1. <<o.items>> \in Seq(Seq(Curated)) /\ \A l \in Curated : Priced(l)
    BY <1>3, ScrapersAssumption DEF IsOutcome, Priced
  <2> QED
    BY <1>3, <2>1, PagesLie DEF Shown
<1> QED
  BY <1>1, <1>2, <1>3 DEF Shown

Failures == {"crashed", "timeout", "cancelled", "refused"}

\* What an answer says of what the portal has shown.
CountsShown(a, shown, q) ==
    /\ IsReading(a.items)
    /\ \A p \in DOMAIN a.items : /\ p \in DOMAIN shown
                                /\ KeptByAdapter(shown[p], q)
                                /\ a.items[p] = shown[p]
    /\ a.raw \in Nat /\ a.dropped \in Nat /\ Count(a.items) \in Nat
    /\ Count(a.items) + a.dropped <= a.raw
    /\ a.raw = 0 <=> DOMAIN shown = {}

Tells(a, shown, o, q) ==
    /\ CountsShown(a, shown, q)
    /\ a.wiped \in BOOLEAN
    /\ a.wiped => DOMAIN shown # {} /\ \A p \in DOMAIN shown : DroppedForRooms(shown[p], q)
    /\ a.raised => a.raw = 0
    /\ a.error = "filtered_rooms_null" => a.wiped
    /\ a.status = "skipped" => o.kind = "disabled"
    /\ a.status = "error" => o.kind \in Failures

LEMMA KeptReads ==
    ASSUME NEW shown, IsReading(shown), NEW q
    PROVE  LET kept == KeptOf(shown, q)
           IN  /\ IsReading(kept)
               /\ DOMAIN kept = {p \in DOMAIN shown : KeptByAdapter(shown[p], q)}
               /\ \A p \in DOMAIN kept : kept[p] = shown[p]
BY LessIsRead DEF KeptOf, RestrictValues, Restrict

\* Those kept and those dropped for their rooms are different listings.
LEMMA KeptAndDropped ==
    ASSUME NEW shown, IsReading(shown), NEW q
    PROVE  /\ Count(shown) \in Nat /\ Count(KeptOf(shown, q)) \in Nat
           /\ RoomsDropped(shown, q) \in Nat
           /\ Count(KeptOf(shown, q)) + RoomsDropped(shown, q) <= Count(shown)
           /\ Count(shown) = 0 <=> DOMAIN shown = {}
           /\ RoomsDropped(shown, q) = Count(shown) =>
                 \A p \in DOMAIN shown : DroppedForRooms(shown[p], q)
<1> DEFINE kept == {p \in DOMAIN shown : KeptByAdapter(shown[p], q)}
           dropped == {p \in DOMAIN shown : DroppedForRooms(shown[p], q)}
<1>1. IsFiniteSet(DOMAIN shown)
  BY DEF IsReading
<1>2. /\ IsFiniteSet(kept) /\ IsFiniteSet(dropped) /\ IsFiniteSet(kept \cup dropped)
      /\ Cardinality(kept \cup dropped) <= Cardinality(DOMAIN shown)
      /\ Cardinality(DOMAIN shown) = Cardinality(dropped) => DOMAIN shown = dropped
  BY <1>1, FS_Subset
<1>3. kept \cap dropped = {}
  BY DEF KeptByAdapter
<1>4. Cardinality(kept \cup dropped) = Cardinality(kept) + Cardinality(dropped) - Cardinality(kept \cap dropped)
  BY <1>2, FS_Union
<1>5. Cardinality(kept \cap dropped) = 0
  BY <1>3, FS_EmptySet
<1>6. Cardinality(kept) \in Nat /\ Cardinality(dropped) \in Nat /\ Cardinality(DOMAIN shown) \in Nat
  BY <1>1, <1>2, FS_CardinalityType
<1>7. /\ Count(shown) = Cardinality(DOMAIN shown) /\ Count(KeptOf(shown, q)) = Cardinality(kept)
      /\ RoomsDropped(shown, q) = Cardinality(dropped)
  BY KeptReads DEF Count, RoomsDropped
<1>8. Cardinality(DOMAIN shown) = 0 <=> DOMAIN shown = {}
  BY <1>1, FS_EmptySet
<1> HIDE DEF kept
<1>9. Count(KeptOf(shown, q)) + RoomsDropped(shown, q) <= Count(shown)
  BY <1>2, <1>4, <1>5, <1>6, <1>7
<1> QED
  BY <1>2, <1>6, <1>7, <1>8, <1>9

LEMMA KeptCounted ==
    ASSUME NEW shown, IsReading(shown), NEW q, NEW a,
           IsReading(a.items), DOMAIN a.items \subseteq DOMAIN KeptOf(shown, q),
           \A p \in DOMAIN a.items : a.items[p] = KeptOf(shown, q)[p],
           a.raw = Count(shown), a.dropped \in Nat,
           Count(KeptOf(shown, q)) + a.dropped <= Count(shown)
    PROVE  CountsShown(a, shown, q)
<1> DEFINE kept == KeptOf(shown, q)
<1>1. /\ IsReading(kept)
      /\ DOMAIN kept = {p \in DOMAIN shown : KeptByAdapter(shown[p], q)}
      /\ \A p \in DOMAIN kept : kept[p] = shown[p]
  BY KeptReads
<1>2. /\ Count(shown) \in Nat /\ Count(kept) \in Nat
      /\ Count(shown) = 0 <=> DOMAIN shown = {}
  BY KeptAndDropped
<1> HIDE DEF kept
<1>3. Count(a.items) \in Nat /\ Count(a.items) <= Count(kept)
  BY <1>1, FS_Subset, FS_CardinalityType DEF IsReading, Count, kept
<1>4. \A p \in DOMAIN a.items : /\ p \in DOMAIN shown
                               /\ KeptByAdapter(shown[p], q)
                               /\ a.items[p] = shown[p]
  BY <1>1 DEF kept
<1>5. Count(kept) + a.dropped <= Count(shown)
  BY DEF kept
<1>6. a.raw \in Nat /\ Count(a.items) + a.dropped <= a.raw /\ (a.raw = 0 <=> DOMAIN shown = {})
  BY <1>2, <1>3, <1>5
<1> QED
  BY <1>3, <1>4, <1>6 DEF CountsShown

LEMMA EmptyTells ==
    ASSUME NEW status, NEW error, NEW o, NEW q, error # "filtered_rooms_null",
           status = "skipped" => o.kind = "disabled",
           status = "error" => o.kind \in Failures
    PROVE  Tells(Empty(status, error), <<>>, o, q)
<1>1. IsReading(<<>>) /\ Count(<<>>) = 0
  BY FS_EmptySet DEF IsReading, Count
<1> QED
  BY <1>1 DEF Tells, CountsShown, Empty

LEMMA RaisedTells ==
    ASSUME NEW o, NEW q, o.kind \in Failures
    PROVE  Tells(RaisedResult, <<>>, o, q)
<1>1. IsReading(<<>>) /\ Count(<<>>) = 0
  BY FS_EmptySet DEF IsReading, Count
<1> QED
  BY <1>1 DEF Tells, CountsShown, RaisedResult, Empty

LEMMA LiveTells ==
    ASSUME NEW shown, IsReading(shown), NEW q, NEW o
    PROVE  Tells(LiveOkResult(shown, q), shown, o, q)
<1> DEFINE a == LiveOkResult(shown, q)
           wipe == /\ q.rooms # None
                   /\ Count(shown) > 0
                   /\ Count(KeptOf(shown, q)) = 0
                   /\ RoomsDropped(shown, q) = Count(shown)
<1>1. /\ a.items = KeptOf(shown, q) /\ a.raw = Count(shown) /\ a.dropped = RoomsDropped(shown, q)
      /\ a.status \in {"ok", "partial"} /\ a.wiped = wipe
      /\ a.error = IF wipe THEN "filtered_rooms_null" ELSE None
      /\ a.raised = FALSE
  BY DEF LiveOkResult
<1>2. None # "filtered_rooms_null"
  BY RequestsAssumption DEF Errors
<1>3. wipe => DOMAIN shown # {} /\ \A p \in DOMAIN shown : DroppedForRooms(shown[p], q)
  BY KeptAndDropped
<1> HIDE DEF a, wipe
<1>4. a.error = "filtered_rooms_null" => a.wiped
  BY <1>1, <1>2
<1>5. /\ a.wiped \in BOOLEAN
      /\ a.wiped => DOMAIN shown # {} /\ \A p \in DOMAIN shown : DroppedForRooms(shown[p], q)
  <2>1. wipe \in BOOLEAN
    BY DEF wipe
  <2> QED
    BY <1>1, <1>3, <2>1, Zenon
<1>6. CountsShown(a, shown, q)
  <2>1. IsReading(a.items) /\ a.items = KeptOf(shown, q)
    BY <1>1, KeptReads
  <2>2. a.dropped \in Nat /\ Count(KeptOf(shown, q)) + a.dropped <= Count(shown)
    BY <1>1, KeptAndDropped
  <2> QED
    BY <1>1, <2>1, <2>2, KeptCounted
<1>7. a.status # "skipped" /\ a.status # "error" /\ ~a.raised
  BY <1>1
<1>8. Tells(a, shown, o, q)
  BY <1>4, <1>5, <1>6, <1>7, Zenon DEF Tells
<1> QED
  BY <1>8 DEF a

LEMMA FixturesTell ==
    ASSUME NEW shown, IsReading(shown), NEW q, NEW o
    PROVE  Tells(FixtureResult(shown, q), shown, o, q)
<1> DEFINE a == FixtureResult(shown, q)
<1>1. /\ a.items = CuratedSlice(shown, q) /\ a.raw = Count(shown) /\ a.dropped = 0
      /\ a.status \in {"ok", "partial"} /\ a.wiped = FALSE /\ a.error = "fixtures_only"
      /\ a.raised = FALSE
  BY DEF FixtureResult
<1> HIDE DEF a
<1>2. 0 \in Nat /\ Count(KeptOf(shown, q)) + 0 <= Count(shown)
  BY KeptAndDropped
<1>3. /\ IsReading(CuratedSlice(shown, q))
      /\ DOMAIN CuratedSlice(shown, q) \subseteq DOMAIN KeptOf(shown, q)
      /\ \A p \in DOMAIN CuratedSlice(shown, q) : CuratedSlice(shown, q)[p] = KeptOf(shown, q)[p]
  BY KeptReads, FirstOfReads DEF CuratedSlice, FirstOf, RestrictDomain, Restrict
<1>4. CountsShown(a, shown, q)
  BY <1>1, <1>2, <1>3, KeptCounted
<1>5. /\ a.wiped \in BOOLEAN /\ ~a.wiped /\ a.error # "filtered_rooms_null"
      /\ a.status # "skipped" /\ a.status # "error" /\ ~a.raised
  BY <1>1
<1>6. Tells(a, shown, o, q)
  BY <1>4, <1>5, Zenon DEF Tells
<1> QED
  BY <1>6 DEF a

\* However the adapter of a portal ends, its answer tells what it was shown.
LEMMA AnswersTell ==
    ASSUME NEW portal \in Portals, NEW q, Asks(q), NEW o, IsOutcome(o) \/ o.kind = "timeout"
    PROVE  Tells(RunAdapter(portal, q, o), Shown(portal, q, o), o, q)
<1>1. CASE o.kind \in {"disabled", "crashed", "timeout", "cancelled"}
  <2>1. Shown(portal, q, o) = <<>>
    BY <1>1 DEF Shown
  <2> QED
    <3>1. CASE o.kind = "disabled"
      BY <2>1, <3>1, EmptyTells DEF RunAdapter
    <3>2. CASE o.kind \in {"crashed", "timeout"}
      BY <2>1, <3>2, EmptyTells DEF RunAdapter, Failures
    <3>3. CASE o.kind = "cancelled"
      BY <2>1, <3>3, RaisedTells DEF RunAdapter, Failures
    <3> QED
      BY <1>1, <3>1, <3>2, <3>3
<1>2. CASE o.kind = "refused" /\ o.code \in Refusals
  <2>1. Shown(portal, q, o) = <<>>
    BY <1>2 DEF Shown
  <2>2. RunAdapter(portal, q, o) = RefusedResult(portal, o.code)
    BY <1>2 DEF RunAdapter
  <2>3. PICK status \in {"partial", "error"} : RefusedResult(portal, o.code) = Empty(status, o.code)
    BY DEF RefusedResult
  <2>4. o.code # "filtered_rooms_null" /\ o.kind \in Failures /\ status # "skipped"
    BY <1>2 DEF Refusals, Failures
  <2> QED
    BY <2>1, <2>2, <2>3, <2>4, EmptyTells
<1>3. CASE IsOutcome(o) /\ o.kind = "read"
  <2>1. /\ RunAdapter(portal, q, o) = LiveOkResult(Scrape(portal, q, o), q)
        /\ Shown(portal, q, o) = Scrape(portal, q, o)
    BY <1>3 DEF RunAdapter, Shown
  <2> QED
    BY <1>3, <2>1, ShownIsRead, LiveTells
<1>4. CASE IsOutcome(o) /\ o.kind = "fixtures"
  <2>1. /\ RunAdapter(portal, q, o) = FixtureResult(Lay(<<o.items>>), q)
        /\ Shown(portal, q, o) = Lay(<<o.items>>)
    BY <1>4 DEF RunAdapter, Shown
  <2> QED
    BY <1>4, <2>1, ShownIsRead, FixturesTell
<1> QED
  BY <1>1, <1>2, <1>3, <1>4 DEF IsOutcome

\* And it has what the adapter had to keep.
LEMMA AnswersHaveTheirDue ==
    ASSUME NEW portal \in Portals, NEW q, NEW o, IsOutcome(o) \/ o.kind = "timeout"
    PROVE  Range(Due(portal, q, o)) \subseteq Range(RunAdapter(portal, q, o).items)
<1>1. CASE o.kind = "read"
  <2>1. RunAdapter(portal, q, o) = LiveOkResult(Shown(portal, q, o), q)
    BY <1>1 DEF RunAdapter, Shown
  <2> QED
    BY <1>1, <2>1 DEF Due, LiveOkResult
<1>2. CASE o.kind = "fixtures"
  <2>1. RunAdapter(portal, q, o) = FixtureResult(Shown(portal, q, o), q)
    BY <1>2 DEF RunAdapter, Shown
  <2> QED
    BY <1>2, <2>1 DEF Due, FixtureResult
<1>3. CASE o.kind \notin {"read", "fixtures"}
  <2>1. Due(portal, q, o) = KeptOf(<<>>, q)
    BY <1>3 DEF Due, Shown
  <2>2. DOMAIN KeptOf(<<>>, q) = {}
    BY DEF KeptOf, RestrictValues, Restrict
  <2> QED
    BY <2>1, <2>2 DEF Range
<1> QED
  BY <1>1, <1>2, <1>3
-----------------------------------------------------------------------------
(* The merged listings.                                                    *)

\* What portal i showed, place by place.
ShownBy(i) == Shown(request.portals[i], f, outcome[i])

\* Every portal has answered, each as its outcome has it.
Answered(ans) ==
    /\ request.portals \in Seq(Portals) /\ Asks(f)
    /\ DOMAIN ans = Asked
    /\ \A i \in Asked : Tells(ans[i], ShownBy(i), outcome[i], f)

LEMMA PlacesAre ==
    ASSUME NEW ans, Answered(ans), NEW p \in Places(ans)
    PROVE  /\ p = <<p[1], p[2]>> /\ p[1] \in Asked
           /\ p[2] \in DOMAIN ans[p[1]].items /\ p[2] \in Nat \X Nat
           /\ p[2] \in DOMAIN ShownBy(p[1])
           /\ At(ans, p).portal = request.portals[p[1]]
           /\ At(ans, p).listing = ShownBy(p[1])[p[2]]
           /\ KeptByAdapter(At(ans, p).listing, f)
           /\ PassesPostFilters(At(ans, p).listing, f)
<1>1. PICK i \in Asked : p \in {i} \X DOMAIN ans[i].items
  BY DEF Places
<1>2. p = <<p[1], p[2]>> /\ p[1] = i /\ p[2] \in DOMAIN ans[i].items
  BY <1>1
<1>3. CountsShown(ans[i], ShownBy(i), f)
  BY DEF Answered, Tells
<1>4. /\ IsReading(ans[i].items)
      /\ p[2] \in DOMAIN ShownBy(i) /\ KeptByAdapter(ShownBy(i)[p[2]], f)
      /\ ans[i].items[p[2]] = ShownBy(i)[p[2]]
  BY <1>2, <1>3 DEF CountsShown
<1>5. p[2] \in Nat \X Nat /\ Priced(ans[i].items[p[2]])
  BY <1>2, <1>4 DEF IsReading
<1>6. At(ans, p).portal = request.portals[i] /\ At(ans, p).listing = ans[i].items[p[2]]
  BY <1>2 DEF At
<1>7. PassesPostFilters(ans[i].items[p[2]], f)
  BY <1>4, <1>5, FiltersAgree DEF Answered
<1> QED
  BY <1>2, <1>4, <1>5, <1>6, <1>7

LEMMA PlacesAreFinite ==
    ASSUME NEW ans, Answered(ans)
    PROVE  IsFiniteSet(Places(ans))
<1> DEFINE of == [i \in Asked |-> {i} \X DOMAIN ans[i].items]
<1>1. IsFiniteSet(Asked)
  BY FS_Interval DEF Asked, Answered
<1>2. ASSUME NEW i \in Asked
      PROVE  IsFiniteSet(of[i])
  <2>1. IsFiniteSet(DOMAIN ans[i].items)
    BY DEF Answered, Tells, CountsShown, IsReading
  <2> QED
    BY <2>1, FS_Singleton, FS_Product
<1>3. DOMAIN of = Asked /\ Places(ans) = Union(of, Asked)
  BY DEF Places, Union
<1> HIDE DEF of
<1> QED
  BY <1>1, <1>2, <1>3, FiniteUnion

LEMMA MergedAreFinite ==
    ASSUME NEW ans, Answered(ans)
    PROVE  IsFiniteSet(Merged(ans))
<1> DEFINE rows == [p \in Places(ans) |-> At(ans, p)]
<1>1. IsFiniteSet(Range(rows))
  BY PlacesAreFinite, FiniteRange
<1>2. Merged(ans) \subseteq Range(rows)
  BY DEF Merged, Range
<1> QED
  BY <1>1, <1>2, FS_Subset

\* Of some places one comes first: the least portal, page and row.
LEMMA FirstPlace ==
    ASSUME NEW S, S # {},
           \A p \in S : p[1] \in Nat /\ p[2] \in Nat \X Nat
    PROVE  \E m \in S : \A o \in S : ~Sooner(o, m)
<1>1. PICK i \in {p[1] : p \in S} : \A k \in {p[1] : p \in S} : i <= k
  <2>1. {p[1] : p \in S} \in SUBSET Nat /\ {p[1] : p \in S} # {}
    OBVIOUS
  <2> QED
    BY <2>1, LeastNumber
<1> DEFINE T == {p \in S : p[1] = i}
<1>2. PICK n \in {p[2][1] : p \in T} : \A k \in {p[2][1] : p \in T} : n <= k
  <2>1. {p[2][1] : p \in T} \in SUBSET Nat /\ {p[2][1] : p \in T} # {}
    BY <1>1
  <2> HIDE DEF T
  <2> QED
    BY <2>1, LeastNumber
<1> DEFINE U == {p \in T : p[2][1] = n}
<1>3. PICK r \in {p[2][2] : p \in U} : \A k \in {p[2][2] : p \in U} : r <= k
  <2>1. {p[2][2] : p \in U} \in SUBSET Nat /\ {p[2][2] : p \in U} # {}
    BY <1>2
  <2> HIDE DEF U
  <2> QED
    BY <2>1, LeastNumber
<1>4. PICK m \in S : m[1] = i /\ m[2][1] = n /\ m[2][2] = r
  BY <1>3
<1>5. ASSUME NEW o \in S, Sooner(o, m)
      PROVE  FALSE
  <2>1. o[1] \in Nat /\ o[2][1] \in Nat /\ o[2][2] \in Nat /\ i \in Nat /\ n \in Nat /\ r \in Nat
    BY <1>4
  <2>2. i <= o[1]
    BY <1>1
  <2>3. o[1] = i
    BY <1>4, <1>5, <2>1, <2>2 DEF Sooner
  <2>4. n <= o[2][1]
    BY <1>2, <2>3
  <2>5. o[2][1] = n
    BY <1>4, <1>5, <2>1, <2>3, <2>4 DEF Sooner, Earlier
  <2>6. r <= o[2][2]
    BY <1>3, <2>3, <2>5
  <2> QED
    BY <1>4, <1>5, <2>1, <2>3, <2>5, <2>6 DEF Sooner, Earlier
<1> QED
  BY <1>4, <1>5

\* No listing is lost by the merge: one of its portal and identifier is shown.
LEMMA MergeKeepsKeys ==
    ASSUME NEW ans, Answered(ans), NEW p \in Places(ans)
    PROVE  \E r \in Merged(ans) : SameKey(r, At(ans, p))
<1> DEFINE S == {o \in Places(ans) : SameKey(At(ans, o), At(ans, p))}
<1>1. p \in S
  BY DEF SameKey
<1>2. \A o \in S : o[1] \in Nat /\ o[2] \in Nat \X Nat
  BY PlacesAre DEF Answered, Asked
<1>3. PICK m \in S : \A o \in S : ~Sooner(o, m)
  <2> HIDE DEF S
  <2> QED
    BY <1>1, <1>2, FirstPlace
<1>4. ASSUME NEW o \in Places(ans), Sooner(o, m), SameKey(At(ans, o), At(ans, m))
      PROVE  FALSE
  <2>1. SameKey(At(ans, o), At(ans, p))
    BY <1>3, <1>4 DEF SameKey
  <2> QED
    BY <1>3, <1>4, <2>1
<1>5. At(ans, m) \in Merged(ans)
  BY <1>4 DEF Merged
<1> QED
  BY <1>5

LEMMA MergedAre ==
    ASSUME NEW ans, Answered(ans), NEW r \in Merged(ans)
    PROVE  \E p \in Places(ans) : r = At(ans, p)
BY DEF Merged

\* The second filter has nothing to drop.
LEMMA NothingToDrop ==
    ASSUME NEW ans, Answered(ans)
    PROVE  FilterMerged(Merged(ans)) = Merged(ans)
BY MergedAre, PlacesAre DEF FilterMerged
-----------------------------------------------------------------------------
(* The reply.                                                              *)

RowsOf(ans, i) == OfPortal(Merged(ans), request.portals[i])

\* The recount finds nothing that the adapter has not told.
LEMMA SlicesTell ==
    ASSUME NEW ans, Answered(ans), NEW i \in Asked
    PROVE  LET s == Slice(i, ans, Merged(ans), Merged(ans))
           IN  /\ s.portal = request.portals[i]
               /\ s.status = ans[i].status /\ s.error = ans[i].error
               /\ s.raw = ans[i].raw /\ s.dropped = ans[i].dropped
               /\ s.after = Cardinality(RowsOf(ans, i))
               /\ s.wiped <=> ans[i].wiped
<1> DEFINE own == RowsOf(ans, i)
           wipe == f.rooms # None /\ own # {} /\ Cardinality(own) = 0 /\ BelowMin(own) = own
           s == [portal |-> request.portals[i],
                 status |-> IF wipe /\ ans[i].status = "ok" THEN "partial" ELSE ans[i].status,
                 error |-> IF wipe /\ ans[i].error = None THEN "filtered_rooms_null" ELSE ans[i].error,
                 raw |-> ans[i].raw,
                 after |-> Cardinality(own),
                 dropped |-> IF wipe /\ ans[i].dropped < Cardinality(own) THEN Cardinality(own)
                             ELSE ans[i].dropped,
                 wiped |-> ans[i].wiped \/ wipe]
<1>1. Slice(i, ans, Merged(ans), Merged(ans)) = s
  BY DEF Slice, RowsOf
<1>2. ~wipe
  <2>1. \A r \in own : PassesRoomsMin(r.listing, f)
    BY NothingToDrop DEF FilterMerged, RowsOf, OfPortal, PassesPostFilters
  <2>2. BelowMin(own) = {}
    BY <2>1 DEF BelowMin
  <2> QED
    BY <2>2
<1> HIDE DEF wipe, own
<1>3. /\ s.portal = request.portals[i]
      /\ s.status = ans[i].status /\ s.error = ans[i].error
      /\ s.raw = ans[i].raw /\ s.dropped = ans[i].dropped
      /\ s.after = Cardinality(own)
      /\ s.wiped <=> ans[i].wiped
  BY <1>2
<1> QED
  BY <1>1, <1>3 DEF own

\* A portal shows no more listings than its adapter has kept.
LEMMA RowsAreKept ==
    ASSUME NEW ans, Answered(ans), IsInjective(request.portals), NEW i \in Asked
    PROVE  Cardinality(RowsOf(ans, i)) \in Nat /\ Cardinality(RowsOf(ans, i)) <= Count(ans[i].items)
<1> DEFINE rows == [p \in DOMAIN ans[i].items |-> At(ans, <<i, p>>)]
<1>1. ASSUME NEW r \in RowsOf(ans, i)
      PROVE  r \in Range(rows)
  <2>1. PICK p \in Places(ans) : r = At(ans, p)
    BY MergedAre DEF RowsOf, OfPortal
  <2>2. p = <<p[1], p[2]>> /\ p[1] \in Asked /\ p[2] \in DOMAIN ans[p[1]].items
        /\ request.portals[p[1]] = request.portals[i]
    BY <2>1, PlacesAre DEF RowsOf, OfPortal
  <2>3. p[1] = i
    BY <2>2 DEF IsInjective, Asked
  <2>4. p = <<i, p[2]>> /\ p[2] \in DOMAIN ans[i].items
    BY <2>2, <2>3
  <2> QED
    BY <2>1, <2>4 DEF Range
<1>2. IsFiniteSet(DOMAIN rows) /\ Cardinality(DOMAIN rows) = Count(ans[i].items)
      /\ Count(ans[i].items) \in Nat
  BY DEF Answered, Tells, CountsShown, IsReading, Count
<1> HIDE DEF rows
<1>3. IsFiniteSet(Range(rows)) /\ Cardinality(Range(rows)) <= Cardinality(DOMAIN rows)
  BY <1>2, FiniteRange
<1>4. RowsOf(ans, i) \in SUBSET Range(rows)
  BY <1>1
<1>5. /\ Cardinality(RowsOf(ans, i)) <= Cardinality(Range(rows))
      /\ Cardinality(RowsOf(ans, i)) \in Nat /\ Cardinality(Range(rows)) \in Nat
  BY <1>3, <1>4, FS_Subset, FS_CardinalityType
<1> QED
  BY <1>2, <1>3, <1>5

\* The listings of the portals are together all of them.
LEMMA RowsAddUp ==
    ASSUME NEW ans, Answered(ans), IsInjective(request.portals)
    PROVE  SumFunction([i \in Asked |-> Cardinality(RowsOf(ans, i))]) = Cardinality(Merged(ans))
<1> DEFINE fun == [i \in Asked |-> Cardinality(RowsOf(ans, i))]
           K == [i \in Asked |-> RowsOf(ans, i)]
<1>1. IsFiniteSet(Asked)
  BY FS_Interval DEF Asked, Answered
<1>2. \A i \in Asked : IsFiniteSet(K[i]) /\ fun[i] = Cardinality(K[i])
  BY MergedAreFinite, FS_Subset DEF RowsOf, OfPortal
<1>3. \A i, j \in Asked : i # j => K[i] \cap K[j] = {}
  BY DEF RowsOf, OfPortal, IsInjective, Asked
<1>4. Union(K, Asked) = Merged(ans)
  <2>1. ASSUME NEW r \in Merged(ans)
        PROVE  \E i \in Asked : r \in K[i]
    BY MergedAre, PlacesAre DEF RowsOf, OfPortal
  <2>2. \A i \in Asked : K[i] \subseteq Merged(ans)
    BY DEF RowsOf, OfPortal
  <2> HIDE DEF K
  <2> QED
    BY <2>1, <2>2 DEF Union
<1>5. DOMAIN fun = Asked
  OBVIOUS
<1> HIDE DEF fun, K
<1>6. SumFunction(fun) = Cardinality(Union(K, DOMAIN fun))
  BY <1>1, <1>2, <1>3, <1>5, SumCounts
<1> QED
  BY <1>4, <1>5, <1>6 DEF fun

\* What a reply says, in terms of the answers it is made of.
Says(r, ans) ==
    /\ r.items = Merged(ans)
    /\ DOMAIN r.slices = Asked
    /\ \A i \in Asked : /\ r.slices[i].portal = request.portals[i]
                        /\ r.slices[i].status = ans[i].status
                        /\ r.slices[i].error = ans[i].error
                        /\ r.slices[i].raw = ans[i].raw
                        /\ r.slices[i].dropped = ans[i].dropped
                        /\ r.slices[i].after = Cardinality(RowsOf(ans, i))
                        /\ r.slices[i].wiped <=> ans[i].wiped
    /\ r.raw \in Nat
    /\ r.raw = 0 => \A i \in Asked : ans[i].raw = 0 \/ Overwritten(i, ans)
    /\ IsInjective(request.portals) => r.raw = SumFunction([i \in Asked |-> ans[i].raw])
    /\ r.wiped <=> \E i \in Asked : ans[i].wiped
    /\ r.kind = EmptyStateFor(Cardinality(r.items), r.slices, r.wiped, r.raw)

\* The count kept for a portal is that of its last answer.
LEMMA LastIsCounted ==
    ASSUME NEW ans, Answered(ans), NEW i \in Asked
    PROVE  /\ RawByPortal(i, ans) \in Nat
           /\ RawByPortal(i, ans) = 0 => ans[i].raw = 0 \/ Overwritten(i, ans)
           /\ IsInjective(request.portals) => RawByPortal(i, ans) = ans[i].raw
<1> DEFINE last == {j \in Asked : /\ request.portals[j] = request.portals[i]
                                  /\ ~ans[j].raised /\ ~Overwritten(j, ans)}
           it == CHOOSE j \in last : TRUE
<1>1. RawByPortal(i, ans) = IF last = {} THEN 0 ELSE ans[it].raw
  BY DEF RawByPortal
<1>2. last # {} => it \in last
  OBVIOUS
<1>3. /\ \A j \in Asked : j \in Nat /\ ans[j].raw \in Nat
      /\ ans[i].raised => ans[i].raw = 0
  BY DEF Answered, Tells, CountsShown, Asked
<1>4. ASSUME ~ans[i].raised, ~Overwritten(i, ans), NEW j \in last
      PROVE  j = i
  <2>1. ~(j > i) /\ ~(i > j)
    BY <1>4 DEF Overwritten
  <2> QED
    BY <1>3, <2>1
<1>5. ~ans[i].raised /\ ~Overwritten(i, ans) => i \in last
  OBVIOUS
<1>6. ASSUME IsInjective(request.portals)
      PROVE  ~Overwritten(i, ans) /\ last \subseteq {i} /\ (i \in last => ~ans[i].raised)
  BY <1>3, <1>6 DEF Overwritten, IsInjective, Asked
<1> HIDE DEF it, last
<1>7. RawByPortal(i, ans) \in Nat
  BY <1>1, <1>2, <1>3 DEF last
<1>8. RawByPortal(i, ans) = 0 => ans[i].raw = 0 \/ Overwritten(i, ans)
  BY <1>1, <1>2, <1>3, <1>4, <1>5
<1>9. IsInjective(request.portals) => RawByPortal(i, ans) = ans[i].raw
  BY <1>1, <1>2, <1>3, <1>5, <1>6
<1> QED
  BY <1>7, <1>8, <1>9

\* Nothing is merged when nothing has been read.
LEMMA NoneReadNoneMerged ==
    ASSUME NEW ans, Answered(ans), \A i \in Asked : ans[i].raw = 0
    PROVE  Merged(ans) = {}
<1>1. ASSUME NEW p \in Places(ans)
      PROVE  FALSE
  BY PlacesAre DEF Answered, Tells, CountsShown
<1> QED
  BY <1>1, MergedAre

LEMMA RepliesSay ==
    ASSUME NEW ans, Answered(ans)
    PROVE  Says(SearchResponse(ans), ans)
<1> DEFINE merged == Merged(ans)
           slices == [i \in Asked |-> Slice(i, ans, merged, merged)]
           read == SumFunction([i \in Asked |-> RawByPortal(i, ans)])
           raw == IF read = 0 THEN Cardinality(merged) ELSE read
           wiped == \/ \E i \in Asked : slices[i].wiped
                    \/ /\ f.rooms # None
                       /\ raw > 0
                       /\ merged = {}
                       /\ merged # {}
                       /\ BelowMin(merged) = merged
           r == [items |-> merged, slices |-> slices, raw |-> raw, wiped |-> wiped,
                 kind |-> EmptyStateFor(Cardinality(merged), slices, wiped, raw)]
<1>1. SearchResponse(ans) = r
  BY NothingToDrop DEF SearchResponse
<1>2. DOMAIN slices = Asked
  OBVIOUS
<1>3. \A i \in Asked : slices[i] = Slice(i, ans, merged, merged)
  OBVIOUS
<1> HIDE DEF slices
<1>4. ASSUME NEW i \in Asked
      PROVE  /\ slices[i].portal = request.portals[i]
             /\ slices[i].status = ans[i].status
             /\ slices[i].error = ans[i].error
             /\ slices[i].raw = ans[i].raw
             /\ slices[i].dropped = ans[i].dropped
             /\ slices[i].after = Cardinality(RowsOf(ans, i))
             /\ slices[i].wiped <=> ans[i].wiped
  BY <1>3, SlicesTell
<1>5. /\ read \in Nat
      /\ read = 0 => \A i \in Asked : ans[i].raw = 0 \/ Overwritten(i, ans)
      /\ IsInjective(request.portals) => read = SumFunction([i \in Asked |-> ans[i].raw])
  <2> DEFINE fun == [i \in Asked |-> RawByPortal(i, ans)]
  <2>1. IsFiniteSet(DOMAIN fun)
    BY FS_Interval DEF Asked, Answered
  <2>2. \A i \in Asked : fun[i] \in Nat /\ (fun[i] = 0 => ans[i].raw = 0 \/ Overwritten(i, ans))
    BY LastIsCounted
  <2>3. IsInjective(request.portals) => fun = [i \in Asked |-> ans[i].raw]
    BY LastIsCounted
  <2>4. DOMAIN fun = Asked
    OBVIOUS
  <2> HIDE DEF fun
  <2>5. SumFunction(fun) \in Nat /\ (SumFunction(fun) = 0 => \A i \in Asked : fun[i] = 0)
    BY <2>1, <2>2, <2>4, SumOfNumbers
  <2> QED
    BY <2>2, <2>3, <2>5 DEF fun
<1>6. /\ raw \in Nat
      /\ raw = 0 => \A i \in Asked : ans[i].raw = 0 \/ Overwritten(i, ans)
      /\ IsInjective(request.portals) => raw = SumFunction([i \in Asked |-> ans[i].raw])
  <2>1. Cardinality(merged) \in Nat
    BY MergedAreFinite, FS_CardinalityType
  <2>2. ASSUME IsInjective(request.portals), read = 0
        PROVE  Cardinality(merged) = 0
    <3>1. \A i \in Asked : ~Overwritten(i, ans)
      BY <2>2 DEF Overwritten, IsInjective, Asked, Answered
    <3>2. merged = {}
      BY <1>5, <2>2, <3>1, NoneReadNoneMerged
    <3> QED
      BY <3>2, FS_EmptySet
  <2> HIDE DEF read, merged
  <2> QED
    BY <1>5, <2>1, <2>2
<1>7. wiped <=> \E i \in Asked : ans[i].wiped
  BY <1>4
<1> HIDE DEF raw, wiped, merged
<1>8. /\ r.items = merged /\ r.slices = slices /\ r.raw = raw /\ r.wiped = wiped
      /\ r.kind = EmptyStateFor(Cardinality(merged), slices, wiped, raw)
  OBVIOUS
<1> HIDE DEF r
<1>9. Says(r, ans)
  BY <1>2, <1>4, <1>6, <1>7, <1>8 DEF Says, merged
<1> QED
  BY <1>1, <1>9
-----------------------------------------------------------------------------
(* The search.                                                             *)

\* An answer is what RunAdapter makes of the outcome, and the reply what
\* SearchResponse makes of the answers.
AnswersFollow ==
    \A i \in DOMAIN outcome :
        /\ IsOutcome(outcome[i]) \/ outcome[i].kind = "timeout"
        /\ answer[i] = RunAdapter(request.portals[i], f, outcome[i])

ReplyFollows == reply # None => reply = SearchResponse(answer)

SearchInv == TypeOK /\ AnswersFollow /\ ReplyFollows

LEMMA RequestsAsk ==
    ASSUME request \in Requests
    PROVE  /\ request.portals \in Seq(Portals) /\ Asks(f)
           /\ \A i \in Asked : /\ request.portals[i] \in Portals
                               /\ \A o \in Outcomes(request, request.portals[i]) : IsOutcome(o)
<1>1. request.portals \in Seq(Portals) /\ Asks(f)
  BY RequestsAssumption DEF Asks, f
<1>2. \A i \in Asked : request.portals[i] \in Portals
  BY <1>1 DEF Asked
<1> QED
  BY <1>1, <1>2, RequestsAssumption

\* The reply depends on the request and the answers alone.
LEMMA SameReply ==
    ASSUME UNCHANGED <<request, answer>>
    PROVE  SearchResponse(answer)' = SearchResponse(answer)
<1> DEFINE merged == Merged(answer)
           kept == FilterMerged(merged)
           cut == [i \in Asked |-> Slice(i, answer, merged, kept)]
           read == SumFunction([i \in Asked |-> RawByPortal(i, answer)])
           low == BelowMin(merged)
           made(m, k, slices, n, b, q, asked) ==
              LET raw == IF n = 0 THEN Cardinality(m) ELSE n
                  wiped == \/ \E i \in asked : slices[i].wiped
                           \/ q.rooms # None /\ raw > 0 /\ k = {} /\ m # {} /\ b = m
              IN  [items |-> k, slices |-> slices, raw |-> raw, wiped |-> wiped,
                   kind |-> EmptyStateFor(Cardinality(k), slices, wiped, raw)]
<1>1. request' = request /\ answer' = answer /\ f' = f /\ Asked' = Asked
  BY DEF f, Asked
<1>2. merged' = merged
  BY <1>1 DEF Merged, Places, At
<1>3. kept' = kept /\ low' = low
  <2> HIDE DEF merged
  <2> QED
    BY <1>1, <1>2 DEF FilterMerged, BelowMin
<1>4. cut' = cut
  <2> HIDE DEF merged, kept
  <2>1. \A i : Slice(i, answer, merged, kept)' = Slice(i, answer, merged, kept)
    BY <1>1, <1>2, <1>3 DEF Slice, BelowMin
  <2> QED
    BY <1>1, <2>1
<1>5. read' = read
  <2>1. \A i : RawByPortal(i, answer)' = RawByPortal(i, answer)
    BY <1>1 DEF RawByPortal, Overwritten
  <2> QED
    BY <1>1, <2>1
<1>6. SearchResponse(answer) = made(merged, kept, cut, read, low, f, Asked)
  BY DEF SearchResponse
<1>7. SearchResponse(answer)' = made(merged', kept', cut', read', low', f', Asked')
  BY DEF SearchResponse
<1> HIDE DEF merged, kept, cut, read, low, made
<1> QED
  BY <1>1, <1>2, <1>3, <1>4, <1>5, <1>6, <1>7

LEMMA EndsStep ==
    ASSUME SearchInv, NEW i, NEW o, IsOutcome(o) \/ o.kind = "timeout", Ends(i, o)
    PROVE  SearchInv'
<1>1. /\ request' = request /\ reply' = reply /\ f' = f /\ Asked' = Asked
      /\ i \in Asked /\ i \notin DOMAIN outcome /\ UnderWay # {}
  BY DEF Ends, UnderWay, Asked, f
<1>2. /\ DOMAIN outcome' = DOMAIN outcome \cup {i} /\ outcome'[i] = o
      /\ \A j \in DOMAIN outcome : outcome'[j] = outcome[j]
  BY <1>1 DEF Ends, With
<1>3. /\ DOMAIN answer' = DOMAIN answer \cup {i}
      /\ answer'[i] = RunAdapter(request.portals[i], f, o)
      /\ \A j \in DOMAIN answer : answer'[j] = answer[j]
  BY <1>1 DEF Ends, With, SearchInv, TypeOK
<1>4. reply = None
  BY <1>1 DEF SearchInv, TypeOK
<1>5. TypeOK'
  BY <1>1, <1>2, <1>3, <1>4 DEF SearchInv, TypeOK
<1>6. AnswersFollow'
  <2>1. \A j \in DOMAIN outcome' : /\ IsOutcome(outcome'[j]) \/ outcome'[j].kind = "timeout"
                                   /\ answer'[j] = RunAdapter(request.portals[j], f, outcome'[j])
    BY <1>2, <1>3 DEF SearchInv, TypeOK, AnswersFollow
  <2> QED
    BY <1>1, <2>1 DEF AnswersFollow
<1>7. ReplyFollows'
  BY <1>1, <1>4 DEF ReplyFollows
<1> QED
  BY <1>5, <1>6, <1>7 DEF SearchInv

LEMMA ReplyStep ==
    ASSUME SearchInv, Reply
    PROVE  SearchInv'
<1>1. UNCHANGED <<request, outcome, answer>> /\ reply' = SearchResponse(answer) /\ DOMAIN answer = Asked
  BY DEF Reply
<1>2. f' = f /\ Asked' = Asked /\ UnderWay' = UnderWay
  BY <1>1 DEF f, Asked, UnderWay
<1>3. SearchResponse(answer)' = SearchResponse(answer)
  BY <1>1, SameReply
<1>4. UnderWay = {}
  BY <1>1 DEF SearchInv, TypeOK, UnderWay
<1> QED
  BY <1>1, <1>2, <1>3, <1>4 DEF SearchInv, TypeOK, AnswersFollow, ReplyFollows

LEMMA Stays ==
    ASSUME SearchInv, UNCHANGED vars
    PROVE  SearchInv'
<1>1. UNCHANGED <<request, outcome, answer, reply>>
  BY DEF vars
<1>2. f' = f /\ Asked' = Asked /\ UnderWay' = UnderWay /\ SearchResponse(answer)' = SearchResponse(answer)
  BY <1>1, SameReply DEF f, Asked, UnderWay
<1> QED
  BY <1>1, <1>2 DEF SearchInv, TypeOK, AnswersFollow, ReplyFollows

LEMMA SearchInvHolds == Spec => []SearchInv
<1>1. Init => SearchInv
  BY DEF Init, SearchInv, TypeOK, AnswersFollow, ReplyFollows
<1>2. SearchInv /\ [Next]_vars => SearchInv'
  <2> SUFFICES ASSUME SearchInv, [Next]_vars
               PROVE  SearchInv'
    OBVIOUS
  <2>1. CASE Reply
    BY <2>1, ReplyStep
  <2>2. ASSUME NEW i \in Asked, AdapterEnds(i)
        PROVE  SearchInv'
    <3>1. PICK o \in Outcomes(request, request.portals[i]) : Ends(i, o)
      BY <2>2 DEF AdapterEnds
    <3>2. IsOutcome(o)
      BY RequestsAsk DEF SearchInv, TypeOK
    <3> QED
      BY <3>1, <3>2, EndsStep
  <2>3. ASSUME NEW i \in Asked, TimesOut(i)
        PROVE  SearchInv'
    BY <2>3, EndsStep DEF TimesOut
  <2>4. CASE UNCHANGED vars
    BY <2>4, Stays
  <2> QED
    BY <2>1, <2>2, <2>3, <2>4 DEF Next
<1> QED
  BY <1>1, <1>2, PTL DEF Spec

\* A reply says what the portals have shown.
LEMMA RepliesFollow ==
    ASSUME SearchInv, reply # None
    PROVE  Answered(answer) /\ Says(reply, answer)
<1>1. DOMAIN outcome = Asked /\ DOMAIN answer = Asked
  BY DEF SearchInv, TypeOK, UnderWay
<1>2. request.portals \in Seq(Portals) /\ Asks(f) /\ \A i \in Asked : request.portals[i] \in Portals
  BY RequestsAsk DEF SearchInv, TypeOK
<1>3. \A i \in Asked : Tells(answer[i], ShownBy(i), outcome[i], f)
  BY <1>1, <1>2, AnswersTell DEF SearchInv, AnswersFollow, ShownBy
<1>4. Answered(answer)
  BY <1>1, <1>2, <1>3 DEF Answered
<1> QED
  BY <1>4, RepliesSay DEF SearchInv, ReplyFollows

\* Every portal asked has an answer once it has ended, and there is no reply
\* before all have.
THEOREM SearchTypeCorrect == Spec => []TypeOK
<1>1. SearchInv => TypeOK
  BY DEF SearchInv
<1> QED
  BY <1>1, SearchInvHolds, PTL

\* However a portal fails, the reply shows what the others have read and the
\* filters keep, and nothing else.
THEOREM FailuresStayContained == Spec => []FailuresAreContained
<1>1. ASSUME SearchInv, reply # None
      PROVE  \A i \in Asked : \A l \in DueOf(i) :
                \E r \in reply.items : r.portal = request.portals[i] /\ r.listing.id = l.id
  <2>1. Answered(answer) /\ reply.items = Merged(answer)
    BY <1>1, RepliesFollow DEF Says
  <2> SUFFICES ASSUME NEW i \in Asked, NEW l \in DueOf(i)
               PROVE  \E r \in reply.items : r.portal = request.portals[i] /\ r.listing.id = l.id
    OBVIOUS
  <2>2. l \in Range(answer[i].items)
    <3>1. i \in DOMAIN outcome /\ request.portals[i] \in Portals
      BY <1>1, RequestsAsk DEF SearchInv, TypeOK, UnderWay
    <3>2. /\ IsOutcome(outcome[i]) \/ outcome[i].kind = "timeout"
          /\ answer[i] = RunAdapter(request.portals[i], f, outcome[i])
      BY <1>1, <3>1 DEF SearchInv, AnswersFollow
    <3> QED
      BY <3>1, <3>2, AnswersHaveTheirDue DEF DueOf
  <2>3. PICK p \in DOMAIN answer[i].items : answer[i].items[p] = l
    BY <2>2 DEF Range
  <2>4. <<i, p>> \in Places(answer)
    BY <2>3 DEF Places
  <2>5. At(answer, <<i, p>>).portal = request.portals[i] /\ At(answer, <<i, p>>).listing = l
    BY <2>3 DEF At
  <2> QED
    BY <2>1, <2>4, <2>5, MergeKeepsKeys DEF SameKey
<1>2. ASSUME SearchInv, reply # None
      PROVE  \A r \in reply.items : /\ PassesPostFilters(r.listing, f)
                                    /\ \E i \in Asked : /\ request.portals[i] = r.portal
                                                        /\ r.listing \in ReadBy(i)
  <2>1. Answered(answer) /\ reply.items = Merged(answer)
    BY <1>2, RepliesFollow DEF Says
  <2> SUFFICES ASSUME NEW r \in Merged(answer)
               PROVE  /\ PassesPostFilters(r.listing, f)
                      /\ \E i \in Asked : request.portals[i] = r.portal /\ r.listing \in ReadBy(i)
    BY <2>1
  <2>2. PICK p \in Places(answer) : r = At(answer, p)
    BY <2>1, MergedAre
  <2> QED
    BY <2>1, <2>2, PlacesAre DEF ReadBy, ShownBy, Range
<1>3. SearchInv => FailuresAreContained
  BY <1>1, <1>2 DEF FailuresAreContained
<1> QED
  BY <1>3, SearchInvHolds, PTL

\* The slices are the portals asked, in their order, and their counts add up to
\* the listings shown and to those read unless a portal is asked twice.
THEOREM SlicesAddUp == Spec => []CountsAddUp
<1>1. ASSUME SearchInv, reply # None
      PROVE  [i \in DOMAIN reply.slices |-> reply.slices[i].portal] = request.portals
  BY <1>1, RepliesFollow DEF Answered, Says, Asked
<1>2. ASSUME SearchInv, reply # None, IsInjective(request.portals)
      PROVE  Total(reply.slices, "after") = Cardinality(reply.items)
  <2>1. Answered(answer) /\ Says(reply, answer)
    BY <1>2, RepliesFollow
  <2>2. [i \in DOMAIN reply.slices |-> reply.slices[i]["after"]] =
           [i \in Asked |-> Cardinality(RowsOf(answer, i))]
    BY <2>1 DEF Says
  <2>3. SumFunction([i \in Asked |-> Cardinality(RowsOf(answer, i))]) = Cardinality(Merged(answer))
    BY <1>2, <2>1, RowsAddUp
  <2> QED
    BY <2>1, <2>2, <2>3 DEF Total, Says
<1>3. ASSUME SearchInv, reply # None, IsInjective(request.portals)
      PROVE  Total(reply.slices, "raw") = reply.raw
  <2>1. Says(reply, answer)
    BY <1>3, RepliesFollow
  <2>2. [i \in DOMAIN reply.slices |-> reply.slices[i]["raw"]] = [i \in Asked |-> answer[i].raw]
    BY <2>1 DEF Says
  <2> QED
    BY <1>3, <2>1, <2>2 DEF Total, Says
<1>4. ASSUME SearchInv, reply # None, IsInjective(request.portals), NEW i \in Asked
      PROVE  reply.slices[i].after + reply.slices[i].dropped <= reply.slices[i].raw
  <2>1. Answered(answer) /\ Says(reply, answer)
    BY <1>4, RepliesFollow
  <2>2. /\ answer[i].raw \in Nat /\ answer[i].dropped \in Nat /\ Count(answer[i].items) \in Nat
        /\ Count(answer[i].items) + answer[i].dropped <= answer[i].raw
    BY <2>1 DEF Answered, Tells, CountsShown
  <2>3. Cardinality(RowsOf(answer, i)) \in Nat
        /\ Cardinality(RowsOf(answer, i)) <= Count(answer[i].items)
    BY <1>4, <2>1, RowsAreKept
  <2>4. /\ reply.slices[i].after = Cardinality(RowsOf(answer, i))
        /\ reply.slices[i].dropped = answer[i].dropped /\ reply.slices[i].raw = answer[i].raw
    BY <2>1 DEF Says
  <2> QED
    BY <2>2, <2>3, <2>4
<1>5. SearchInv => CountsAddUp
  BY <1>1, <1>2, <1>3, <1>4 DEF CountsAddUp
<1> QED
  BY <1>5, SearchInvHolds, PTL

\* The reason given for an empty reply is true of what the portals have shown, but
\* for what a later answer for the same portal has overwritten.
THEOREM EmptyStateIsTrue == Spec => []EmptyStateTells
<1> SUFFICES ASSUME SearchInv, reply # None
             PROVE  EmptyStateTells
  <2>1. reply = None => EmptyStateTells
    BY DEF EmptyStateTells
  <2>2. SearchInv => EmptyStateTells
    BY <2>1
  <2> QED
    BY <2>2, SearchInvHolds, PTL
<1>1. Answered(answer) /\ Says(reply, answer)
  BY RepliesFollow
<1>2. reply.kind = EmptyStateFor(Cardinality(reply.items), reply.slices, reply.wiped, reply.raw)
  BY <1>1 DEF Says
<1>3. Cardinality(reply.items) \in Nat /\ (Cardinality(reply.items) = 0 <=> reply.items = {})
  BY <1>1, MergedAreFinite, FS_CardinalityType, FS_EmptySet DEF Says
<1>4. None \notin EmptyStateKinds
  BY RequestsAssumption
<1>5. reply.kind = None <=> reply.items # {}
  BY <1>2, <1>3, <1>4 DEF EmptyStateFor, EmptyStateKinds
<1>6. ASSUME reply.kind = "rooms_filter_wipe"
      PROVE  \E i \in Asked : ReadBy(i) # {} /\ \A l \in ReadBy(i) : DroppedForRooms(l, f)
  <2>1. reply.wiped
    BY <1>2, <1>4, <1>6 DEF EmptyStateFor, EmptyStateKinds
  <2>2. PICK i \in Asked : answer[i].wiped
    BY <1>1, <2>1 DEF Says
  <2>3. DOMAIN ShownBy(i) # {} /\ \A p \in DOMAIN ShownBy(i) : DroppedForRooms(ShownBy(i)[p], f)
    BY <1>1, <2>2 DEF Answered, Tells
  <2> QED
    BY <2>3 DEF ReadBy, ShownBy, Range
<1>7. ASSUME reply.kind = "all_skipped", NEW i \in Asked
      PROVE  Ended(i) = "disabled"
  <2>1. \A j \in DOMAIN reply.slices : reply.slices[j].status \in {"skipped"}
    BY <1>2, <1>4, <1>7 DEF EmptyStateFor, EmptyStateKinds
  <2>2. answer[i].status = "skipped"
    BY <1>1, <2>1 DEF Says
  <2> QED
    BY <1>1, <2>2 DEF Answered, Tells, Ended
<1>8. ASSUME reply.kind = "all_error", NEW i \in Asked
      PROVE  Failed(i)
  <2>1. \A j \in DOMAIN reply.slices : reply.slices[j].status \in {"error"}
    BY <1>2, <1>4, <1>8 DEF EmptyStateFor, EmptyStateKinds
  <2>2. answer[i].status = "error"
    BY <1>1, <2>1 DEF Says
  <2> QED
    BY <1>1, <2>2 DEF Answered, Tells, Ended, Failed, Failures
<1>9. ASSUME reply.kind = "no_inventory", NEW i \in Asked
      PROVE  ReadBy(i) = {} \/ Overwritten(i, answer)
  <2>1. reply.raw = 0
    BY <1>2, <1>4, <1>9 DEF EmptyStateFor, EmptyStateKinds
  <2>2. answer[i].raw = 0 \/ Overwritten(i, answer)
    BY <1>1, <2>1 DEF Says
  <2>3. answer[i].raw = 0 => DOMAIN ShownBy(i) = {}
    BY <1>1 DEF Answered, Tells, CountsShown
  <2> QED
    BY <2>2, <2>3 DEF ReadBy, ShownBy, Range
<1> QED
  BY <1>5, <1>6, <1>7, <1>8, <1>9 DEF EmptyStateTells

\* The web client works out the server's reason, but for a mixture of portals
\* that are switched off with portals that brought nothing, and for an answer
\* emptied by the rooms that a later one for the same portal has overwritten.
THEOREM ClientWorksItOut == Spec => []ClientAgrees
<1> SUFFICES ASSUME SearchInv, reply # None, reply.items = {}
             PROVE  ClientAgrees
  <2>1. ~(reply # None /\ reply.items = {}) => ClientAgrees
    BY DEF ClientAgrees
  <2>2. SearchInv => ClientAgrees
    BY <2>1
  <2> QED
    BY <2>2, SearchInvHolds, PTL
<1>1. Answered(answer) /\ Says(reply, answer)
  BY RepliesFollow
<1> DEFINE every(S) == reply.slices # <<>> /\ \A i \in DOMAIN reply.slices : reply.slices[i].status \in S
           told == \/ reply.wiped
                   \/ \E i \in DOMAIN reply.slices : reply.slices[i].wiped
                   \/ \E i \in DOMAIN reply.slices : reply.slices[i].error = "filtered_rooms_null"
<1>2. told <=> reply.wiped
  <2>1. \A i \in Asked : answer[i].error = "filtered_rooms_null" => answer[i].wiped
    BY <1>1 DEF Answered, Tells
  <2> QED
    BY <1>1, <2>1 DEF Says
<1>3. reply.wiped /\ reply.raw = 0 =>
         \E i \in Asked : reply.slices[i].wiped /\ Overwritten(i, answer)
  <2>1. \A i \in Asked : answer[i].wiped => answer[i].raw # 0
    BY <1>1 DEF Answered, Tells, CountsShown
  <2> QED
    BY <1>1, <2>1 DEF Says
<1>4. Cardinality(reply.items) = 0
  BY FS_EmptySet
<1>5. reply.kind = IF reply.wiped /\ reply.raw > 0 THEN "rooms_filter_wipe"
                   ELSE IF every({"skipped"}) THEN "all_skipped"
                   ELSE IF every({"error"}) THEN "all_error"
                   ELSE IF every({"partial", "error"}) THEN "all_partial"
                   ELSE IF reply.raw = 0 THEN "no_inventory"
                   ELSE "all_partial"
  BY <1>1, <1>4 DEF Says, EmptyStateFor
<1>6. DerivedKind(reply) = IF told THEN "rooms_filter_wipe"
                           ELSE IF every({"skipped"}) THEN "all_skipped"
                           ELSE IF every({"error"}) THEN "all_error"
                           ELSE IF every({"partial", "error", "skipped"}) THEN "all_partial"
                           ELSE IF reply.raw > 0 THEN "all_partial"
                           ELSE "no_inventory"
  BY DEF DerivedKind
<1>7. every({"partial", "error"}) => every({"partial", "error", "skipped"})
  OBVIOUS
<1>8. reply.raw \in Nat
  BY <1>1 DEF Says
<1> HIDE DEF every, told
<1> QED
  BY <1>2, <1>3, <1>5, <1>6, <1>7, <1>8 DEF ClientAgrees

\* The filter that the code calls authoritative drops nothing of what the
\* adapters have kept.
THEOREM SecondFilterIsIdle == Spec => []SecondFilterDropsNothing
<1>1. SearchInv => SecondFilterDropsNothing
  BY RepliesFollow DEF SecondFilterDropsNothing, Says
<1> QED
  BY <1>1, SearchInvHolds, PTL
=============================================================================
