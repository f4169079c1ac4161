------------------------- MODULE BotPlacementProofs -------------------------
(***************************************************************************)
(* Proofs about BotPlacement, for any workers, roles, number of bots and   *)
(* capacities, and every listing, request and build.                       *)
(***************************************************************************)
EXTENDS BotPlacement, FiniteSetTheorems, SequenceTheorems, WellFoundedInduction, TLAPS

-----------------------------------------------------------------------------
(* Arithmetic *)

(* A set of natural numbers that is not empty has a least element. *)
LEMMA LeastNatural ==
    ASSUME NEW T \in SUBSET Nat, T # {}
    PROVE  \E m \in T : \A n \in T : m <= n
  <1> DEFINE R == {ss \in Nat \X Nat : ss[1] < ss[2]}
  <1>1. IsWellFoundedOn(R, Nat)
    BY NatLessThanWellFounded DEF OpToRel
  <1>2. \A i, j \in Nat : i < j => <<i, j>> \in R
    OBVIOUS
  <1> HIDE DEF R
  <1>3. PICK m \in T : \A n \in T : <<n, m>> \notin R
    BY <1>1, WFMin
  <1>4. ASSUME NEW n \in T PROVE m <= n
    <2>1. m \in Nat /\ n \in Nat
      OBVIOUS
    <2>2. ~(n < m)
      BY <1>2, <1>3, <2>1
    <2> QED  BY <2>1, <2>2
  <1> QED  BY <1>4

(* Quotient and remainder are determined by what they make up. *)
LEMMA Division ==
    ASSUME NEW n \in Nat \ {0}, NEW q \in Nat, NEW r \in 0..(n - 1),
           NEW p \in Nat, NEW s \in 0..(n - 1), (n * q) + r = (n * p) + s
    PROVE  q = p /\ r = s
  <1>1. ASSUME NEW d \in Nat, NEW k \in Nat, k = d + 1 PROVE n * k = n + (n * d) /\ n * d \in Nat
    BY <1>1
  <1>2. CASE q = p
    BY <1>2
  <1>3. CASE q < p
    <2>1. PICK d \in Nat : p = q + (d + 1)
      <3>1. p - q - 1 \in Nat  BY <1>3
      <3> QED  BY <3>1
    <2>2. n * p = (n * q) + n + (n * d) /\ n * d \in Nat
      BY <2>1
    <2> QED  BY <2>2
  <1>4. CASE p < q
    <2>1. PICK d \in Nat : q = p + (d + 1)
      <3>1. q - p - 1 \in Nat  BY <1>4
      <3> QED  BY <3>1
    <2>2. n * q = (n * p) + n + (n * d) /\ n * d \in Nat
      BY <2>1
    <2> QED  BY <2>2
  <1> QED  BY <1>2, <1>3, <1>4

(* The turn and the round that come after those of index k, with n workers. *)
LEMMA NextTurn ==
    ASSUME NEW n \in Nat \ {0}, NEW k \in Nat
    PROVE  /\ k % n \in 0..(n - 1) /\ k \div n \in Nat
           /\ (k % n) + 1 < n => /\ (k + 1) % n = (k % n) + 1
                                 /\ (k + 1) \div n = k \div n
           /\ (k % n) + 1 = n => /\ (k + 1) % n = 0
                                 /\ (k + 1) \div n = (k \div n) + 1
  <1>1. ASSUME NEW j \in Nat
        PROVE  /\ j % n \in 0..(n - 1) /\ j \div n \in Nat
               /\ j = (n * (j \div n)) + (j % n)
    OBVIOUS
  <1> DEFINE q == k \div n
             r == k % n
             p == (k + 1) \div n
             s == (k + 1) % n
  <1>2. /\ q \in Nat /\ p \in Nat /\ r \in 0..(n - 1) /\ s \in 0..(n - 1)
        /\ k = (n * q) + r /\ k + 1 = (n * p) + s
    <2>1. k + 1 \in Nat  OBVIOUS
    <2> QED  BY <1>1, <2>1
  <1> HIDE DEF q, r, p, s
  <1>3. CASE r + 1 < n
    <2>1. r + 1 \in 0..(n - 1) /\ (n * q) + (r + 1) = (n * p) + s
      BY <1>2, <1>3
    <2>2. p = q /\ s = r + 1
      BY <1>2, <2>1, Division
    <2> QED  BY <1>2, <1>3, <2>2 DEF q, r, p, s
  <1>4. CASE r + 1 = n
    <2>1. n * (q + 1) = (n * q) + n
      BY <1>2
    <2>2. 0 \in 0..(n - 1) /\ (n * (q + 1)) + 0 = (n * p) + s /\ q + 1 \in Nat
      BY <1>2, <1>4, <2>1
    <2>3. p = q + 1 /\ s = 0
      BY <1>2, <2>2, Division
    <2> QED  BY <1>2, <1>4, <2>3 DEF q, r, p, s
  <1>5. r + 1 < n \/ r + 1 = n
    BY <1>2
  <1> QED  BY <1>3, <1>4, <1>5

-----------------------------------------------------------------------------
(* Requests and listings *)

(* A listing is a sequence of workers, each once. *)
LEMMA ListingFacts ==
    ASSUME NEW l \in Listings
    PROVE  /\ Len(l) \in Nat /\ DOMAIN l = 1..Len(l)
           /\ \A i \in 1..Len(l) : l[i] \in Workers
           /\ \A i, j \in 1..Len(l) : l[i] = l[j] => i = j
           /\ l # <<>> <=> Len(l) # 0
  <1>1. Cardinality(Workers) \in Nat
    BY PlacementAssumption, FS_CardinalityType
  <1>2. PICK n \in 0..Cardinality(Workers) : l \in [1..n -> Workers]
    BY DEF Listings
  <1>3. n \in Nat /\ l \in Seq(Workers) /\ Len(l) = n /\ DOMAIN l = 1..n
    BY <1>1, <1>2
  <1>4. \A i, j \in DOMAIN l : l[i] = l[j] => i = j
    BY DEF Listings
  <1>5. l # <<>> <=> Len(l) # 0
    BY <1>3, EmptySeq
  <1> QED  BY <1>2, <1>3, <1>4, <1>5

(* What every request has, whatever its strategy. *)
LEMMA RequestFacts ==
    ASSUME request \in Requests
    PROVE  /\ request.listed \in Listings
           /\ request.bot \in [Bots -> [role : Roles, tag : Tags]]
           /\ request.caps \in [Workers -> SUBSET Roles]
           /\ request.maxBots \in [Workers -> 0..MaxCapacity]
           /\ request.strategy \in {"RoundRobin", "RoleBased", "LoadBalanced", "Isolation"}
                                       \cup Affinities
  <1>1. ASSUME NEW strategy, NEW bots, NEW caps, NEW capacities, NEW builds,
               request \in RequestsOf(strategy, bots, caps, capacities, builds)
        PROVE  /\ request.listed \in Listings /\ request.bot \in bots
               /\ request.caps \in caps /\ request.maxBots \in capacities
               /\ request.strategy = strategy
    BY <1>1 DEF RequestsOf
  <1>2. \A R \in SUBSET Roles, T \in SUBSET Tags :
           [Bots -> [role : R, tag : T]] \subseteq [Bots -> [role : Roles, tag : Tags]]
    OBVIOUS
  <1>3. /\ {GeneralUser} \subseteq Roles /\ {"none"} \subseteq Tags
        /\ {"none", "scenario"} \subseteq Tags /\ {"none", "adversarial"} \subseteq Tags
    BY PlacementAssumption DEF Tags
  <1>4. /\ [Workers -> {{}}] \subseteq [Workers -> SUBSET Roles]
        /\ [Workers -> {0}] \subseteq [Workers -> 0..MaxCapacity]
    <2>1. {{}} \subseteq SUBSET Roles /\ {0} \subseteq 0..MaxCapacity
      BY PlacementAssumption
    <2> QED  BY <2>1
  <1> DEFINE Bot == [Bots -> [role : Roles, tag : Tags]]
             Plain == [Bots -> [role : {GeneralUser}, tag : {"none"}]]
             Role == [Bots -> [role : Roles, tag : {"none"}]]
             Scenario == [Bots -> [role : {GeneralUser}, tag : {"none", "scenario"}]]
             Apart == [Bots -> [role : {GeneralUser}, tag : {"none", "adversarial"}]]
             Caps == [Workers -> SUBSET Roles]
             Room == [Workers -> 0..MaxCapacity]
  <1>5. /\ Plain \subseteq Bot /\ Role \subseteq Bot
        /\ Scenario \subseteq Bot /\ Apart \subseteq Bot
    BY <1>2, <1>3
  <1>6. PICK strategy \in {"RoundRobin", "RoleBased", "LoadBalanced", "Isolation"}
                             \cup Affinities,
             bots \in {Plain, Role, Scenario, Apart},
             caps \in {Caps, [Workers -> {{}}]},
             capacities \in {Room, [Workers -> {0}]},
             builds \in {Builds, {FALSE}} :
                request \in RequestsOf(strategy, bots, caps, capacities, builds)
    BY DEF Requests, Affinities
  <1> HIDE DEF Bot, Plain, Role, Scenario, Apart, Caps, Room
  <1>7. /\ request.listed \in Listings /\ request.bot \in bots
        /\ request.caps \in caps /\ request.maxBots \in capacities
        /\ request.strategy = strategy
    BY <1>1, <1>6
  <1>8. request.bot \in Bot
    BY <1>5, <1>6, <1>7
  <1>9. request.caps \in Caps /\ request.maxBots \in Room
    BY <1>4, <1>6, <1>7 DEF Caps, Room
  <1> QED  BY <1>6, <1>7, <1>8, <1>9 DEF Bot, Caps, Room

(* A request stays one with another listing. *)
LEMMA Relisted ==
    ASSUME request \in Requests, NEW l \in Listings
    PROVE  [request EXCEPT !.listed = l] \in Requests
  <1>1. ASSUME NEW strategy, NEW bots, NEW caps, NEW capacities, NEW builds,
               request \in RequestsOf(strategy, bots, caps, capacities, builds)
        PROVE  [request EXCEPT !.listed = l] \in
                    RequestsOf(strategy, bots, caps, capacities, builds)
    BY <1>1 DEF RequestsOf
  <1> QED  BY <1>1 DEF Requests

(* The position of a listed worker. *)
LEMMA PositionFacts ==
    ASSUME request \in Requests
    PROVE  /\ \A w \in Listed : /\ Position(w) \in 1..Len(request.listed)
                               /\ request.listed[Position(w)] = w
           /\ \A i \in 1..Len(request.listed) : /\ request.listed[i] \in Listed
                                              /\ Position(request.listed[i]) = i
           /\ Listed \subseteq Workers
  <1>1. /\ DOMAIN request.listed = 1..Len(request.listed)
        /\ \A i \in 1..Len(request.listed) : request.listed[i] \in Workers
        /\ \A i, j \in 1..Len(request.listed) :
              request.listed[i] = request.listed[j] => i = j
    BY RequestFacts, ListingFacts
  <1>2. ASSUME NEW w \in Listed
        PROVE  Position(w) \in 1..Len(request.listed) /\ request.listed[Position(w)] = w
    <2>1. \E i \in DOMAIN request.listed : request.listed[i] = w
      BY DEF Listed
    <2> QED  BY <1>1, <2>1 DEF Position
  <1>3. ASSUME NEW i \in 1..Len(request.listed)
        PROVE  request.listed[i] \in Listed /\ Position(request.listed[i]) = i
    <2>1. request.listed[i] \in Listed
      BY <1>1 DEF Listed
    <2> QED  BY <1>1, <1>2, <2>1
  <1> QED  BY <1>1, <1>2, <1>3 DEF Listed

(* The sequence of a group has all its bots, each once. *)
LEMMA InOrderFacts ==
    ASSUME NEW S \in SUBSET Bots, NEW s \in InOrder(S)
    PROVE  /\ s \in Seq(Bots)
           /\ \A i, j \in DOMAIN s : s[i] = s[j] => i = j
           /\ {s[i] : i \in DOMAIN s} = S
  <1>1. IsFiniteSet(S)
    <2>1. IsFiniteSet(Bots)
      BY PlacementAssumption, FS_Interval DEF Bots
    <2> QED  BY <2>1, FS_Subset
  <1> DEFINE n == Cardinality(S)
  <1>2. n \in Nat /\ IsFiniteSet(1..n) /\ Cardinality(1..n) = n
    BY <1>1, FS_CardinalityType, FS_Interval
  <1> HIDE DEF n
  <1>3. s \in [1..n -> S] /\ \A i, j \in 1..n : i < j => s[i] < s[j]
    BY DEF InOrder, n
  <1>4. \A i \in 1..n : s[i] \in Int
    <2>1. \A b \in S : b \in Int
      BY PlacementAssumption DEF Bots
    <2> QED  BY <1>3, <2>1
  <1>5. \A i, j \in 1..n : s[i] = s[j] => i = j
    BY <1>2, <1>3, <1>4
  <1>6. s \in Injection(1..n, S)
    BY <1>3, <1>5 DEF Injection, IsInjective
  <1>7. s \in Surjection(1..n, S)
    BY <1>1, <1>2, <1>6, FS_Injection DEF n
  <1>8. S = {s[i] : i \in 1..n}
    BY <1>3, <1>7 DEF Surjection
  <1>9. s \in Seq(Bots)
    BY <1>2, <1>3, IsASeq
  <1> QED  BY <1>3, <1>5, <1>8, <1>9

-----------------------------------------------------------------------------
(* What one iteration of a loop does to the assignments *)

(* The bots of s are put behind those of worker w. *)
Pushed(w, s) == placed' = [placed EXCEPT ![w] = @ \o s]

LEMMA PushedFacts ==
    ASSUME placed \in [Workers -> Seq(Bots)], NEW w \in Workers, NEW s \in Seq(Bots),
           Pushed(w, s)
    PROVE  /\ placed' \in [Workers -> Seq(Bots)]
           /\ \A v \in Workers \ {w} : placed'[v] = placed[v]
           /\ Len(placed[w]) \in Nat /\ Len(s) \in Nat
           /\ DOMAIN placed[w] = 1..Len(placed[w]) /\ DOMAIN s = 1..Len(s)
           /\ DOMAIN placed'[w] = 1..(Len(placed[w]) + Len(s))
           /\ Len(placed'[w]) = Len(placed[w]) + Len(s)
           /\ \A i \in DOMAIN placed[w] : placed'[w][i] = placed[w][i]
           /\ \A i \in DOMAIN s : placed'[w][Len(placed[w]) + i] = s[i]
  <1> DEFINE t == placed[w]
  <1>1. t \in Seq(Bots) /\ placed'[w] = t \o s
    BY DEF Pushed
  <1>2. t \o s \in Seq(Bots)
    BY <1>1, ConcatProperties
  <1>3. placed' \in [Workers -> Seq(Bots)]
    BY <1>1, <1>2 DEF Pushed
  <1>4. /\ Len(t) \in Nat /\ DOMAIN t = 1..Len(t)
        /\ Len(s) \in Nat /\ DOMAIN s = 1..Len(s)
    BY <1>1, LenProperties
  <1>5. /\ Len(t \o s) = Len(t) + Len(s) /\ DOMAIN (t \o s) = 1..(Len(t) + Len(s))
        /\ \A i \in 1..(Len(t) + Len(s)) :
              (t \o s)[i] = IF i <= Len(t) THEN t[i] ELSE s[i - Len(t)]
    BY <1>1, <1>2, <1>4, ConcatProperties, LenProperties
  <1>6. \A v \in Workers \ {w} : placed'[v] = placed[v]
    BY DEF Pushed
  <1> HIDE DEF t
  <1>7. \A i \in DOMAIN t : (t \o s)[i] = t[i]
    BY <1>4, <1>5
  <1>8. \A i \in DOMAIN s : (t \o s)[Len(t) + i] = s[i]
    <2> SUFFICES ASSUME NEW i \in DOMAIN s PROVE (t \o s)[Len(t) + i] = s[i]
      OBVIOUS
    <2>1. /\ i \in Nat /\ Len(t) + i \in 1..(Len(t) + Len(s))
          /\ ~(Len(t) + i <= Len(t)) /\ (Len(t) + i) - Len(t) = i
      BY <1>4
    <2> QED  BY <1>5, <2>1
  <1> QED  BY <1>1, <1>3, <1>4, <1>5, <1>6, <1>7, <1>8 DEF t

(* Where the bots of the assignments are afterwards: where they were, or among
   those put on w. *)
LEMMA PushedPlaces ==
    ASSUME placed \in [Workers -> Seq(Bots)], NEW w \in Workers, NEW s \in Seq(Bots),
           Pushed(w, s), NEW v \in Workers, NEW i \in DOMAIN placed'[v]
    PROVE  \/ i \in DOMAIN placed[v] /\ placed'[v][i] = placed[v][i]
           \/ /\ v = w
              /\ \E j \in DOMAIN s : i = Len(placed[w]) + j /\ placed'[v][i] = s[j]
  <1>1. CASE v # w
    BY <1>1, PushedFacts
  <1>2. CASE v = w
    <2>1. /\ Len(placed[w]) \in Nat /\ Len(s) \in Nat
          /\ DOMAIN placed[w] = 1..Len(placed[w]) /\ DOMAIN s = 1..Len(s)
          /\ i \in 1..(Len(placed[w]) + Len(s))
      BY <1>2, PushedFacts
    <2>2. CASE i <= Len(placed[w])
      <3>1. i \in DOMAIN placed[w]
        BY <2>1, <2>2
      <3> QED  BY <1>2, <3>1, PushedFacts
    <2>3. CASE ~(i <= Len(placed[w]))
      <3> DEFINE j == i - Len(placed[w])
      <3>1. j \in DOMAIN s /\ i = Len(placed[w]) + j
        BY <2>1, <2>3
      <3> HIDE DEF j
      <3>2. placed'[w][Len(placed[w]) + j] = s[j]
        BY <3>1, PushedFacts
      <3>3. placed'[v][i] = s[j]
        BY <1>2, <3>1, <3>2
      <3> QED  BY <1>2, <3>1, <3>3
    <2> QED  BY <2>2, <2>3
  <1> QED  BY <1>1, <1>2

(* Bots that were not placed before, each once in s, are placed once. *)
LEMMA PushedOnce ==
    ASSUME placed \in [Workers -> Seq(Bots)], NEW w \in Workers, NEW s \in Seq(Bots),
           Pushed(w, s), OnePlace,
           \A i, j \in DOMAIN s : s[i] = s[j] => i = j,
           \A i \in DOMAIN s : s[i] \notin PlacedBots
    PROVE  OnePlace'
  <1> SUFFICES ASSUME NEW u \in Workers, NEW v \in Workers,
                      NEW i \in DOMAIN placed'[u], NEW j \in DOMAIN placed'[v],
                      placed'[u][i] = placed'[v][j]
               PROVE  u = v /\ i = j
    BY DEF OnePlace
  <1>1. \A x \in Workers : \A k \in DOMAIN placed[x] : placed[x][k] \in PlacedBots
    <2> SUFFICES ASSUME NEW x \in Workers, NEW k \in DOMAIN placed[x]
                 PROVE  placed[x][k] \in PlacedBots
      OBVIOUS
    <2>1. placed[x] \in Seq(Bots)
      OBVIOUS
    <2>2. placed[x][k] \in Bots
      BY <2>1, ElementOfSeq, LenProperties
    <2> QED  BY <2>2 DEF PlacedBots
  <1>2. CASE i \in DOMAIN placed[u] /\ placed'[u][i] = placed[u][i]
    <2>1. placed'[v][j] \in PlacedBots
      BY <1>1, <1>2
    <2>2. \A k \in DOMAIN s : placed'[v][j] # s[k]
      BY <2>1
    <2>3. j \in DOMAIN placed[v] /\ placed'[v][j] = placed[v][j]
      BY <2>2, PushedPlaces
    <2>4. placed[u][i] = placed[v][j]
      BY <1>2, <2>3
    <2> QED  BY <1>2, <2>3, <2>4 DEF OnePlace
  <1>3. CASE u = w /\ \E k \in DOMAIN s : i = Len(placed[w]) + k /\ placed'[u][i] = s[k]
    <2>1. v = w /\ \E k \in DOMAIN s : j = Len(placed[w]) + k /\ placed'[v][j] = s[k]
      BY <1>1, <1>3, PushedPlaces
    <2> QED  BY <1>3, <2>1
  <1> QED  BY <1>2, <1>3, PushedPlaces

LEMMA PushedSet ==
    ASSUME placed \in [Workers -> Seq(Bots)], NEW w \in Workers, NEW s \in Seq(Bots),
           Pushed(w, s)
    PROVE  PlacedBots' = PlacedBots \cup {s[i] : i \in DOMAIN s}
  <1>1. ASSUME NEW b \in PlacedBots' PROVE b \in PlacedBots \cup {s[i] : i \in DOMAIN s}
    <2>0. PICK v \in Workers : \E i \in DOMAIN placed'[v] : placed'[v][i] = b
      BY DEF PlacedBots
    <2>1. PICK i \in DOMAIN placed'[v] : placed'[v][i] = b
      BY <2>0
    <2>2. b \in Bots
      BY DEF PlacedBots
    <2>3. \/ i \in DOMAIN placed[v] /\ placed[v][i] = b
          \/ \E j \in DOMAIN s : b = s[j]
      BY <2>1, PushedPlaces
    <2> QED  BY <2>2, <2>3 DEF PlacedBots
  <1>2. ASSUME NEW b \in PlacedBots PROVE b \in PlacedBots'
    <2>0. PICK v \in Workers : \E i \in DOMAIN placed[v] : placed[v][i] = b
      BY DEF PlacedBots
    <2>1. PICK i \in DOMAIN placed[v] : placed[v][i] = b
      BY <2>0
    <2>2. b \in Bots
      BY DEF PlacedBots
    <2>3. i \in DOMAIN placed'[v] /\ placed'[v][i] = b
      <3>1. CASE v = w
        <4>1. /\ Len(placed[w]) \in Nat /\ Len(s) \in Nat
              /\ DOMAIN placed[w] = 1..Len(placed[w])
              /\ DOMAIN placed'[w] = 1..(Len(placed[w]) + Len(s))
              /\ \A k \in DOMAIN placed[w] : placed'[w][k] = placed[w][k]
          BY PushedFacts
        <4> QED  BY <2>1, <3>1, <4>1
      <3> QED  BY <2>1, <3>1, PushedFacts
    <2> QED  BY <2>2, <2>3 DEF PlacedBots
  <1>3. ASSUME NEW i \in DOMAIN s PROVE s[i] \in PlacedBots'
    <2>1. s[i] \in Bots
      BY ElementOfSeq, LenProperties
    <2>2. /\ Len(placed[w]) \in Nat /\ Len(s) \in Nat /\ DOMAIN s = 1..Len(s)
          /\ DOMAIN placed'[w] = 1..(Len(placed[w]) + Len(s))
          /\ placed'[w][Len(placed[w]) + i] = s[i]
      BY PushedFacts
    <2>3. Len(placed[w]) + i \in DOMAIN placed'[w]
      BY <2>2
    <2> QED  BY <2>1, <2>2, <2>3 DEF PlacedBots
  <1> QED  BY <1>1, <1>2, <1>3

-----------------------------------------------------------------------------
(* The worker chosen *)

LEMMA NextInTurnFacts ==
    ASSUME request \in Requests, request.listed # <<>>, idx \in Nat
    PROVE  /\ Len(request.listed) \in Nat \ {0}
           /\ NextInTurn \in Listed /\ NextInTurn \in Workers
           /\ Position(NextInTurn) = (idx % Len(request.listed)) + 1
  <1> DEFINE n == Len(request.listed)
             k == (idx % n) + 1
  <1>1. n \in Nat /\ n # 0
    BY RequestFacts, ListingFacts
  <1>2. k \in 1..n
    <2>1. n \in Nat \ {0} /\ idx \in Nat
      BY <1>1
    <2>2. (idx % n) \in 0..(n - 1)
      <3> HIDE DEF n, k
      <3> QED  BY <2>1, NextTurn
    <2>3. \A r \in 0..(n - 1) : r + 1 \in 1..n
      BY <2>1
    <2> QED  BY <2>2, <2>3
  <1>3. NextInTurn = request.listed[k]
    BY DEF NextInTurn
  <1> HIDE DEF n, k
  <1>4. NextInTurn \in Listed /\ Position(NextInTurn) = k
    BY <1>2, <1>3, PositionFacts DEF n
  <1>5. NextInTurn \in Workers
    BY <1>4, PositionFacts
  <1> QED  BY <1>1, <1>4, <1>5 DEF n, k

(* find_least_loaded_worker returns a worker of those it is given, and none of
   them has a smaller load. *)
LEMMA LeastLoadedFacts ==
    ASSUME TypeOK, NEW S \in SUBSET Listed, S # {}
    PROVE  LeastLoaded(S) \in S /\ \A v \in S : Load(LeastLoaded(S)) <= Load(v)
  <1>1. \A v \in S : Load(v) \in Nat /\ Position(v) \in Nat
    <2> SUFFICES ASSUME NEW v \in S PROVE Load(v) \in Nat /\ Position(v) \in Nat
      OBVIOUS
    <2>1. v \in Workers /\ Position(v) \in 1..Len(request.listed)
      BY PositionFacts DEF TypeOK
    <2>2. Len(request.listed) \in Nat
      BY RequestFacts, ListingFacts DEF TypeOK
    <2>3. placed[v] \in Seq(Bots)
      BY <2>1 DEF TypeOK
    <2> QED  BY <2>1, <2>2, <2>3, LenProperties DEF Load
  <1> DEFINE Loads == {Load(v) : v \in S}
  <1>2. Loads \in SUBSET Nat /\ Loads # {}
    BY <1>1
  <1>3. PICK m \in Loads : \A n \in Loads : m <= n
    <2> HIDE DEF Loads
    <2> QED  BY <1>2, LeastNatural
  <1> DEFINE Places == {Position(v) : v \in {u \in S : Load(u) = m}}
  <1>4. Places \in SUBSET Nat /\ Places # {}
    BY <1>1, <1>3
  <1>5. PICK p \in Places : \A n \in Places : p <= n
    <2> HIDE DEF Places
    <2> QED  BY <1>4, LeastNatural
  <1>6. PICK w \in S : Load(w) = m /\ Position(w) = p
    BY <1>5
  <1>7. \A v \in S : Load(w) < Load(v) \/ (Load(w) = Load(v) /\ Position(w) <= Position(v))
    <2> SUFFICES ASSUME NEW v \in S, ~(Load(w) < Load(v))
                 PROVE  Load(w) = Load(v) /\ Position(w) <= Position(v)
      OBVIOUS
    <2>1. m <= Load(v)
      BY <1>3
    <2>2. Load(v) = m
      BY <1>1, <1>6, <2>1
    <2>3. p <= Position(v)
      BY <1>5, <2>2
    <2> QED  BY <1>6, <2>2, <2>3
  <1>8. /\ LeastLoaded(S) \in S
        /\ \A v \in S : \/ Load(LeastLoaded(S)) < Load(v)
                        \/ /\ Load(LeastLoaded(S)) = Load(v)
                           /\ Position(LeastLoaded(S)) <= Position(v)
    BY <1>7 DEF LeastLoaded
  <1>9. \A v \in S : Load(LeastLoaded(S)) <= Load(v)
    BY <1>1, <1>8
  <1> QED  BY <1>8, <1>9

(* find_most_available_worker returns a listed worker, and none of them has more
   room left by its count. *)
LEMMA MostAvailableFacts ==
    ASSUME TypeOK, request.listed # <<>>
    PROVE  /\ MostAvailable \in Listed
           /\ \A v \in Listed : /\ Available(v) \in Nat
                                /\ Available(v) <= Available(MostAvailable)
  <1>1. Len(request.listed) \in Nat \ {0}
    BY RequestFacts, ListingFacts DEF TypeOK
  <1>2. \A v \in Listed : /\ v \in Workers /\ Position(v) \in 1..Len(request.listed)
                          /\ Available(v) \in 0..(WordSize - 1)
    <2> SUFFICES ASSUME NEW v \in Listed
                 PROVE  /\ v \in Workers /\ Position(v) \in 1..Len(request.listed)
                        /\ Available(v) \in 0..(WordSize - 1)
      OBVIOUS
    <2>1. v \in Workers /\ Position(v) \in 1..Len(request.listed)
      BY PositionFacts DEF TypeOK
    <2>2. placed[v] \in Seq(Bots) /\ request.maxBots[v] \in 0..MaxCapacity
      BY <2>1, RequestFacts DEF TypeOK
    <2>3. Load(v) \in Nat
      BY <2>2, LenProperties DEF Load
    <2>4. request.maxBots[v] \in Int /\ WordSize \in Nat \ {0}
      BY <2>2, PlacementAssumption
    <2>5. request.maxBots[v] - Load(v) \in Int
      BY <2>3, <2>4
    <2> QED  BY <2>1, <2>4, <2>5 DEF Available
  <1> DEFINE Taken == {(WordSize - 1) - Available(v) : v \in Listed}
  <1>3. Taken \in SUBSET Nat /\ Taken # {}
    <2>1. request.listed[1] \in Listed
      BY <1>1, PositionFacts DEF TypeOK
    <2>2. \A v \in Listed : (WordSize - 1) - Available(v) \in Nat
      BY <1>2, PlacementAssumption
    <2> QED  BY <2>1, <2>2
  <1>4. PICK m \in Taken : \A n \in Taken : m <= n
    <2> HIDE DEF Taken
    <2> QED  BY <1>3, LeastNatural
  <1> DEFINE Places == {Len(request.listed) - Position(v) :
                          v \in {u \in Listed : (WordSize - 1) - Available(u) = m}}
  <1>5. Places \in SUBSET Nat /\ Places # {}
    <2>1. \A v \in Listed : Len(request.listed) - Position(v) \in Nat
      BY <1>1, <1>2
    <2> QED  BY <1>4, <2>1
  <1>6. PICK p \in Places : \A n \in Places : p <= n
    <2> HIDE DEF Places
    <2> QED  BY <1>5, LeastNatural
  <1>7. PICK w \in Listed : /\ (WordSize - 1) - Available(w) = m
                            /\ Len(request.listed) - Position(w) = p
    BY <1>6
  <1>8. \A v \in Listed : \/ Available(w) > Available(v)
                          \/ Available(w) = Available(v) /\ Position(w) >= Position(v)
    <2> SUFFICES ASSUME NEW v \in Listed, ~(Available(w) > Available(v))
                 PROVE  Available(w) = Available(v) /\ Position(w) >= Position(v)
      OBVIOUS
    <2>1. m <= (WordSize - 1) - Available(v)
      BY <1>4
    <2>2. Available(v) = Available(w)
      BY <1>2, <1>7, <2>1, PlacementAssumption
    <2>3. (WordSize - 1) - Available(v) = m
      BY <1>7, <2>2
    <2>4. p <= Len(request.listed) - Position(v)
      BY <1>6, <2>3
    <2> QED  BY <1>1, <1>2, <1>7, <2>2, <2>4
  <1>9. /\ MostAvailable \in Listed
        /\ \A v \in Listed : \/ Available(MostAvailable) > Available(v)
                             \/ /\ Available(MostAvailable) = Available(v)
                                /\ Position(MostAvailable) >= Position(v)
    BY <1>8 DEF MostAvailable
  <1>10. \A v \in Listed : Available(v) \in Nat
    BY <1>2, PlacementAssumption
  <1>11. \A v \in Listed : Available(v) <= Available(MostAvailable)
    BY <1>9, <1>10
  <1> QED  BY <1>9, <1>10, <1>11

-----------------------------------------------------------------------------
(* One bot is placed: an iteration of every loop but that of affinity. *)

(* What only depends on the request stays with it. *)
LEMMA SameRequest ==
    ASSUME request' = request
    PROVE  /\ Listed' = Listed /\ Wanted' = Wanted
           /\ \A w : Position(w)' = Position(w)
           /\ \A b : AffinityKey(b)' = AffinityKey(b)
           /\ \A b : Group(b)' = Group(b)
           /\ \A role : Eligible(role)' = Eligible(role)
  BY DEF Listed, Wanted, RequiresIsolation, Position, AffinityKey, Group, Eligible

(* The next bot of the request goes to w. *)
NextBotTo(w) ==
    /\ request.strategy \notin Affinities
    /\ idx < NumBots /\ idx' = idx + 1
    /\ request' = request /\ status = "running" /\ status' = status
    /\ idx + 1 \in Wanted
    /\ Pushed(w, <<idx + 1>>)

LEMMA NextBotFacts ==
    ASSUME PlacementInv, NEW w \in Workers, NextBotTo(w)
    PROVE  /\ <<idx + 1>> \in Seq(Bots) /\ Len(<<idx + 1>>) = 1
           /\ DOMAIN <<idx + 1>> = {1} /\ <<idx + 1>>[1] = idx + 1
           /\ placed' \in [Workers -> Seq(Bots)] /\ idx' \in 0..NumBots
           /\ OnePlace' /\ InStep' /\ Complete'
           /\ placed'[w] # <<>>
  <1>1. idx \in 0..NumBots /\ NumBots \in Nat /\ placed \in [Workers -> Seq(Bots)]
    BY PlacementAssumption DEF PlacementInv, TypeOK
  <1>2. idx + 1 \in Bots /\ idx' \in 0..NumBots
    BY <1>1 DEF NextBotTo, Bots
  <1> DEFINE s == <<idx + 1>>
  <1>3. /\ s \in Seq(Bots) /\ Len(s) = 1 /\ DOMAIN s = {1} /\ s[1] = idx + 1
    BY <1>2
  <1>4. Pushed(w, s)
    BY DEF NextBotTo
  <1>5. PlacedBots = {b \in Wanted : b <= idx}
    BY DEF PlacementInv, InStep, NextBotTo
  <1> HIDE DEF s
  <1>6. {s[i] : i \in DOMAIN s} = {idx + 1}
    BY <1>3
  <1>7. idx + 1 \notin PlacedBots
    BY <1>1, <1>5
  <1>8. placed' \in [Workers -> Seq(Bots)] /\ Len(placed'[w]) = Len(placed[w]) + 1
    BY <1>1, <1>3, <1>4, PushedFacts
  <1>9. OnePlace'
    BY <1>1, <1>3, <1>4, <1>7, PushedOnce DEF PlacementInv
  <1>10. InStep'
    <2>1. PlacedBots' = PlacedBots \cup {idx + 1}
      BY <1>1, <1>3, <1>4, <1>6, PushedSet
    <2>2. \A b \in Wanted : b \in Int
      BY PlacementAssumption DEF Wanted, Bots
    <2>3. {b \in Wanted : b <= idx} \cup {idx + 1} = {b \in Wanted : b <= idx + 1}
      BY <1>1, <2>2 DEF NextBotTo
    <2>4. Wanted' = Wanted /\ idx' = idx + 1
      BY SameRequest DEF NextBotTo
    <2>5. PlacedBots' = {b \in Wanted' : b <= idx'}
      BY <1>5, <2>1, <2>3, <2>4
    <2> QED  BY <2>5 DEF InStep, NextBotTo
  <1>11. Complete'
    BY DEF NextBotTo, Complete
  <1>12. placed'[w] # <<>>
    <2>1. Len(placed[w]) \in Nat
      BY <1>1, LenProperties
    <2>2. placed'[w] \in Seq(Bots) /\ Len(placed'[w]) # 0
      BY <1>8, <2>1
    <2> QED  BY <2>2
  <1> QED  BY <1>2, <1>3, <1>8, <1>9, <1>10, <1>11, <1>12 DEF s

LEMMA NextBotPlaces ==
    ASSUME PlacementInv, NEW w \in Workers, NextBotTo(w),
           NEW v \in Workers, NEW i \in DOMAIN placed'[v]
    PROVE  \/ i \in DOMAIN placed[v] /\ placed'[v][i] = placed[v][i]
           \/ v = w /\ i = Len(placed[w]) + 1 /\ placed'[v][i] = idx + 1
  <1> DEFINE s == <<idx + 1>>
  <1>1. s \in Seq(Bots) /\ Pushed(w, s) /\ DOMAIN s = {1} /\ s[1] = idx + 1
    BY NextBotFacts DEF NextBotTo
  <1>2. placed \in [Workers -> Seq(Bots)]
    BY DEF PlacementInv, TypeOK
  <1> HIDE DEF s
  <1>3. \/ i \in DOMAIN placed[v] /\ placed'[v][i] = placed[v][i]
        \/ /\ v = w
           /\ \E j \in DOMAIN s : i = Len(placed[w]) + j /\ placed'[v][i] = s[j]
    BY <1>1, <1>2, PushedPlaces
  <1> QED  BY <1>1, <1>3

(* The worker such an iteration chooses, strategy by strategy. *)
LEMMA RoundRobinNext ==
    ASSUME PlacementInv, PlaceRoundRobin
    PROVE  /\ NextInTurn \in Listed /\ NextInTurn \in Workers
           /\ NextBotTo(NextInTurn) /\ isolated' = isolated
           /\ request.strategy = "RoundRobin"
  <1>1. request \in Requests /\ idx \in 0..NumBots /\ NumBots \in Nat
    BY PlacementAssumption DEF PlacementInv, TypeOK
  <1>2. NextInTurn \in Listed /\ NextInTurn \in Workers
    BY <1>1, NextInTurnFacts DEF PlaceRoundRobin, Loop
  <1>3. request.strategy = "RoundRobin" /\ idx + 1 \in Bots /\ idx < NumBots
    BY <1>1 DEF PlaceRoundRobin, Loop, Bots
  <1>4. NextBotTo(NextInTurn) /\ isolated' = isolated
    BY <1>3 DEF PlaceRoundRobin, Loop, Place, NextBotTo, Pushed, Wanted, Affinities
  <1> QED  BY <1>2, <1>3, <1>4

LEMMA RoleNext ==
    ASSUME PlacementInv, PlaceByRole
    PROVE  LET S == Eligible(request.bot[idx + 1].role)
               w == LeastLoaded(S)
           IN  /\ w \in S /\ w \in Listed /\ w \in Workers
               /\ \A v \in S : Load(w) <= Load(v)
               /\ NextBotTo(w) /\ isolated' = isolated
               /\ request.strategy = "RoleBased"
  <1> DEFINE S == Eligible(request.bot[idx + 1].role)
             w == LeastLoaded(S)
  <1>1. request \in Requests /\ idx \in 0..NumBots /\ NumBots \in Nat
    BY PlacementAssumption DEF PlacementInv, TypeOK
  <1>2. S \subseteq Listed /\ S # {}
    BY DEF Eligible, PlaceByRole
  <1>3. Place(w, <<idx + 1>>)
    BY DEF PlaceByRole
  <1>4. request.strategy = "RoleBased" /\ idx + 1 \in Bots /\ idx < NumBots
        /\ status = "running"
    BY <1>1 DEF PlaceByRole, Loop, Bots
  <1> HIDE DEF S, w
  <1>5. w \in S /\ \A v \in S : Load(w) <= Load(v)
    BY <1>2, LeastLoadedFacts DEF w, PlacementInv
  <1>6. w \in Listed /\ w \in Workers
    BY <1>1, <1>2, <1>5, PositionFacts
  <1>7. NextBotTo(w) /\ isolated' = isolated
    BY <1>3, <1>4 DEF Place, NextBotTo, Pushed, Wanted, Affinities
  <1> QED  BY <1>4, <1>5, <1>6, <1>7 DEF S, w

LEMMA LoadNext ==
    ASSUME PlacementInv, PlaceByLoad
    PROVE  /\ MostAvailable \in Listed /\ MostAvailable \in Workers
           /\ \A v \in Listed : /\ Available(v) \in Nat
                                /\ Available(v) <= Available(MostAvailable)
           /\ NextBotTo(MostAvailable) /\ isolated' = isolated
           /\ request.strategy = "LoadBalanced"
  <1>1. request \in Requests /\ idx \in 0..NumBots /\ NumBots \in Nat
    BY PlacementAssumption DEF PlacementInv, TypeOK
  <1>2. /\ MostAvailable \in Listed
        /\ \A v \in Listed : /\ Available(v) \in Nat
                             /\ Available(v) <= Available(MostAvailable)
    BY MostAvailableFacts DEF PlaceByLoad, Loop, PlacementInv
  <1>3. MostAvailable \in Workers
    BY <1>1, <1>2, PositionFacts
  <1>4. request.strategy = "LoadBalanced" /\ idx + 1 \in Bots /\ idx < NumBots
        /\ status = "running"
    BY <1>1 DEF PlaceByLoad, Loop, Bots
  <1>5. NextBotTo(MostAvailable) /\ isolated' = isolated
    BY <1>4 DEF PlaceByLoad, Place, NextBotTo, Pushed, Wanted, Affinities
  <1> QED  BY <1>2, <1>3, <1>4, <1>5

LEMMA IsolateNext ==
    ASSUME PlacementInv, Isolate
    PROVE  \E w \in Workers : /\ isolated' = <<w>> /\ NextBotTo(w)
                              /\ isolated \in {<<>>, <<w>>}
                              /\ request.strategy = "Isolation"
  <1>1. /\ request \in Requests /\ idx \in 0..NumBots /\ NumBots \in Nat
        /\ placed \in [Workers -> Seq(Bots)]
        /\ isolated \in {<<>>} \cup {<<w>> : w \in Workers}
    BY PlacementAssumption DEF PlacementInv, TypeOK
  <1>2. PICK w \in Workers : isolated' = <<w>> /\ isolated \in {<<>>, <<w>>}
    <2>1. CASE isolated # <<>>
      <3>1. PICK w \in Workers : isolated = <<w>>
        BY <1>1, <2>1
      <3>2. isolated' = isolated
        BY <2>1 DEF Isolate
      <3> QED  BY <3>1, <3>2
    <2>2. CASE isolated = <<>>
      <3>1. request.listed # <<>> /\ isolated' = <<request.listed[1]>>
        BY <2>2 DEF Isolate
      <3>2. request.listed[1] \in Workers
        <4>1. Len(request.listed) \in Nat /\ Len(request.listed) # 0
          BY <1>1, <3>1, RequestFacts, ListingFacts
        <4>2. 1 \in 1..Len(request.listed)
          BY <4>1
        <4> QED  BY <1>1, <4>2, RequestFacts, ListingFacts
      <3> QED  BY <2>2, <3>1, <3>2
    <2> QED  BY <2>1, <2>2
  <1>3. request.strategy = "Isolation" /\ idx + 1 \in Bots /\ idx < NumBots
        /\ status = "running" /\ RequiresIsolation(idx + 1)
    BY <1>1 DEF Isolate, Isolating, Bots
  <1>4. Pushed(w, <<idx + 1>>)
    <2>1. isolated'[1] = w
      BY <1>2
    <2>2. placed' = [placed EXCEPT ![w] = Append(@, idx + 1)]
      BY <2>1 DEF Isolate
    <2>3. placed[w] \in Seq(Bots)
      BY <1>1
    <2>4. Append(placed[w], idx + 1) = placed[w] \o <<idx + 1>>
      BY <1>3, <2>3, AppendIsConcat
    <2> QED  BY <1>1, <2>2, <2>4 DEF Pushed
  <1>5. NextBotTo(w)
    BY <1>3, <1>4 DEF Isolate, NextBotTo, Wanted, Affinities
  <1> QED  BY <1>2, <1>3, <1>5

-----------------------------------------------------------------------------
(* A group is placed: an iteration of the loop of affinity. *)

(* No bot of a group is placed before the group is. *)
LEMMA GroupApart ==
    ASSUME PlacementInv, request.strategy \in Affinities,
           NEW b \in Bots \ PlacedBots, NEW c \in Bots,
           AffinityKey(c) = AffinityKey(b)
    PROVE  c \notin PlacedBots
  <1>1. \A d \in PlacedBots : Group(d) \subseteq PlacedBots
    BY DEF PlacementInv, InStep
  <1>2. b \in Group(c)
    BY DEF Group
  <1> QED  BY <1>1, <1>2

LEMMA GroupNext ==
    ASSUME PlacementInv, NEW b \in Bots, PlaceGroup(b)
    PROVE  \E w \in Workers, s \in Seq(Bots) :
              /\ w = NextInTurn /\ w \in Listed
              /\ Pushed(w, s) /\ placed' \in [Workers -> Seq(Bots)] /\ placed'[w] # <<>>
              /\ \E i \in DOMAIN s : s[i] = b
              /\ {s[i] : i \in DOMAIN s} = Group(b)
              /\ \A c \in Group(b) : c \notin PlacedBots
              /\ idx \in 0..NumBots /\ idx' \in 0..NumBots /\ idx' = idx + 1
              /\ request' = request /\ isolated' = isolated
              /\ status = "running" /\ status' = status
              /\ request.strategy \in Affinities
              /\ OnePlace' /\ InStep'
  <1>1. /\ request \in Requests /\ idx \in 0..NumBots /\ NumBots \in Nat
        /\ placed \in [Workers -> Seq(Bots)]
    BY PlacementAssumption DEF PlacementInv, TypeOK
  <1>2. /\ request.strategy \in Affinities /\ request.listed # <<>>
        /\ status = "running" /\ b \notin PlacedBots
    BY DEF PlaceGroup, Loop
  <1>3. NextInTurn \in Listed /\ NextInTurn \in Workers
    BY <1>1, <1>2, NextInTurnFacts
  <1>4. PICK s \in InOrder(Group(b)) : Place(NextInTurn, s)
    BY DEF PlaceGroup
  <1>5. Group(b) \in SUBSET Bots /\ b \in Group(b)
    BY DEF Group
  <1>6. /\ s \in Seq(Bots) /\ \A i, j \in DOMAIN s : s[i] = s[j] => i = j
        /\ {s[i] : i \in DOMAIN s} = Group(b)
    BY <1>5, InOrderFacts
  <1>7. PICK w \in Workers : w = NextInTurn /\ w \in Listed
    BY <1>3
  <1>8. /\ Pushed(w, s) /\ idx' = idx + 1
        /\ request' = request /\ isolated' = isolated /\ status' = status
    BY <1>4, <1>7 DEF Place, Pushed
  <1>9. \A c \in Group(b) : c \notin PlacedBots
    BY <1>2, GroupApart DEF Group
  <1>10. \A i \in DOMAIN s : s[i] \notin PlacedBots
    BY <1>6, <1>9
  <1>11. OnePlace'
    BY <1>1, <1>6, <1>8, <1>10, PushedOnce DEF PlacementInv
  <1>12. PlacedBots' = PlacedBots \cup Group(b)
    BY <1>1, <1>6, <1>8, PushedSet
  <1>13. /\ IsFiniteSet(PlacedBots) /\ IsFiniteSet(PlacedBots')
         /\ IsFiniteSet(Bots) /\ Cardinality(Bots) = NumBots
         /\ PlacedBots' \subseteq Bots
    <2>1. IsFiniteSet(Bots) /\ Cardinality(Bots) = NumBots
      BY <1>1, FS_Interval DEF Bots
    <2>2. PlacedBots \subseteq Bots /\ PlacedBots' \subseteq Bots
      BY DEF PlacedBots
    <2> QED  BY <2>1, <2>2, FS_Subset
  <1>14. Cardinality(PlacedBots) + 1 <= Cardinality(PlacedBots')
    <2>1. IsFiniteSet(PlacedBots \cup {b})
      BY <1>13, FS_AddElement
    <2>2. Cardinality(PlacedBots \cup {b}) = Cardinality(PlacedBots) + 1
      BY <1>2, <1>13, FS_AddElement
    <2>3. PlacedBots \cup {b} \subseteq PlacedBots'
      BY <1>5, <1>12
    <2> QED  BY <1>13, <2>2, <2>3, FS_Subset
  <1>15. idx <= Cardinality(PlacedBots)
         /\ \A c \in PlacedBots : Group(c) \subseteq PlacedBots
    BY <1>2 DEF PlacementInv, InStep
  <1>16. Cardinality(PlacedBots) \in Nat /\ Cardinality(PlacedBots') \in Nat
         /\ Cardinality(PlacedBots') <= NumBots
    BY <1>13, FS_CardinalityType, FS_Subset
  <1>17. idx' <= Cardinality(PlacedBots') /\ idx' \in 0..NumBots
    BY <1>1, <1>8, <1>14, <1>15, <1>16
  <1>18. \A c \in PlacedBots' : Group(c) \subseteq PlacedBots'
    BY <1>12, <1>15 DEF Group
  <1>19. InStep'
    <2>1. \A c : Group(c)' = Group(c)
      BY <1>8, SameRequest
    <2>2. (\A c \in PlacedBots : Group(c) \subseteq PlacedBots)'
      BY <1>18, <2>1
    <2> QED  BY <1>2, <1>8, <1>17, <2>2 DEF InStep
  <1>20. \E i \in DOMAIN s : s[i] = b
    BY <1>5, <1>6
  <1>21. placed' \in [Workers -> Seq(Bots)] /\ placed'[w] # <<>>
    <2>1. /\ placed' \in [Workers -> Seq(Bots)] /\ Len(placed[w]) \in Nat
          /\ Len(s) \in Nat /\ DOMAIN s = 1..Len(s)
          /\ Len(placed'[w]) = Len(placed[w]) + Len(s)
      BY <1>1, <1>6, <1>8, PushedFacts
    <2>2. Len(s) # 0
      BY <1>20, <2>1
    <2>3. placed'[w] \in Seq(Bots) /\ Len(placed'[w]) # 0
      BY <2>1, <2>2
    <2> QED  BY <2>1, <2>3
  <1> QED
    BY <1>1, <1>2, <1>6, <1>7, <1>8, <1>9, <1>11, <1>17, <1>19, <1>20, <1>21, Zenon

-----------------------------------------------------------------------------
(* The other steps *)

(* What is true of the assignments does not depend on how the call ends. *)
LEMMA SamePlacement ==
    ASSUME PlacementInv, UNCHANGED <<request, placed, idx, isolated>>
    PROVE  /\ OnePlace' /\ InStep' /\ OnListed' /\ TakesTurns'
           /\ CapabilityRespected' /\ NoEnvyByRole' /\ OverloadOnlyWhenAllFull'
           /\ KeptTogether' /\ PlacedBots' = PlacedBots /\ Wanted' = Wanted
  <1>1. /\ Listed' = Listed /\ Wanted' = Wanted
        /\ \A w : Position(w)' = Position(w)
        /\ \A b : AffinityKey(b)' = AffinityKey(b)
        /\ \A b : Group(b)' = Group(b)
        /\ \A role : Eligible(role)' = Eligible(role)
    BY SameRequest
  <1>2. PlacedBots' = PlacedBots /\ \A w : Load(w)' = Load(w)
    BY DEF PlacedBots, Load
  <1>3. \A w : Turns(w)' = Turns(w)
    BY DEF Turns, Load, AffinityKey
  <1>4. OnePlace' /\ InStep' /\ OnListed'
    BY <1>1, <1>2 DEF PlacementInv, OnePlace, InStep, OnListed
  <1>5. TakesTurns'
    BY <1>1, <1>3 DEF PlacementInv, TakesTurns
  <1>6. CapabilityRespected' /\ NoEnvyByRole' /\ OverloadOnlyWhenAllFull'
    BY <1>1, <1>2
       DEF PlacementInv, CapabilityRespected, NoEnvyByRole, OverloadOnlyWhenAllFull
  <1>7. KeptTogether'
    BY <1>1 DEF PlacementInv, KeptTogether
  <1> QED  BY <1>1, <1>2, <1>4, <1>5, <1>6, <1>7

(* The calls that end. *)
Ends == NoWorkers \/ NoCapability \/ PanicByLoad \/ Return

LEMMA EndsFacts ==
    ASSUME Ends
    PROVE  /\ UNCHANGED <<request, placed, idx, isolated>>
           /\ status' \in {"failed", "panicked", "done"}
           /\ status' = "done" => Finished
  BY DEF Ends, NoWorkers, NoCapability, PanicByLoad, Return, End

(* Between the calls of the isolation policy. *)
LEMMA BetweenFacts ==
    ASSUME TypeOK, Relist \/ NotIsolated
    PROVE  /\ UNCHANGED <<placed, isolated, status>> /\ status = "running"
           /\ request.strategy = "Isolation" /\ request'.strategy = "Isolation"
           /\ request' \in Requests
           /\ request'.bot = request.bot
           /\ idx' \in 0..NumBots /\ idx \in 0..NumBots
  <1>1. idx \in 0..NumBots /\ NumBots \in Nat /\ request \in Requests
    BY PlacementAssumption DEF TypeOK
  <1>2. \A l : [request EXCEPT !.listed = l].strategy = request.strategy
               /\ [request EXCEPT !.listed = l].bot = request.bot
    <2>1. request \in [strategy : {request.strategy}, listed : Listings, bot : {request.bot},
                       caps : {request.caps}, maxBots : {request.maxBots},
                       checked : {request.checked}]
      BY <1>1 DEF Requests, RequestsOf
    <2> QED  BY <2>1
  <1>3. CASE Relist
    <2>1. PICK l \in Listings : request' = [request EXCEPT !.listed = l]
      BY <1>3 DEF Relist
    <2>2. request' \in Requests
      BY <1>1, <2>1, Relisted
    <2> QED  BY <1>1, <1>2, <1>3, <2>1, <2>2 DEF Relist, Isolating
  <1>4. CASE NotIsolated
    BY <1>1, <1>4 DEF NotIsolated, Isolating
  <1> QED  BY <1>3, <1>4

(***************************************************************************)
(* Each part of the invariant is kept by every step.                       *)
(***************************************************************************)

LEMMA NextCases ==
    ASSUME Next
    PROVE  \/ PlaceRoundRobin \/ PlaceByRole \/ PlaceByLoad
           \/ \E b \in Bots : PlaceGroup(b)
           \/ Isolate \/ Relist \/ NotIsolated \/ Ends
  BY DEF Next, Ends

(* The values have their types, and no bot is in two places. *)
LEMMA TypesKept ==
    ASSUME PlacementInv, Next
    PROVE  TypeOK' /\ OnePlace' /\ InStep' /\ Complete'
  <1>1. TypeOK
    BY DEF PlacementInv
  <1>2. CASE PlaceRoundRobin
    <2>1. /\ placed' \in [Workers -> Seq(Bots)] /\ idx' \in 0..NumBots
          /\ OnePlace' /\ InStep' /\ Complete'
      BY <1>2, RoundRobinNext, NextBotFacts
    <2> QED  BY <1>1, <1>2, <2>1, RoundRobinNext DEF TypeOK, NextBotTo
  <1>3. CASE PlaceByRole
    <2>1. PICK w \in Workers : NextBotTo(w) /\ isolated' = isolated
      BY <1>3, RoleNext
    <2>2. /\ placed' \in [Workers -> Seq(Bots)] /\ idx' \in 0..NumBots
          /\ OnePlace' /\ InStep' /\ Complete'
      BY <2>1, NextBotFacts
    <2> QED  BY <1>1, <2>1, <2>2 DEF TypeOK, NextBotTo
  <1>4. CASE PlaceByLoad
    <2>1. PICK w \in Workers : NextBotTo(w) /\ isolated' = isolated
      BY <1>4, LoadNext
    <2>2. /\ placed' \in [Workers -> Seq(Bots)] /\ idx' \in 0..NumBots
          /\ OnePlace' /\ InStep' /\ Complete'
      BY <2>1, NextBotFacts
    <2> QED  BY <1>1, <2>1, <2>2 DEF TypeOK, NextBotTo
  <1>5. CASE Isolate
    <2>1. PICK w \in Workers : NextBotTo(w) /\ isolated' = <<w>>
      BY <1>5, IsolateNext
    <2>2. /\ placed' \in [Workers -> Seq(Bots)] /\ idx' \in 0..NumBots
          /\ OnePlace' /\ InStep' /\ Complete'
      BY <2>1, NextBotFacts
    <2> QED  BY <1>1, <2>1, <2>2 DEF TypeOK, NextBotTo
  <1>6. ASSUME NEW b \in Bots, PlaceGroup(b)
        PROVE  TypeOK' /\ OnePlace' /\ InStep' /\ Complete'
    <2>1. /\ placed' \in [Workers -> Seq(Bots)] /\ idx' \in 0..NumBots
          /\ request' = request /\ isolated' = isolated
          /\ status = "running" /\ status' = status /\ OnePlace' /\ InStep'
      BY <1>6, GroupNext
    <2> QED  BY <1>1, <2>1 DEF TypeOK, Complete
  <1>7. CASE Relist \/ NotIsolated
    <2>1. /\ UNCHANGED <<placed, isolated, status>> /\ status = "running"
          /\ request.strategy = "Isolation" /\ request'.strategy = "Isolation"
          /\ request' \in Requests /\ request'.bot = request.bot
          /\ idx' \in 0..NumBots /\ idx \in 0..NumBots
      BY <1>1, <1>7, BetweenFacts
    <2>2. TypeOK' /\ Complete'
      BY <1>1, <2>1 DEF TypeOK, Complete
    <2>3. OnePlace'
      BY <2>1 DEF PlacementInv, OnePlace
    <2>4. PlacedBots' = PlacedBots /\ Wanted' = Wanted
      BY <2>1 DEF PlacedBots, Wanted, RequiresIsolation
    <2>5. PlacedBots = {b \in Wanted : b <= idx}
      BY <2>1 DEF PlacementInv, InStep, Affinities
    <2>6. {b \in Wanted : b <= idx} = {b \in Wanted : b <= idx'}
      <3>1. CASE Relist
        BY <3>1 DEF Relist
      <3>2. CASE NotIsolated
        <4>1. \A b \in Wanted : b \in Int
          BY PlacementAssumption DEF Wanted, Bots
        <4>2. idx + 1 \notin Wanted /\ idx' = idx + 1
          BY <2>1, <3>2 DEF Wanted, NotIsolated
        <4>3. \A b \in Wanted : b <= idx <=> b <= idx + 1
          BY <2>1, <4>1, <4>2
        <4> QED  BY <4>2, <4>3
      <3> QED  BY <1>7, <3>1, <3>2
    <2>7. InStep'
      BY <2>1, <2>4, <2>5, <2>6 DEF InStep, Affinities
    <2> QED  BY <2>2, <2>3, <2>7
  <1>8. CASE Ends
    <2>1. /\ UNCHANGED <<request, placed, idx, isolated>>
          /\ status' \in {"failed", "panicked", "done"}
          /\ status' = "done" => Finished
      BY <1>8, EndsFacts
    <2>2. OnePlace' /\ InStep' /\ PlacedBots' = PlacedBots /\ Wanted' = Wanted
      BY <2>1, SamePlacement
    <2>3. TypeOK'
      BY <1>1, <2>1 DEF TypeOK
    <2>4. Finished => PlacedBots = Wanted
      <3>1. CASE request.strategy \in Affinities
        BY <3>1 DEF Finished, Wanted, Affinities
      <3>2. CASE request.strategy \notin Affinities
        <4>1. \A b \in Wanted : b <= NumBots
          BY PlacementAssumption DEF Wanted, Bots
        <4>2. PlacedBots = {b \in Wanted : b <= idx}
          BY <3>2 DEF PlacementInv, InStep
        <4> QED  BY <3>2, <4>1, <4>2 DEF Finished
      <3> QED  BY <3>1, <3>2
    <2> QED  BY <2>1, <2>2, <2>3, <2>4 DEF Complete
  <1> QED  BY <1>2, <1>3, <1>4, <1>5, <1>6, <1>7, <1>8, NextCases

(* Only listed workers are used, and one to isolate. *)
LEMMA ListedKept ==
    ASSUME PlacementInv, Next
    PROVE  OnListed'
  <1>1. TypeOK /\ placed \in [Workers -> Seq(Bots)]
    BY DEF PlacementInv, TypeOK
  <1>2. ASSUME NEW w \in Workers, NEW s \in Seq(Bots), Pushed(w, s), w \in Listed,
               request' = request, request.strategy # "Isolation"
        PROVE  OnListed'
    <2>1. \A v \in Workers \ {w} : placed'[v] = placed[v]
      BY <1>1, <1>2, PushedFacts
    <2>2. Listed' = Listed
      BY <1>2, SameRequest
    <2> QED  BY <1>2, <2>1, <2>2 DEF PlacementInv, OnListed
  <1>3. ASSUME NEW w \in Workers, NextBotTo(w)
        PROVE  <<idx + 1>> \in Seq(Bots) /\ Pushed(w, <<idx + 1>>) /\ request' = request
    BY <1>3, NextBotFacts DEF NextBotTo
  <1>4. CASE PlaceRoundRobin
    BY <1>2, <1>3, <1>4, RoundRobinNext
  <1>5. CASE PlaceByRole
    <2>1. PICK w \in Workers : NextBotTo(w) /\ w \in Listed /\ request.strategy = "RoleBased"
      BY <1>5, RoleNext
    <2> QED  BY <1>2, <1>3, <2>1
  <1>6. CASE PlaceByLoad
    <2>1. PICK w \in Workers : NextBotTo(w) /\ w \in Listed /\ request.strategy = "LoadBalanced"
      BY <1>6, LoadNext
    <2> QED  BY <1>2, <1>3, <2>1
  <1>7. CASE Isolate
    <2>1. PICK w \in Workers : /\ isolated' = <<w>> /\ NextBotTo(w)
                               /\ isolated \in {<<>>, <<w>>}
                               /\ request.strategy = "Isolation"
      BY <1>7, IsolateNext
    <2>2. request' = request
      BY <2>1 DEF NextBotTo
    <2>3. \A v \in Workers \ {w} : placed'[v] = placed[v]
      BY <1>1, <1>3, <2>1, PushedFacts
    <2>4. \A v \in Workers \ {w} : placed[v] = <<>>
      <3>1. \A v \in Workers : placed[v] # <<>> => isolated = <<v>>
        BY <2>1 DEF PlacementInv, OnListed
      <3>2. \A v \in Workers : isolated = <<v>> => v = w
        BY <2>1
      <3> QED  BY <3>1, <3>2
    <2> QED  BY <2>1, <2>2, <2>3, <2>4 DEF OnListed
  <1>8. ASSUME NEW b \in Bots, PlaceGroup(b)
        PROVE  OnListed'
    <2>1. PICK w \in Workers, s \in Seq(Bots) :
              /\ w \in Listed /\ Pushed(w, s) /\ request' = request
              /\ request.strategy \in Affinities
      BY <1>8, GroupNext
    <2> QED  BY <1>2, <2>1 DEF Affinities
  <1>9. CASE Relist \/ NotIsolated
    BY <1>1, <1>9, BetweenFacts DEF PlacementInv, OnListed
  <1>10. CASE Ends
    BY <1>10, EndsFacts, SamePlacement
  <1> QED  BY <1>4, <1>5, <1>6, <1>7, <1>8, <1>9, <1>10, NextCases

(* The bots placed are bots of the request. *)
LEMMA PlacedAreBots ==
    ASSUME placed \in [Workers -> Seq(Bots)], NEW w \in Workers, NEW i \in DOMAIN placed[w]
    PROVE  /\ placed[w][i] \in Bots /\ placed[w][i] \in PlacedBots
           /\ Len(placed[w]) \in Nat /\ i \in 1..Len(placed[w])
  <1>1. placed[w] \in Seq(Bots)
    OBVIOUS
  <1>2. placed[w][i] \in Bots /\ Len(placed[w]) \in Nat /\ i \in 1..Len(placed[w])
    BY <1>1, ElementOfSeq, LenProperties
  <1> QED  BY <1>2 DEF PlacedBots

(* By role, a step that changes what is placed or asked is PlaceByRole. *)
LEMMA RoleSteps ==
    ASSUME PlacementInv, Next, request'.strategy = "RoleBased"
    PROVE  PlaceByRole \/ UNCHANGED <<request, placed, idx, isolated>>
  <1>1. TypeOK
    BY DEF PlacementInv
  <1>2. CASE Relist \/ NotIsolated
    BY <1>1, <1>2, BetweenFacts
  <1>3. CASE \E b \in Bots : PlaceGroup(b)
    BY <1>3, GroupNext DEF Affinities
  <1>4. CASE PlaceRoundRobin
    BY <1>4, RoundRobinNext DEF NextBotTo
  <1>5. CASE PlaceByLoad
    BY <1>5, LoadNext DEF NextBotTo
  <1>6. CASE Isolate
    BY <1>6, IsolateNext DEF NextBotTo
  <1>7. CASE Ends
    BY <1>7, EndsFacts
  <1> QED  BY <1>2, <1>3, <1>4, <1>5, <1>6, <1>7, NextCases

(* With affinity, it is PlaceGroup. *)
LEMMA AffinitySteps ==
    ASSUME PlacementInv, Next, request'.strategy \in Affinities
    PROVE  \/ \E b \in Bots : PlaceGroup(b)
           \/ UNCHANGED <<request, placed, idx, isolated>>
  <1>1. TypeOK
    BY DEF PlacementInv
  <1>2. CASE Relist \/ NotIsolated
    BY <1>1, <1>2, BetweenFacts DEF Affinities
  <1>3. CASE PlaceByRole
    <2>1. \E w : NextBotTo(w)
      BY <1>3, RoleNext
    <2> QED  BY <2>1 DEF NextBotTo
  <1>4. CASE PlaceRoundRobin
    BY <1>4, RoundRobinNext DEF NextBotTo
  <1>5. CASE PlaceByLoad
    BY <1>5, LoadNext DEF NextBotTo
  <1>6. CASE Isolate
    BY <1>6, IsolateNext DEF NextBotTo
  <1>7. CASE Ends
    BY <1>7, EndsFacts
  <1> QED  BY <1>2, <1>3, <1>4, <1>5, <1>6, <1>7, NextCases

LEMMA CapabilityKept ==
    ASSUME PlacementInv, Next
    PROVE  CapabilityRespected'
  <1> SUFFICES ASSUME request'.strategy = "RoleBased", PlaceByRole
               PROVE  CapabilityRespected'
    BY RoleSteps, SamePlacement DEF CapabilityRespected
  <1>1. placed \in [Workers -> Seq(Bots)]
    BY DEF PlacementInv, TypeOK
  <1> DEFINE Fits(b, u) == \/ request.bot[b].role \in request.caps[u]
                           \/ /\ GeneralUser \in request.caps[u]
                              /\ \A v \in Listed : request.bot[b].role \notin request.caps[v]
  <1>2. PICK w \in Workers : /\ w \in Eligible(request.bot[idx + 1].role)
                             /\ NextBotTo(w) /\ request.strategy = "RoleBased"
    BY RoleNext
  <1>3. Fits(idx + 1, w)
    BY <1>2 DEF Eligible
  <1>4. \A u \in Workers : \A i \in DOMAIN placed[u] : Fits(placed[u][i], u)
    BY <1>2 DEF PlacementInv, CapabilityRespected
  <1>5. request' = request
    BY <1>2 DEF NextBotTo
  <1>6. ASSUME NEW u \in Workers, NEW i \in DOMAIN placed'[u]
        PROVE  Fits(placed'[u][i], u)
    <2> HIDE DEF Fits
    <2>1. \/ i \in DOMAIN placed[u] /\ placed'[u][i] = placed[u][i]
          \/ u = w /\ placed'[u][i] = idx + 1
      BY <1>2, NextBotPlaces
    <2> QED  BY <1>3, <1>4, <2>1
  <1>7. Listed' = Listed
    BY <1>5, SameRequest
  <1> QED  BY <1>5, <1>6, <1>7 DEF CapabilityRespected

LEMMA NoEnvyKept ==
    ASSUME PlacementInv, Next
    PROVE  NoEnvyByRole'
  <1> SUFFICES ASSUME request'.strategy = "RoleBased", PlaceByRole
               PROVE  NoEnvyByRole'
    BY RoleSteps, SamePlacement DEF NoEnvyByRole
  <1>1. placed \in [Workers -> Seq(Bots)]
    BY DEF PlacementInv, TypeOK
  <1>2. PICK w \in Workers :
            /\ NextBotTo(w) /\ request.strategy = "RoleBased"
            /\ \A v \in Eligible(request.bot[idx + 1].role) : Load(w) <= Load(v)
    BY RoleNext
  <1>3. /\ <<idx + 1>> \in Seq(Bots) /\ Pushed(w, <<idx + 1>>) /\ request' = request
        /\ Len(<<idx + 1>>) = 1 /\ DOMAIN <<idx + 1>> = {1} /\ <<idx + 1>>[1] = idx + 1
    BY <1>2, NextBotFacts DEF NextBotTo
  <1>4. \A v \in Workers : Load(v) \in Nat /\ Load(v)' \in Nat /\ Load(v) <= Load(v)'
    <2> SUFFICES ASSUME NEW v \in Workers
                 PROVE  Load(v) \in Nat /\ Load(v)' \in Nat /\ Load(v) <= Load(v)'
      OBVIOUS
    <2>1. placed[v] \in Seq(Bots)
      BY <1>1
    <2>2. Len(placed[v]) \in Nat
      BY <2>1, LenProperties
    <2>3. Len(placed'[v]) \in {Len(placed[v]), Len(placed[v]) + 1}
      <3>1. /\ \A u \in Workers \ {w} : placed'[u] = placed[u]
            /\ Len(placed'[w]) = Len(placed[w]) + Len(<<idx + 1>>)
        BY <1>1, <1>2, <1>3, PushedFacts
      <3> QED  BY <1>3, <3>1
    <2> QED  BY <2>2, <2>3 DEF Load
  <1>5. \A role : Eligible(role)' = Eligible(role) /\ Eligible(role) \subseteq Workers
    <2>1. Listed \subseteq Workers
      BY PositionFacts DEF PlacementInv, TypeOK
    <2>2. \A role : Eligible(role) \subseteq Workers
      BY <2>1 DEF Eligible
    <2> QED  BY <1>3, <2>2, SameRequest
  <1>6. ASSUME NEW u \in Workers, NEW i \in DOMAIN placed'[u],
               NEW v \in Eligible(request.bot[placed'[u][i]].role)
        PROVE  i - 1 <= Load(v)'
    <2>1. v \in Workers
      BY <1>5
    <2>2. CASE i \in DOMAIN placed[u] /\ placed'[u][i] = placed[u][i]
      <3>1. i - 1 <= Load(v)
        BY <1>2, <2>2 DEF PlacementInv, NoEnvyByRole
      <3>2. i \in Nat
        BY <1>1, <2>2, PlacedAreBots
      <3> QED  BY <1>4, <2>1, <3>1, <3>2
    <2>3. CASE u = w /\ i = Len(placed[w]) + 1 /\ placed'[u][i] = idx + 1
      <3>1. Load(w) <= Load(v) /\ i = Load(w) + 1
        BY <1>2, <2>3 DEF Load
      <3> QED  BY <1>4, <2>1, <3>1
    <2> QED  BY <1>2, <2>2, <2>3, NextBotPlaces
  <1> QED  BY <1>3, <1>5, <1>6 DEF NoEnvyByRole

LEMMA OverloadKept ==
    ASSUME PlacementInv, Next
    PROVE  OverloadOnlyWhenAllFull'
  <1> SUFFICES ASSUME request'.strategy = "LoadBalanced", PlaceByLoad
               PROVE  OverloadOnlyWhenAllFull'
    <2>1. TypeOK
      BY DEF PlacementInv
    <2>2. CASE Relist \/ NotIsolated
      BY <2>1, <2>2, BetweenFacts DEF OverloadOnlyWhenAllFull
    <2>3. CASE \E b \in Bots : PlaceGroup(b)
      BY <2>3, GroupNext DEF OverloadOnlyWhenAllFull, Affinities
    <2>4. CASE PlaceRoundRobin
      BY <2>4, RoundRobinNext DEF NextBotTo, OverloadOnlyWhenAllFull
    <2>5. CASE PlaceByRole
      BY <2>5, RoleNext DEF NextBotTo, OverloadOnlyWhenAllFull
    <2>6. CASE Isolate
      BY <2>6, IsolateNext DEF NextBotTo, OverloadOnlyWhenAllFull
    <2>7. CASE Ends
      BY <2>7, EndsFacts, SamePlacement
    <2>8. CASE PlaceByLoad
      BY <2>8 DEF OverloadOnlyWhenAllFull
    <2> QED  BY <2>2, <2>3, <2>4, <2>5, <2>6, <2>7, <2>8, NextCases
  <1>1. placed \in [Workers -> Seq(Bots)] /\ request \in Requests
    BY DEF PlacementInv, TypeOK
  <1>2. PICK w \in Workers :
            /\ w \in Listed /\ NextBotTo(w) /\ request.strategy = "LoadBalanced"
            /\ \A v \in Listed : Available(v) \in Nat /\ Available(v) <= Available(w)
    BY LoadNext
  <1>3. <<idx + 1>> \in Seq(Bots) /\ Pushed(w, <<idx + 1>>) /\ request' = request
        /\ Len(<<idx + 1>>) = 1
    BY <1>2, NextBotFacts DEF NextBotTo
  <1>4. Listed' = Listed /\ Listed \subseteq Workers
    BY <1>1, <1>3, SameRequest, PositionFacts
  <1>5. \A v \in Listed : /\ Load(v) \in Nat /\ request.maxBots[v] \in 0..MaxCapacity
                          /\ Load(v)' = IF v = w THEN Load(v) + 1 ELSE Load(v)
    <2> SUFFICES ASSUME NEW v \in Listed
                 PROVE  /\ Load(v) \in Nat /\ request.maxBots[v] \in 0..MaxCapacity
                        /\ Load(v)' = IF v = w THEN Load(v) + 1 ELSE Load(v)
      OBVIOUS
    <2>1. v \in Workers
      BY <1>4
    <2>2. placed[v] \in Seq(Bots) /\ request.maxBots[v] \in 0..MaxCapacity
      BY <1>1, <2>1, RequestFacts
    <2>3. Len(placed[v]) \in Nat
      BY <2>2, LenProperties
    <2>4. Len(placed'[v]) = IF v = w THEN Len(placed[v]) + 1 ELSE Len(placed[v])
      BY <1>1, <1>3, <2>1, PushedFacts
    <2> QED  BY <2>2, <2>3, <2>4 DEF Load
  <1>6. \A u \in Listed : Load(u) > request.maxBots[u] =>
            \A v \in Listed : Load(v) >= request.maxBots[v]
    BY <1>2 DEF PlacementInv, OverloadOnlyWhenAllFull
  <1>7. MaxCapacity \in Nat /\ WordSize \in Nat /\ WordSize > MaxCapacity
    BY PlacementAssumption
  <1>8. \A v \in Listed : request.maxBots[v] - Load(v) \in 0..MaxCapacity =>
            Available(v) = request.maxBots[v] - Load(v)
    <2>1. \A a \in 0..MaxCapacity : a % WordSize = a
      BY <1>7
    <2> QED  BY <2>1 DEF Available
  <1>9. Load(w) >= request.maxBots[w] => \A v \in Listed : Load(v) >= request.maxBots[v]
    <2> SUFFICES ASSUME Load(w) >= request.maxBots[w], NEW v \in Listed,
                        ~(Load(v) >= request.maxBots[v])
                 PROVE  FALSE
      OBVIOUS
    <2>1. ~(Load(w) > request.maxBots[w])
      BY <1>2, <1>6
    <2>2. Load(w) = request.maxBots[w] /\ request.maxBots[w] - Load(w) = 0
      BY <1>2, <1>5, <1>7, <2>1
    <2>3. 0 \in 0..MaxCapacity
      BY <1>7
    <2>4. Available(w) = 0
      BY <1>2, <1>8, <2>2, <2>3
    <2>5. request.maxBots[v] - Load(v) \in 1..MaxCapacity
      BY <1>5, <1>7
    <2>6. Available(v) = request.maxBots[v] - Load(v) /\ Available(v) <= 0
      BY <1>2, <1>7, <1>8, <2>4, <2>5
    <2> QED  BY <1>7, <2>5, <2>6
  <1>10. ASSUME NEW u \in Listed, Load(u)' > request.maxBots[u], NEW v \in Listed
         PROVE  Load(v)' >= request.maxBots[v]
    <2>1. Load(v) >= request.maxBots[v]
      <3>1. CASE u = w
        <4>1. Load(w) >= request.maxBots[w]
          BY <1>2, <1>5, <1>7, <1>10, <3>1
        <4> QED  BY <1>9, <4>1
      <3>2. CASE u # w
        BY <1>5, <1>6, <1>10, <3>2
      <3> QED  BY <3>1, <3>2
    <2> QED  BY <1>5, <1>7, <2>1
  <1> QED  BY <1>3, <1>4, <1>10 DEF OverloadOnlyWhenAllFull

(* What must stay together does. *)
LEMMA TogetherKept ==
    ASSUME PlacementInv, Next
    PROVE  KeptTogether'
  <1>1. placed \in [Workers -> Seq(Bots)] /\ TypeOK' /\ OnListed'
    BY TypesKept, ListedKept DEF PlacementInv, TypeOK
  <1>2. CASE request'.strategy = "Isolation"
    <2>1. ASSUME NEW u \in Workers, NEW i \in DOMAIN placed'[u]
          PROVE  isolated' = <<u>>
      <3>1. placed'[u] # <<>>
        <4>1. DOMAIN placed'[u] # {}
          BY <2>1
        <4>2. placed'[u] \in Seq(Bots)
          BY <1>1 DEF TypeOK
        <4> QED  BY <4>1
      <3> QED  BY <1>1, <1>2, <3>1 DEF OnListed
    <2>2. \A u, v \in Workers : <<u>> = <<v>> => u = v
      OBVIOUS
    <2> QED  BY <1>2, <2>1, <2>2 DEF KeptTogether
  <1>3. ASSUME NEW b \in Bots, PlaceGroup(b) PROVE KeptTogether'
    <2>1. PICK w \in Workers, s \in Seq(Bots) :
              /\ Pushed(w, s) /\ {s[i] : i \in DOMAIN s} = Group(b)
              /\ \A c \in Group(b) : c \notin PlacedBots
              /\ request' = request /\ request.strategy \in Affinities
      BY <1>3, GroupNext
    <2>2. \A c : AffinityKey(c)' = AffinityKey(c)
      BY <2>1, SameRequest
    <2> SUFFICES ASSUME NEW u \in Workers, NEW v \in Workers,
                        NEW i \in DOMAIN placed'[u], NEW j \in DOMAIN placed'[v],
                        AffinityKey(placed'[u][i]) = AffinityKey(placed'[v][j])
                 PROVE  u = v
      BY <2>1, <2>2 DEF KeptTogether, Affinities
    <2>3. \/ i \in DOMAIN placed[u] /\ placed'[u][i] = placed[u][i]
          \/ u = w /\ placed'[u][i] \in Group(b)
      BY <1>1, <2>1, PushedPlaces
    <2>4. \/ j \in DOMAIN placed[v] /\ placed'[v][j] = placed[v][j]
          \/ v = w /\ placed'[v][j] \in Group(b)
      BY <1>1, <2>1, PushedPlaces
    <2>5. CASE i \in DOMAIN placed[u] /\ placed'[u][i] = placed[u][i]
      <3>1. placed[u][i] \in Bots /\ placed[u][i] \in PlacedBots
        BY <1>1, <2>5, PlacedAreBots
      <3>2. placed'[v][j] \notin Group(b)
        BY <2>1, <2>5, <3>1 DEF Group
      <3>3. AffinityKey(placed[u][i]) = AffinityKey(placed[v][j]) /\ j \in DOMAIN placed[v]
        BY <2>4, <2>5, <3>2
      <3> QED  BY <2>1, <2>5, <3>3 DEF PlacementInv, KeptTogether
    <2>6. CASE u = w /\ placed'[u][i] \in Group(b)
      <3>1. CASE j \in DOMAIN placed[v] /\ placed'[v][j] = placed[v][j]
        <4>1. placed[v][j] \in Bots /\ placed[v][j] \in PlacedBots
          BY <1>1, <3>1, PlacedAreBots
        <4>2. placed[v][j] \in Group(b)
          BY <2>6, <3>1, <4>1 DEF Group
        <4> QED  BY <2>1, <4>1, <4>2
      <3> QED  BY <2>4, <2>6, <3>1
    <2> QED  BY <2>3, <2>5, <2>6
  <1>4. CASE request'.strategy \notin Affinities /\ request'.strategy # "Isolation"
    BY <1>4 DEF KeptTogether
  <1>5. CASE /\ request'.strategy \in Affinities
             /\ UNCHANGED <<request, placed, idx, isolated>>
    BY <1>5, SamePlacement
  <1>6. \/ \E b \in Bots : PlaceGroup(b)
        \/ request'.strategy \notin Affinities
        \/ UNCHANGED <<request, placed, idx, isolated>>
    BY AffinitySteps
  <1> QED  BY <1>2, <1>3, <1>4, <1>5, <1>6

-----------------------------------------------------------------------------
(* Turns *)

(* The keys of the groups on a worker: Turns counts them. *)
Keys(w) == {AffinityKey(placed[w][i]) : i \in DOMAIN placed[w]}

LEMMA KeysFinite ==
    ASSUME placed \in [Workers -> Seq(Bots)], NEW w \in Workers
    PROVE  IsFiniteSet(Keys(w)) /\ Cardinality(Keys(w)) \in Nat
  <1> DEFINE n == Len(placed[w])
             f == [i \in 1..n |-> AffinityKey(placed[w][i])]
  <1>1. n \in Nat /\ DOMAIN placed[w] = 1..n
    <2>1. placed[w] \in Seq(Bots)
      OBVIOUS
    <2> QED  BY <2>1, LenProperties
  <1>2. f \in Surjection(1..n, Keys(w))
    BY <1>1 DEF Keys, Surjection
  <1>3. IsFiniteSet(1..n)
    BY <1>1, FS_Interval
  <1> HIDE DEF f, n
  <1>4. IsFiniteSet(Keys(w))
    BY <1>2, <1>3, FS_Surjection
  <1> QED  BY <1>4, FS_CardinalityType

(* When the worker whose turn it is has had it, and no other, the next one is
   due. *)
LEMMA TurnTaken ==
    ASSUME PlacementInv, request.listed # <<>>, NEW w \in Workers, w = NextInTurn,
           idx' = idx + 1, request' = request,
           request.strategy \in {"RoundRobin"} \cup Affinities,
           Turns(w)' = Turns(w) + 1,
           \A v \in Listed \ {w} : Turns(v)' = Turns(v)
    PROVE  TakesTurns'
  <1> DEFINE n == Len(request.listed)
             r == idx % n
             q == idx \div n
             p == (idx + 1) \div n
             t == (idx + 1) % n
  <1>1. request \in Requests /\ idx \in Nat
    BY PlacementAssumption DEF PlacementInv, TypeOK
  <1>2. n \in Nat \ {0} /\ Position(w) = r + 1 /\ w \in Listed
    BY <1>1, NextInTurnFacts
  <1>3. \A v \in Listed : Position(v) \in 1..n /\ request.listed[Position(v)] = v
    BY <1>1, PositionFacts
  <1>4. \A v \in Listed : Turns(v) = q + (IF Position(v) <= r THEN 1 ELSE 0)
    BY DEF PlacementInv, TakesTurns
  <1>5. /\ Listed' = Listed /\ \A v : Position(v)' = Position(v)
    BY SameRequest
  <1>6. /\ r \in 0..(n - 1) /\ q \in Nat
        /\ r + 1 < n => t = r + 1 /\ p = q
        /\ r + 1 = n => t = 0 /\ p = q + 1
    <2> HIDE DEF n
    <2> QED  BY <1>1, <1>2, NextTurn
  <1> HIDE DEF n, r, q, p, t
  <1>7. ASSUME NEW v \in Listed
        PROVE  Turns(v)' = p + (IF Position(v) <= t THEN 1 ELSE 0)
    <2>1. Position(v) \in 1..n /\ Turns(v) = q + (IF Position(v) <= r THEN 1 ELSE 0)
      BY <1>3, <1>4
    <2>2. CASE v = w
      <3>1. Turns(v)' = Turns(v) + 1 /\ Position(v) = r + 1
        BY <1>2, <2>2
      <3>2. Turns(v) = q /\ Turns(v)' = q + 1
        BY <1>6, <2>1, <3>1
      <3> QED  BY <1>2, <1>6, <2>1, <3>1, <3>2
    <2>3. CASE v # w
      <3>1. Turns(v)' = Turns(v)
        BY <2>3
      <3>2. Position(v) # r + 1
        BY <1>2, <1>3, <2>3
      <3> QED  BY <1>2, <1>6, <2>1, <3>1, <3>2
    <2> QED  BY <2>2, <2>3
  <1>8. ASSUME NEW v \in Listed'
        PROVE  Turns(v)' = (idx' \div Len(request'.listed))
                  + (IF Position(v)' <= idx' % Len(request'.listed) THEN 1 ELSE 0)
    BY <1>5, <1>7 DEF p, t, n
  <1> QED  BY <1>8 DEF TakesTurns

LEMMA TurnsKept ==
    ASSUME PlacementInv, Next
    PROVE  TakesTurns'
  <1>1. /\ placed \in [Workers -> Seq(Bots)] /\ request \in Requests /\ TypeOK
        /\ Listed \subseteq Workers
    BY PositionFacts DEF PlacementInv, TypeOK
  <1>2. CASE PlaceRoundRobin
    <2> DEFINE s == <<idx + 1>>
    <2>0. PICK w \in Workers : w = NextInTurn
      BY <1>2, RoundRobinNext
    <2>1. /\ NextBotTo(w)
          /\ request.strategy = "RoundRobin" /\ request.strategy \notin Affinities
      BY <1>2, <2>0, RoundRobinNext DEF NextBotTo
    <2>2. s \in Seq(Bots) /\ Len(s) = 1 /\ Pushed(w, s)
      BY <2>1, NextBotFacts DEF NextBotTo
    <2> HIDE DEF s
    <2>3. /\ Len(placed'[w]) = Len(placed[w]) + 1
          /\ \A v \in Workers \ {w} : placed'[v] = placed[v]
      BY <1>1, <2>1, <2>2, PushedFacts
    <2>4. request' = request /\ idx' = idx + 1 /\ request.listed # <<>>
      BY <1>2, <2>1 DEF NextBotTo, PlaceRoundRobin, Loop
    <2>5. Turns(w)' = Turns(w) + 1 /\ \A v \in Workers \ {w} : Turns(v)' = Turns(v)
      BY <2>1, <2>3, <2>4 DEF Turns, Load
    <2> QED  BY <1>1, <2>0, <2>1, <2>4, <2>5, TurnTaken
  <1>3. ASSUME NEW b \in Bots, PlaceGroup(b) PROVE TakesTurns'
    <2>1. PICK w \in Workers, s \in Seq(Bots) :
              /\ w = NextInTurn /\ Pushed(w, s) /\ \E i \in DOMAIN s : s[i] = b
              /\ {s[i] : i \in DOMAIN s} = Group(b)
              /\ \A c \in Group(b) : c \notin PlacedBots
              /\ idx' = idx + 1 /\ request' = request
              /\ placed' \in [Workers -> Seq(Bots)]
              /\ request.strategy \in Affinities
      BY <1>3, GroupNext
    <2>2. request.listed # <<>>
      BY <1>3 DEF PlaceGroup, Loop
    <2>3. \A v \in Workers \ {w} : placed'[v] = placed[v]
      BY <1>1, <2>1, PushedFacts
    <2>4. \A c : AffinityKey(c)' = AffinityKey(c)
      BY <2>1, SameRequest
    <2>5. \A v : Turns(v) = Cardinality(Keys(v)) /\ Turns(v)' = Cardinality(Keys(v)')
      BY <2>1 DEF Turns, Keys
    <2>6. \A v \in Workers \ {w} : Keys(v)' = Keys(v)
      BY <2>3, <2>4 DEF Keys
    <2>7. AffinityKey(b) \notin Keys(w)
      <3> SUFFICES ASSUME NEW i \in DOMAIN placed[w],
                          AffinityKey(b) = AffinityKey(placed[w][i])
                   PROVE  FALSE
        BY DEF Keys
      <3>1. placed[w][i] \in Bots /\ placed[w][i] \in PlacedBots
        BY <1>1, PlacedAreBots
      <3>2. placed[w][i] \in Group(b)
        BY <3>1 DEF Group
      <3> QED  BY <2>1, <3>1, <3>2
    <2>8. Keys(w)' = Keys(w) \cup {AffinityKey(b)}
      <3>1. Keys(w)' = {AffinityKey(placed'[w][i]) : i \in DOMAIN placed'[w]}
        BY <2>4 DEF Keys
      <3>2. ASSUME NEW i \in DOMAIN placed'[w]
            PROVE  AffinityKey(placed'[w][i]) \in Keys(w) \cup {AffinityKey(b)}
        <4>1. \/ i \in DOMAIN placed[w] /\ placed'[w][i] = placed[w][i]
              \/ placed'[w][i] \in Group(b)
          BY <1>1, <2>1, PushedPlaces
        <4> QED  BY <4>1 DEF Keys, Group
      <3>3. ASSUME NEW i \in DOMAIN placed[w]
            PROVE  i \in DOMAIN placed'[w] /\ placed'[w][i] = placed[w][i]
        <4>1. /\ Len(placed[w]) \in Nat /\ Len(s) \in Nat
              /\ DOMAIN placed[w] = 1..Len(placed[w])
              /\ DOMAIN placed'[w] = 1..(Len(placed[w]) + Len(s))
              /\ \A k \in DOMAIN placed[w] : placed'[w][k] = placed[w][k]
          BY <1>1, <2>1, PushedFacts
        <4> QED  BY <4>1
      <3>4. \E i \in DOMAIN placed'[w] : placed'[w][i] = b
        <4>1. PICK j \in DOMAIN s : s[j] = b
          BY <2>1
        <4>2. /\ Len(placed[w]) \in Nat /\ Len(s) \in Nat /\ DOMAIN s = 1..Len(s)
              /\ DOMAIN placed'[w] = 1..(Len(placed[w]) + Len(s))
              /\ placed'[w][Len(placed[w]) + j] = s[j]
          BY <1>1, <2>1, PushedFacts
        <4>3. Len(placed[w]) + j \in DOMAIN placed'[w]
          BY <4>2
        <4> QED  BY <4>1, <4>2, <4>3
      <3> QED  BY <3>1, <3>2, <3>3, <3>4 DEF Keys
    <2>9. Cardinality(Keys(w)') = Cardinality(Keys(w)) + 1
      <3>1. IsFiniteSet(Keys(w))
        BY <1>1, KeysFinite
      <3> QED  BY <2>7, <2>8, <3>1, FS_AddElement
    <2>10. Turns(w)' = Turns(w) + 1 /\ \A v \in Listed \ {w} : Turns(v)' = Turns(v)
      BY <1>1, <2>5, <2>6, <2>9
    <2> QED  BY <2>1, <2>2, <2>10, TurnTaken
  <1>4. CASE UNCHANGED <<request, placed, idx, isolated>>
    BY <1>4, SamePlacement
  <1>5. CASE request'.strategy \notin {"RoundRobin"} \cup Affinities
    BY <1>5 DEF TakesTurns
  <1>6. \/ PlaceRoundRobin \/ \E b \in Bots : PlaceGroup(b)
        \/ UNCHANGED <<request, placed, idx, isolated>>
        \/ request'.strategy \notin {"RoundRobin"} \cup Affinities
    <2>1. CASE Relist \/ NotIsolated
      BY <1>1, <2>1, BetweenFacts DEF Affinities
    <2>2. CASE PlaceByRole
      BY <2>2, RoleNext DEF NextBotTo, Affinities
    <2>3. CASE PlaceByLoad
      BY <2>3, LoadNext DEF NextBotTo, Affinities
    <2>4. CASE Isolate
      BY <2>4, IsolateNext DEF NextBotTo, Affinities
    <2>5. CASE Ends
      BY <2>5, EndsFacts
    <2> QED  BY <2>1, <2>2, <2>3, <2>4, <2>5, NextCases
  <1> QED  BY <1>2, <1>3, <1>4, <1>5, <1>6

-----------------------------------------------------------------------------
(* The invariant and what follows from it *)

LEMMA PlacementInit ==
    ASSUME Init
    PROVE  PlacementInv
  <1>1. /\ request \in Requests /\ idx = 0 /\ isolated = <<>> /\ status = "running"
        /\ placed = [w \in Workers |-> <<>>] /\ NumBots \in Nat
    BY PlacementAssumption DEF Init
  <1>2. \A w \in Workers : /\ placed[w] = <<>> /\ placed[w] \in Seq(Bots)
                           /\ Len(placed[w]) = 0 /\ DOMAIN placed[w] = {}
    BY <1>1
  <1>3. TypeOK
    <2>1. placed \in [Workers -> Seq(Bots)]
      BY <1>1
    <2> QED  BY <1>1, <2>1 DEF TypeOK
  <1>4. PlacedBots = {}
    BY <1>2 DEF PlacedBots
  <1>5. InStep
    <2>1. \A b \in Wanted : ~(b <= 0)
      BY <1>1 DEF Wanted, Bots
    <2>2. Cardinality({}) = 0
      BY FS_EmptySet
    <2>3. idx <= Cardinality(PlacedBots)
      BY <1>1, <1>4, <2>2
    <2> QED  BY <1>1, <1>4, <2>1, <2>3 DEF InStep
  <1>6. TakesTurns
    <2> SUFFICES ASSUME NEW w \in Listed
                 PROVE  Turns(w) = (idx \div Len(request.listed))
                            + (IF Position(w) <= idx % Len(request.listed) THEN 1 ELSE 0)
      BY DEF TakesTurns
    <2>1. w \in Workers /\ Position(w) \in 1..Len(request.listed)
      BY <1>1, PositionFacts
    <2>2. Turns(w) = 0
      <3>1. {AffinityKey(placed[w][i]) : i \in DOMAIN placed[w]} = {}
        BY <1>2, <2>1
      <3>2. Cardinality({}) = 0
        BY FS_EmptySet
      <3>3. Load(w) = 0
        BY <1>2, <2>1 DEF Load
      <3> QED  BY <3>1, <3>2, <3>3 DEF Turns
    <2>3. Len(request.listed) \in Nat
      BY <1>1, RequestFacts, ListingFacts
    <2>4. Len(request.listed) # 0
      BY <2>1, <2>3
    <2>5. idx \div Len(request.listed) = 0 /\ idx % Len(request.listed) = 0
      <3>1. \A n \in Nat \ {0} : 0 \div n = 0 /\ 0 % n = 0
        OBVIOUS
      <3> QED  BY <1>1, <2>3, <2>4, <3>1
    <2>6. ~(Position(w) <= 0)
      BY <2>1, <2>3
    <2> QED  BY <2>2, <2>5, <2>6
  <1>7. OnePlace /\ OnListed /\ Complete
    BY <1>1, <1>2 DEF OnePlace, OnListed, Complete
  <1>8. CapabilityRespected /\ NoEnvyByRole /\ KeptTogether
    BY <1>2 DEF CapabilityRespected, NoEnvyByRole, KeptTogether
  <1>9. OverloadOnlyWhenAllFull
    <2> SUFFICES ASSUME NEW w \in Listed, Load(w) > request.maxBots[w]
                 PROVE  FALSE
      BY DEF OverloadOnlyWhenAllFull
    <2>1. w \in Workers /\ request.maxBots[w] \in 0..MaxCapacity
      BY <1>1, PositionFacts, RequestFacts
    <2>2. Load(w) = 0
      BY <1>2, <2>1 DEF Load
    <2> QED  BY <2>1, <2>2, PlacementAssumption
  <1> QED  BY <1>3, <1>5, <1>6, <1>7, <1>8, <1>9 DEF PlacementInv

(* PlacementInv is inductive: every iteration of a loop of scheduling.rs, every
   answer of the isolation policy and every end of a call keeps it. *)
THEOREM PlacementInductive == Spec => []PlacementInv
  <1>1. PlacementInv /\ [Next]_vars => PlacementInv'
    <2> SUFFICES ASSUME PlacementInv, [Next]_vars PROVE PlacementInv'
      OBVIOUS
    <2>1. CASE Next
      BY <2>1, TypesKept, ListedKept, TurnsKept, CapabilityKept, NoEnvyKept,
         OverloadKept, TogetherKept DEF PlacementInv
    <2>2. CASE UNCHANGED vars
      <3>1. UNCHANGED <<request, placed, idx, isolated>> /\ status' = status
        BY <2>2 DEF vars
      <3>2. TypeOK' /\ Complete'
        BY <3>1, SamePlacement DEF PlacementInv, TypeOK, Complete
      <3> QED  BY <3>1, <3>2, SamePlacement DEF PlacementInv
    <2> QED  BY <2>1, <2>2
  <1> QED  BY <1>1, PlacementInit, PTL DEF Spec

(* The request, the assignments, the loop index and the policy's memory keep
   their types; the index never passes the number of bots. *)
THEOREM PlacementTypes == Spec => []TypeOK
  <1>1. PlacementInv => TypeOK
    BY DEF PlacementInv
  <1> QED  BY <1>1, PlacementInductive, PTL

(* No strategy puts a bot in two places, uses a worker that was not listed, or
   returns before every bot is placed. *)
THEOREM PlacementAssignedOnce == Spec => []AssignedOnce
  <1>1. PlacementInv => AssignedOnce
    <2> SUFFICES ASSUME PlacementInv PROVE AssignedOnce
      OBVIOUS
    <2>1. ASSUME NEW b \in Bots PROVE Cardinality(PlacesOf(b)) <= 1
      <3>1. CASE PlacesOf(b) = {}
        BY <3>1, FS_EmptySet
      <3>2. ASSUME NEW p \in PlacesOf(b) PROVE Cardinality(PlacesOf(b)) <= 1
        <4>1. ASSUME NEW o \in PlacesOf(b) PROVE o = p
          <5>1. /\ o \in Workers \X Bots /\ p \in Workers \X Bots
                /\ o[2] \in DOMAIN placed[o[1]] /\ p[2] \in DOMAIN placed[p[1]]
                /\ placed[o[1]][o[2]] = placed[p[1]][p[2]]
            BY <3>2, <4>1 DEF PlacesOf
          <5>2. o[1] = p[1] /\ o[2] = p[2]
            BY <5>1 DEF PlacementInv, OnePlace
          <5> QED  BY <5>1, <5>2
        <4>2. PlacesOf(b) = {p}
          BY <3>2, <4>1
        <4>3. Cardinality({p}) = 1
          BY FS_Singleton
        <4> QED  BY <4>2, <4>3
      <3> QED  BY <3>1, <3>2
    <2>2. ASSUME request.strategy # "Isolation", NEW w \in Workers \ Listed
          PROVE  placed[w] = <<>>
      BY <2>2 DEF PlacementInv, OnListed
    <2> QED  BY <2>1, <2>2 DEF AssignedOnce, PlacementInv, Complete
  <1> QED  BY <1>1, PlacementInductive, PTL

(* scheduling.rs:34 "Distribute evenly across all workers": the bots, or the
   groups of bots, of two listed workers differ by one at most at every step. *)
THEOREM PlacementEven == Spec => []EvenTurns
  <1>1. PlacementInv => EvenTurns
    <2> SUFFICES ASSUME PlacementInv,
                        request.strategy \in {"RoundRobin"} \cup Affinities,
                        NEW w \in Listed, NEW v \in Listed
                 PROVE  Turns(w) - Turns(v) <= 1
      BY DEF EvenTurns
    <2> DEFINE n == Len(request.listed)
               q == idx \div n
               r == idx % n
    <2>1. n \in Nat \ {0} /\ idx \in Nat
      <3>1. n \in Nat /\ Position(w) \in 1..n
        BY RequestFacts, ListingFacts, PositionFacts DEF PlacementInv, TypeOK
      <3>2. idx \in Nat
        BY PlacementAssumption DEF PlacementInv, TypeOK
      <3> QED  BY <3>1, <3>2
    <2>2. q \in Nat
      <3> HIDE DEF n
      <3> QED  BY <2>1, NextTurn
    <2>3. \A u \in Listed : Turns(u) = q + (IF Position(u) <= r THEN 1 ELSE 0)
      BY DEF PlacementInv, TakesTurns
    <2> HIDE DEF n, q, r
    <2>4. Turns(w) \in {q, q + 1} /\ Turns(v) \in {q, q + 1}
      BY <2>2, <2>3
    <2> QED  BY <2>2, <2>4
  <1> QED  BY <1>1, PlacementInductive, PTL

(* Role based: a bot goes to a worker with its capability, or to a general user
   when no listed worker has it. *)
THEOREM PlacementCapability == Spec => []CapabilityRespected
  <1>1. PlacementInv => CapabilityRespected
    BY DEF PlacementInv
  <1> QED  BY <1>1, PlacementInductive, PTL

(* Role based: no more bots were before a bot on its worker than are on any
   other worker eligible for it. *)
THEOREM PlacementNoEnvy == Spec => []NoEnvyByRole
  <1>1. PlacementInv => NoEnvyByRole
    BY DEF PlacementInv
  <1> QED  BY <1>1, PlacementInductive, PTL

(* Load balanced: a worker gets more than the max_bots it reported only when
   every listed worker is full, in either build and for any capacities. *)
THEOREM PlacementOverload == Spec => []OverloadOnlyWhenAllFull
  <1>1. PlacementInv => OverloadOnlyWhenAllFull
    BY DEF PlacementInv
  <1> QED  BY <1>1, PlacementInductive, PTL

(* The bots of an affinity group, and the bots that require isolation, are on
   one worker, whatever list_workers returns between the calls. *)
THEOREM PlacementTogether == Spec => []KeptTogether
  <1>1. PlacementInv => KeptTogether
    BY DEF PlacementInv
  <1> QED  BY <1>1, PlacementInductive, PTL

=============================================================================
