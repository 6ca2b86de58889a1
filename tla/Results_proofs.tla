--------------------------- MODULE Results_proofs ---------------------------
(***************************************************************************)
(* Proofs about Results.                                                   *)
(***************************************************************************)
EXTENDS Results, Iteration, FiniteSetTheorems, SequenceTheorems, TLAPS

-----------------------------------------------------------------------------
(* The lists.                                                              *)

(* The recursive function of Objects exists, so it has the values its      *)
(* definition says.                                                        *)
LEMMA ObjectsAreRead ==
    ASSUME NEW entries, Len(entries) \in Nat
    PROVE  \E f : /\ Objects(entries) = f[Len(entries)]
                  /\ f[0] = <<>>
                  /\ \A n \in 1 .. Len(entries) :
                        f[n] = IF entries[n] = "object"
                               THEN Append(f[n - 1], n) ELSE f[n - 1]
  <1> DEFINE N == Len(entries)
             Read(f, n) == IF n = 0 THEN <<>>
                           ELSE IF entries[n] = "object" THEN Append(f[n - 1], n)
                           ELSE f[n - 1]
             Fits(f) == f = [n \in 0 .. N |-> Read(f, n)]
             step == [x \in (1 .. N) \X Seq(Int) |->
                         IF entries[x[1]] = "object" THEN Append(x[2], x[1])
                         ELSE x[2]]
  <1>1. \E f : Fits(f)
    <2>1. step \in [(1 .. N) \X Seq(Int) -> Seq(Int)]
      OBVIOUS
    <2>2. \A n \in 1 .. N, v \in Seq(Int) :
             step[<<n, v>>] = IF entries[n] = "object" THEN Append(v, n) ELSE v
      OBVIOUS
    <2> HIDE DEF step
    <2>3. PICK f \in [0 .. N -> Seq(Int)] :
             f[0] = <<>> /\ \A n \in 1 .. N : f[n] = step[<<n, f[n - 1]>>]
      <3>1. <<>> \in Seq(Int) /\ N \in Nat
        OBVIOUS
      <3> HIDE DEF N
      <3>2. Iterable(N, Seq(Int), <<>>, step)
        BY ONLY <2>1, <3>1, Iterates
      <3> QED
        BY <3>2 DEF Iterable
    <2>4. ASSUME NEW n \in 0 .. N PROVE f[n] = Read(f, n)
      <3>1. CASE n = 0
        BY <2>3, <3>1
      <3>2. CASE n \in 1 .. N
        <4>1. f[n - 1] \in Seq(Int) /\ f[n] = step[<<n, f[n - 1]>>]
          BY <2>3, <3>2
        <4> QED
          BY <2>2, <3>2, <4>1
      <3> QED
        BY <3>1, <3>2
    <2> HIDE DEF Read
    <2> QED
      BY <2>3, <2>4
  <1> DEFINE upto == CHOOSE f : Fits(f)
  <1>2. Objects(entries) = upto[N]
    BY DEF Objects
  <1>3. Fits(upto)
    BY <1>1
  <1> HIDE DEF upto
  <1>4. \A n \in 0 .. N : upto[n] = Read(upto, n)
    <2> HIDE DEF Read
    <2> QED
      BY <1>3
  <1>5. upto[0] = <<>>
    BY <1>4
  <1> QED
    BY <1>2, <1>4, <1>5

Increasing(s) == \A j, k \in DOMAIN s : j < k => s[j] < s[k]

(* Objects lists the places of the objects, all of them, in order.         *)
LEMMA ObjectsAre ==
    ASSUME NEW entries, Len(entries) \in Nat,
           DOMAIN entries = 1 .. Len(entries)
    PROVE  /\ Objects(entries) \in Seq(1 .. Len(entries))
           /\ Len(Objects(entries)) <= Len(entries)
           /\ Increasing(Objects(entries))
           /\ \A j \in 1 .. Len(entries) :
                 entries[j] = "object" <=>
                    \E k \in DOMAIN Objects(entries) : Objects(entries)[k] = j
  <1> DEFINE N == Len(entries)
  <1>1. PICK f : /\ Objects(entries) = f[N]
                 /\ f[0] = <<>>
                 /\ \A n \in 1 .. N :
                       f[n] = IF entries[n] = "object"
                              THEN Append(f[n - 1], n) ELSE f[n - 1]
    BY ObjectsAreRead
  <1> DEFINE P(n) == /\ f[n] \in Seq(1 .. n) /\ Len(f[n]) <= n
                     /\ Increasing(f[n])
                     /\ \A j \in 1 .. n :
                           entries[j] = "object" <=>
                              \E k \in DOMAIN f[n] : f[n][k] = j
             T == {n \in Nat : n <= N => P(n)}
  <1>2. 0 \in T
    <2>1. <<>> \in Seq(1 .. 0) /\ Len(<<>>) = 0 /\ DOMAIN <<>> = {}
      OBVIOUS
    <2>2. P(0)
      BY <1>1, <2>1 DEF Increasing
    <2> QED
      BY <2>2
  <1>3. ASSUME NEW n \in Nat, n \in T PROVE n + 1 \in T
    <2> SUFFICES ASSUME n + 1 <= N PROVE P(n + 1)
      OBVIOUS
    <2> DEFINE s == f[n]
               t == f[n + 1]
    <2>1. P(n)
      BY <1>3
    <2>2. t = IF entries[n + 1] = "object" THEN Append(s, n + 1) ELSE s
      BY <1>1
    <2>3. /\ s \in Seq(1 .. n) /\ Len(s) \in Nat /\ Len(s) <= n
          /\ DOMAIN s = 1 .. Len(s) /\ \A k \in 1 .. Len(s) : s[k] \in 1 .. n
      BY <2>1
    <2>4. Increasing(s)
      BY <2>1
    <2>5. \A j \in 1 .. n :
             entries[j] = "object" <=> \E k \in DOMAIN s : s[k] = j
      BY <2>1
    <2> HIDE DEF s, t
    <2>6. CASE entries[n + 1] = "object"
      <3>1. t = Append(s, n + 1)
        BY <2>2, <2>6
      <3>2. /\ DOMAIN t = 1 .. Len(s) + 1 /\ Len(t) = Len(s) + 1
            /\ t[Len(s) + 1] = n + 1
            /\ \A k \in 1 .. Len(s) : t[k] = s[k]
        BY <2>3, <3>1
      <3>3. t \in Seq(1 .. n + 1) /\ Len(t) <= n + 1
        <4>1. s \in Seq(1 .. n + 1) /\ n + 1 \in 1 .. n + 1
          BY <2>3
        <4> QED
          BY <2>3, <3>1, <3>2, <4>1
      <3>4. Increasing(t)
        BY <2>3, <2>4, <3>2 DEF Increasing
      <3>5. \A j \in 1 .. n + 1 :
               entries[j] = "object" <=> \E k \in DOMAIN t : t[k] = j
        <4> SUFFICES ASSUME NEW j \in 1 .. n + 1
                     PROVE  entries[j] = "object" <=>
                               \E k \in DOMAIN t : t[k] = j
          OBVIOUS
        <4>1. CASE j = n + 1
          <5>1. Len(s) + 1 \in DOMAIN t
            BY <2>3, <3>2
          <5> QED
            BY <2>6, <3>2, <4>1, <5>1
        <4>2. CASE j \in 1 .. n
          <5>1. ASSUME NEW k \in DOMAIN s, s[k] = j
                PROVE  \E l \in DOMAIN t : t[l] = j
            BY <2>3, <3>2, <5>1
          <5>2. ASSUME NEW k \in DOMAIN t, t[k] = j
                PROVE  \E l \in DOMAIN s : s[l] = j
            <6>1. k \in DOMAIN s
              BY <2>3, <3>2, <4>2, <5>2
            <6> QED
              BY <2>3, <3>2, <5>2, <6>1
          <5> QED
            BY <2>5, <4>2, <5>1, <5>2
        <4> QED
          BY <4>1, <4>2
      <3> QED
        BY <3>3, <3>4, <3>5 DEF t
    <2>7. CASE entries[n + 1] # "object"
      <3>1. t = s
        BY <2>2, <2>7
      <3>2. t \in Seq(1 .. n + 1) /\ Len(t) <= n + 1
        BY <2>3, <3>1
      <3>3. \A j \in 1 .. n + 1 :
               entries[j] = "object" <=> \E k \in DOMAIN t : t[k] = j
        BY <2>3, <2>5, <2>7, <3>1
      <3> QED
        BY <2>4, <3>1, <3>2, <3>3 DEF t
    <2> QED
      BY <2>6, <2>7
  <1>4. P(N)
    <2> HIDE DEF T, P
    <2>1. Nat \subseteq T
      <3>1. \A n \in Nat : n \in T => n + 1 \in T
        BY <1>3
      <3> QED
        BY ONLY <1>2, <3>1, AllOfThem
    <2> QED
      BY <2>1 DEF T
  <1> QED
    BY <1>1, <1>4

(* The arrays of the wire.                                                 *)
LEMMA ArraysAre ==
    ASSUME NEW a \in Arrays
    PROVE  /\ a \in Seq({"object", "other"})
           /\ Len(a) \in 0 .. MaxEntries /\ DOMAIN a = 1 .. Len(a)
  BY BoundsAssumption DEF Arrays

(* The array without entries is one.                                       *)
LEMMA NoEntries == <<>> \in Arrays
  <1>1. <<>> \in [1 .. 0 -> {"object", "other"}]
    OBVIOUS
  <1>2. 0 \in 0 .. MaxEntries
    BY BoundsAssumption
  <1> QED
    BY <1>1, <1>2 DEF Arrays

(* Chunks with any offset, and what is none.                               *)
Tokens == DOMAIN Numbers \cup {"colon", "blank", "other", "7", "30"}

AnyChunk ==
    [songs : Arrays, offset : [type : NodeTypes, text : Seq(Tokens)]]
    \cup {NoSongs}

(* The chunks of an enterprise answer.                                     *)
LEMMA ChunksAre ==
    ASSUME NEW w, w.chunks \in Seq(AnyChunk)
    PROVE  /\ Len(w.chunks) \in Nat /\ DOMAIN w.chunks = 1 .. Len(w.chunks)
           /\ \A i \in DOMAIN w.chunks : i \in Nat /\ w.chunks[i] \in AnyChunk
  OBVIOUS

SongsAt(w, i) == SongsOf(w.chunks[i])
StartAt(w, i) == StartSeconds(BaseOf(w.chunks[i], i), w.start)
Items(w) == [chunk : Nat, entry : Nat,
             start : {StartAt(w, i) : i \in DOMAIN w.chunks}]

(* A chunk without songs counts as one with no entries.                    *)
LEMMA SongsAre ==
    ASSUME NEW w, w.chunks \in Seq(AnyChunk), NEW i \in DOMAIN w.chunks
    PROVE  SongsAt(w, i) \in Arrays
  <1> DEFINE chunk == w.chunks[i]
  <1>1. chunk \in AnyChunk
    BY ChunksAre
  <1> HIDE DEF chunk
  <1>2. chunk = NoSongs \/ chunk.songs \in Arrays
    BY <1>1 DEF AnyChunk
  <1>3. SongsOf(chunk) \in Arrays
    BY <1>2, NoEntries DEF SongsOf, HasSongs
  <1> QED
    BY <1>3 DEF SongsAt, chunk

(* The recursive functions of Total and Matches.                           *)
LEMMA TotalIsCounted ==
    ASSUME NEW w, w.chunks \in Seq(AnyChunk)
    PROVE  \E f : /\ Total(w) = f[Len(w.chunks)]
                  /\ f[0] = 0
                  /\ \A n \in 1 .. Len(w.chunks) :
                        f[n] = f[n - 1] + Len(SongsAt(w, n))
  <1> DEFINE N == Len(w.chunks)
             Read(f, n) == IF n = 0 THEN 0
                           ELSE f[n - 1] + Len(SongsOf(w.chunks[n]))
             Fits(f) == f = [n \in 0 .. N |-> Read(f, n)]
             step == [x \in (1 .. N) \X Nat |-> x[2] + Len(SongsAt(w, x[1]))]
  <1>1. N \in Nat /\ DOMAIN w.chunks = 1 .. N
    BY ChunksAre
  <1>2. \E f : Fits(f)
    <2>1. \A n \in 1 .. N : Len(SongsAt(w, n)) \in Nat
      BY <1>1, SongsAre, ArraysAre
    <2>2. step \in [(1 .. N) \X Nat -> Nat]
      BY <2>1
    <2>3. \A n \in 1 .. N, v \in Nat : step[<<n, v>>] = v + Len(SongsAt(w, n))
      OBVIOUS
    <2> HIDE DEF step
    <2>4. PICK f \in [0 .. N -> Nat] :
             f[0] = 0 /\ \A n \in 1 .. N : f[n] = step[<<n, f[n - 1]>>]
      <3>1. 0 \in Nat
        OBVIOUS
      <3> HIDE DEF N
      <3>2. Iterable(N, Nat, 0, step)
        BY ONLY <1>1, <2>2, <3>1, Iterates
      <3> QED
        BY <3>2 DEF Iterable
    <2>5. ASSUME NEW n \in 0 .. N PROVE f[n] = Read(f, n)
      <3>1. CASE n = 0
        BY <2>4, <3>1
      <3>2. CASE n \in 1 .. N
        <4>1. f[n - 1] \in Nat /\ f[n] = step[<<n, f[n - 1]>>]
          BY <1>1, <2>4, <3>2
        <4> QED
          BY <2>3, <3>2, <4>1 DEF SongsAt
      <3> QED
        BY <3>1, <3>2
    <2> HIDE DEF Read
    <2> QED
      BY <2>4, <2>5
  <1> DEFINE upto == CHOOSE f : Fits(f)
  <1>3. Total(w) = upto[N]
    BY DEF Total
  <1>4. Fits(upto)
    BY <1>2
  <1> HIDE DEF upto
  <1>5. \A n \in 0 .. N : upto[n] = Read(upto, n)
    <2> HIDE DEF Read
    <2> QED
      BY <1>4
  <1>6. upto[0] = 0
    BY <1>1, <1>5
  <1> QED
    BY <1>1, <1>3, <1>5, <1>6 DEF SongsAt

(* The matches of one chunk are its objects, with the chunk's start.       *)
LEMMA MatchesInAre ==
    ASSUME NEW w, w.chunks \in Seq(AnyChunk), NEW i \in DOMAIN w.chunks
    PROVE  LET m == MatchesIn(w, i)
               js == Objects(SongsAt(w, i))
           IN  /\ m \in Seq(Items(w)) /\ Len(m) = Len(js)
               /\ \A k \in 1 .. Len(js) :
                     /\ m[k].chunk = i /\ m[k].entry = js[k]
                     /\ m[k].start = StartAt(w, i)
  <1> DEFINE js == Objects(SongsAt(w, i))
             m == MatchesIn(w, i)
  <1>1. js \in Seq(Nat)
    <2>1. SongsAt(w, i) \in Arrays
      BY SongsAre
    <2> HIDE DEF SongsAt
    <2>2. /\ Len(SongsAt(w, i)) \in Nat
          /\ DOMAIN SongsAt(w, i) = 1 .. Len(SongsAt(w, i))
      BY <2>1, ArraysAre
    <2>3. js \in Seq(1 .. Len(SongsAt(w, i)))
      BY <2>2, ObjectsAre
    <2> QED
      BY <2>2, <2>3
  <1>2. m = [k \in DOMAIN js |->
               [chunk |-> i, entry |-> js[k], start |-> StartAt(w, i)]]
    BY DEF MatchesIn, SongsAt, StartAt
  <1>3. i \in Nat /\ StartAt(w, i) \in {StartAt(w, k) : k \in DOMAIN w.chunks}
    BY ChunksAre
  <1> HIDE DEF js, m
  <1>4. m \in [1 .. Len(js) -> Items(w)]
    <2>1. \A k \in 1 .. Len(js) :
             [chunk |-> i, entry |-> js[k], start |-> StartAt(w, i)] \in Items(w)
      BY <1>1, <1>3 DEF Items
    <2> QED
      BY <1>1, <1>2, <2>1
  <1> QED
    BY <1>1, <1>2, <1>4 DEF js, m

(* The recursive function of Matches exists.                               *)
LEMMA MatchesAreRead ==
    ASSUME NEW w, w.chunks \in Seq(AnyChunk)
    PROVE  \E f :
              /\ Matches(w) = f[Len(w.chunks)]
              /\ f[0] = <<>>
              /\ \A n \in 1 .. Len(w.chunks) :
                    f[n] = f[n - 1] \o MatchesIn(w, n)
  <1> DEFINE N == Len(w.chunks)
             V == Seq(Items(w))
             Read(f, n) == IF n = 0 THEN <<>> ELSE f[n - 1] \o MatchesIn(w, n)
             Fits(f) == f = [n \in 0 .. N |-> Read(f, n)]
             step == [x \in (1 .. N) \X V |-> x[2] \o MatchesIn(w, x[1])]
  <1>1. N \in Nat /\ DOMAIN w.chunks = 1 .. N
    BY ChunksAre
  <1>2. \E f : Fits(f)
    <2>1. \A n \in 1 .. N : MatchesIn(w, n) \in V
      BY <1>1, MatchesInAre
    <2>2. step \in [(1 .. N) \X V -> V]
      BY <2>1
    <2>3. \A n \in 1 .. N, v \in V : step[<<n, v>>] = v \o MatchesIn(w, n)
      OBVIOUS
    <2> HIDE DEF step
    <2>4. PICK f \in [0 .. N -> V] :
             f[0] = <<>> /\ \A n \in 1 .. N : f[n] = step[<<n, f[n - 1]>>]
      <3>1. <<>> \in V
        OBVIOUS
      <3> HIDE DEF N, V
      <3>2. Iterable(N, V, <<>>, step)
        BY ONLY <1>1, <2>2, <3>1, Iterates
      <3> QED
        BY <3>2 DEF Iterable
    <2>5. ASSUME NEW n \in 0 .. N PROVE f[n] = Read(f, n)
      <3>1. CASE n = 0
        BY <2>4, <3>1
      <3>2. CASE n \in 1 .. N
        <4> HIDE DEF N, V
        <4>1. f[n - 1] \in V /\ f[n] = step[<<n, f[n - 1]>>]
          BY <1>1, <2>4, <3>2
        <4>2. f[n] = f[n - 1] \o MatchesIn(w, n)
          BY <2>3, <3>2, <4>1
        <4> QED
          BY <1>1, <3>2, <4>2
      <3> QED
        BY <3>1, <3>2
    <2> HIDE DEF Read, V
    <2> QED
      BY <2>4, <2>5
  <1> DEFINE upto == CHOOSE g : Fits(g)
  <1>3. Matches(w) = upto[N]
    BY DEF Matches
  <1>4. Fits(upto)
    BY <1>2
  <1> HIDE DEF upto
  <1>5. \A n \in 0 .. N : upto[n] = Read(upto, n)
    <2> HIDE DEF Read
    <2> QED
      BY <1>4
  <1>6. upto[0] = <<>>
    BY <1>1, <1>5
  <1>7. ASSUME NEW n \in 1 .. N
        PROVE  upto[n] = upto[n - 1] \o MatchesIn(w, n)
    <2>1. n \in 0 .. N /\ n # 0
      BY <1>1
    <2>2. upto[n] = Read(upto, n)
      <3> HIDE DEF Read
      <3> QED
        BY <1>5, <2>1
    <2> QED
      BY <2>1, <2>2
  <1> QED
    BY <1>3, <1>6, <1>7

(* What the flattening of the chunks makes of them.                        *)
InOrder(list) == \A j, k \in DOMAIN list : j < k => Precedes(list[j], list[k])

IsAt(list, i, j) ==
    \E k \in DOMAIN list : list[k].chunk = i /\ list[k].entry = j

(* The matches of all chunks: in order, within the array, all of them.     *)
LEMMA MatchesAre ==
    ASSUME NEW w, w.chunks \in Seq(AnyChunk)
    PROVE  /\ Matches(w) \in Seq(Items(w)) /\ InOrder(Matches(w))
           /\ Total(w) \in Nat /\ Len(Matches(w)) <= Total(w)
           /\ \A k \in DOMAIN Matches(w) :
                 LET x == Matches(w)[k]
                 IN  /\ x.chunk \in DOMAIN w.chunks
                     /\ x.entry \in DOMAIN SongsAt(w, x.chunk)
                     /\ SongsAt(w, x.chunk)[x.entry] = "object"
                     /\ x.start = StartAt(w, x.chunk)
           /\ \A i \in DOMAIN w.chunks : \A j \in DOMAIN SongsAt(w, i) :
                 SongsAt(w, i)[j] = "object" => IsAt(Matches(w), i, j)
  <1> DEFINE N == Len(w.chunks)
             Right(x, n) == /\ x.chunk \in 1 .. n
                            /\ x.entry \in DOMAIN SongsAt(w, x.chunk)
                            /\ SongsAt(w, x.chunk)[x.entry] = "object"
                            /\ x.start = StartAt(w, x.chunk)
  <1>1. N \in Nat /\ DOMAIN w.chunks = 1 .. N
    BY ChunksAre
  <1>2. PICK f : /\ Matches(w) = f[N] /\ f[0] = <<>>
                 /\ \A n \in 1 .. N : f[n] = f[n - 1] \o MatchesIn(w, n)
    BY MatchesAreRead
  <1>3. PICK g : /\ Total(w) = g[N] /\ g[0] = 0
                 /\ \A n \in 1 .. N : g[n] = g[n - 1] + Len(SongsAt(w, n))
    BY TotalIsCounted
  <1> DEFINE P(n) == /\ f[n] \in Seq(Items(w)) /\ InOrder(f[n])
                     /\ g[n] \in Nat /\ Len(f[n]) <= g[n]
                     /\ \A k \in DOMAIN f[n] : Right(f[n][k], n)
                     /\ \A i \in 1 .. n : \A j \in DOMAIN SongsAt(w, i) :
                           SongsAt(w, i)[j] = "object" => IsAt(f[n], i, j)
             T == {n \in Nat : n <= N => P(n)}
  <1>4. 0 \in T
    <2>1. <<>> \in Seq(Items(w)) /\ Len(<<>>) = 0 /\ DOMAIN <<>> = {}
      OBVIOUS
    <2>2. InOrder(<<>>)
      BY <2>1 DEF InOrder
    <2>3. P(0)
      BY <1>2, <1>3, <2>1, <2>2
    <2> QED
      BY <2>3
  <1>5. ASSUME NEW n \in Nat, n \in T PROVE n + 1 \in T
    <2> SUFFICES ASSUME n + 1 <= N PROVE P(n + 1)
      OBVIOUS
    <2> DEFINE songs == SongsAt(w, n + 1)
               js == Objects(songs)
               m == MatchesIn(w, n + 1)
               s == f[n]
               t == f[n + 1]
    <2>1. P(n)
      BY <1>5
    <2>2. n + 1 \in DOMAIN w.chunks /\ n + 1 \in 1 .. N
      BY <1>1
    <2>3. /\ t = s \o m
          /\ g[n + 1] = g[n] + Len(songs)
      <3>1. (n + 1) - 1 = n
        OBVIOUS
      <3>2. f[n + 1] = f[(n + 1) - 1] \o MatchesIn(w, n + 1)
        BY ONLY <1>2, <2>2
      <3>3. g[n + 1] = g[(n + 1) - 1] + Len(SongsAt(w, n + 1))
        BY ONLY <1>3, <2>2
      <3> QED
        BY ONLY <3>1, <3>2, <3>3
    <2>4. /\ Len(songs) \in Nat /\ DOMAIN songs = 1 .. Len(songs)
      BY <2>2, SongsAre, ArraysAre
    <2> HIDE DEF songs
    <2>5. /\ js \in Seq(1 .. Len(songs)) /\ Len(js) <= Len(songs)
          /\ Increasing(js)
          /\ \A j \in 1 .. Len(songs) :
                songs[j] = "object" <=> \E k \in DOMAIN js : js[k] = j
      BY <2>4, ObjectsAre
    <2>6. /\ m \in Seq(Items(w)) /\ Len(m) = Len(js)
          /\ \A k \in 1 .. Len(js) :
                /\ m[k].chunk = n + 1 /\ m[k].entry = js[k]
                /\ m[k].start = StartAt(w, n + 1)
      BY <2>2, MatchesInAre DEF songs
    <2> HIDE DEF js, m, s, t
    <2>7. /\ s \in Seq(Items(w)) /\ InOrder(s) /\ g[n] \in Nat
          /\ Len(s) <= g[n] /\ Len(s) \in Nat /\ DOMAIN s = 1 .. Len(s)
      BY <2>1 DEF s
    <2>8. \A k \in 1 .. Len(s) : Right(s[k], n)
      BY <2>1, <2>7 DEF s
    <2>9. /\ Len(js) \in Nat /\ DOMAIN js = 1 .. Len(js)
          /\ \A k \in 1 .. Len(js) : js[k] \in 1 .. Len(songs)
      BY <2>5
    <2>10. /\ t \in Seq(Items(w)) /\ Len(t) = Len(s) + Len(js)
           /\ DOMAIN t = 1 .. Len(s) + Len(js)
           /\ \A k \in 1 .. Len(s) : t[k] = s[k]
           /\ \A k \in 1 .. Len(js) : t[Len(s) + k] = m[k]
      BY <2>3, <2>6, <2>7, <2>9
    (* An entry of t is one of s or one of m.                              *)
    <2>11. ASSUME NEW k \in DOMAIN t
           PROVE  \/ k \in 1 .. Len(s) /\ t[k] = s[k]
                  \/ \E l \in 1 .. Len(js) : k = Len(s) + l /\ t[k] = m[l]
      <3>1. CASE k <= Len(s)
        BY <2>7, <2>9, <2>10, <3>1
      <3>2. CASE k > Len(s)
        <4>1. k - Len(s) \in 1 .. Len(js) /\ k = Len(s) + (k - Len(s))
          BY <2>7, <2>9, <2>10, <3>2
        <4> QED
          BY <2>10, <4>1
      <3> QED
        BY <2>7, <2>9, <2>10, <3>1, <3>2
    <2>12. \A l \in 1 .. Len(js) : Right(m[l], n + 1)
      <3> SUFFICES ASSUME NEW l \in 1 .. Len(js) PROVE Right(m[l], n + 1)
        OBVIOUS
      <3>1. songs[js[l]] = "object"
        BY <2>5, <2>9
      <3> QED
        BY <2>4, <2>6, <2>9, <3>1 DEF songs
    <2>13. \A k \in DOMAIN t : Right(t[k], n + 1)
      <3> SUFFICES ASSUME NEW k \in DOMAIN t PROVE Right(t[k], n + 1)
        OBVIOUS
      <3>1. CASE k \in 1 .. Len(s) /\ t[k] = s[k]
        BY <2>8, <3>1
      <3>2. CASE \E l \in 1 .. Len(js) : k = Len(s) + l /\ t[k] = m[l]
        BY <2>12, <3>2
      <3> QED
        BY <2>11, <3>1, <3>2
    <2>14. InOrder(t)
      <3> SUFFICES ASSUME NEW j \in DOMAIN t, NEW k \in DOMAIN t, j < k
                   PROVE  Precedes(t[j], t[k])
        BY DEF InOrder
      <3>1. CASE k \in 1 .. Len(s)
        <4>1. j \in 1 .. Len(s) /\ t[j] = s[j] /\ t[k] = s[k]
          BY <2>7, <2>10, <3>1
        <4> QED
          BY <2>7, <3>1, <4>1 DEF InOrder
      <3>2. CASE k \notin 1 .. Len(s)
        <4>1. PICK l \in 1 .. Len(js) : k = Len(s) + l /\ t[k] = m[l]
          BY <2>11, <3>2
        <4>2. CASE j \in 1 .. Len(s)
          <5>1. t[j].chunk \in 1 .. n /\ t[k].chunk = n + 1
            BY <2>6, <2>8, <2>10, <4>1, <4>2
          <5> QED
            BY <5>1 DEF Precedes
        <4>3. CASE j \notin 1 .. Len(s)
          <5>1. PICK i \in 1 .. Len(js) : j = Len(s) + i /\ t[j] = m[i]
            BY <2>11, <4>3
          <5>2. i < l
            BY <2>7, <4>1, <5>1
          <5>3. js[i] < js[l]
            BY <2>5, <2>9, <5>2 DEF Increasing
          <5> QED
            BY <2>6, <4>1, <5>1, <5>3 DEF Precedes
        <4> QED
          BY <4>2, <4>3
      <3> QED
        BY <3>1, <3>2
    <2>15. ASSUME NEW i \in 1 .. n + 1, NEW j \in DOMAIN SongsAt(w, i),
                  SongsAt(w, i)[j] = "object"
           PROVE  IsAt(t, i, j)
      <3>1. CASE i \in 1 .. n
        <4>1. IsAt(s, i, j)
          BY <2>1, <2>15, <3>1 DEF s
        <4> QED
          BY <2>7, <2>9, <2>10, <4>1 DEF IsAt
      <3>2. CASE i = n + 1
        <4>1. PICK l \in 1 .. Len(js) : js[l] = j
          BY <2>4, <2>5, <2>9, <2>15, <3>2 DEF songs
        <4>2. /\ Len(s) + l \in DOMAIN t /\ t[Len(s) + l].chunk = i
              /\ t[Len(s) + l].entry = j
          BY <2>6, <2>7, <2>9, <2>10, <3>2, <4>1
        <4> QED
          BY <4>2 DEF IsAt
      <3> QED
        BY <3>1, <3>2
    <2>16. g[n + 1] \in Nat /\ Len(t) <= g[n + 1]
      BY <2>3, <2>4, <2>5, <2>7, <2>9, <2>10
    <2> QED
      BY <2>10, <2>13, <2>14, <2>15, <2>16 DEF t
  <1>6. P(N)
    <2> HIDE DEF T, P
    <2>1. Nat \subseteq T
      <3>1. \A n \in Nat : n \in T => n + 1 \in T
        BY <1>5
      <3> QED
        BY ONLY <1>4, <3>1, AllOfThem
    <2> QED
      BY <1>1, <2>1 DEF T
  <1> QED
    BY <1>1, <1>2, <1>3, <1>6

-----------------------------------------------------------------------------
(* The offsets.  A text is read from left to right: what is left of it is  *)
(* always a suffix.                                                        *)

Suffix(text, p) == SubSeq(text, p, Len(text))

(* The next token from place p on that is no blank stands at q, or behind  *)
(* the end.                                                                *)
NextAt(text, p, q) ==
    /\ q \in p .. Len(text) + 1 /\ \A i \in p .. q - 1 : text[i] = "blank"
    /\ q <= Len(text) => text[q] # "blank"

(* A suffix has the tokens of the text from its place on.                  *)
LEMMA SuffixIs ==
    ASSUME NEW text \in Seq(Tokens), NEW p \in 1 .. Len(text) + 1
    PROVE  LET s == Suffix(text, p)
           IN  /\ s \in Seq(Tokens) /\ Len(s) = Len(text) + 1 - p
               /\ DOMAIN s = 1 .. Len(text) + 1 - p
               /\ \A i \in 1 .. Len(text) + 1 - p : s[i] = text[p + i - 1]
               /\ s = <<>> <=> p = Len(text) + 1
               /\ p <= Len(text) =>
                     Head(s) = text[p] /\ Tail(s) = Suffix(text, p + 1)
  <1> DEFINE s == Suffix(text, p)
             N == Len(text)
  <1>1. /\ N \in Nat /\ p \in Int /\ DOMAIN text = 1 .. N
        /\ \A i \in p .. N : text[i] \in Tokens
    OBVIOUS
  <1>2. /\ s \in Seq(Tokens)
        /\ Len(s) = IF p <= N THEN N - p + 1 ELSE 0
        /\ \A i \in 1 .. N - p + 1 : s[i] = text[p + i - 1]
    BY <1>1, SubSeqProperties DEF Suffix
  <1>3. p <= N => Head(s) = text[p] /\ Tail(s) = Suffix(text, p + 1)
    <2> SUFFICES ASSUME p <= N
                 PROVE  Head(s) = text[p] /\ Tail(s) = Suffix(text, p + 1)
      OBVIOUS
    <2>1. p \in 1 .. N /\ N \in p .. N
      BY <1>1
    <2> QED
      BY <2>1, HeadTailOfSubSeq DEF Suffix
  <1> HIDE DEF s
  <1>4. Len(s) = N + 1 - p
    BY <1>1, <1>2
  <1>5. s = <<>> <=> p = N + 1
    BY <1>1, <1>2, <1>4
  <1> QED
    BY <1>1, <1>2, <1>3, <1>4, <1>5 DEF s

(* From every place on there is a next token, or the end.                  *)
LEMMA NextIs ==
    ASSUME NEW text \in Seq(Tokens), NEW p \in 1 .. Len(text) + 1
    PROVE  \E q \in 1 .. Len(text) + 1 : NextAt(text, p, q)
  <1> DEFINE used == {i \in p .. Len(text) : text[i] # "blank"}
  <1>1. CASE used = {}
    <2>1. NextAt(text, p, Len(text) + 1)
      BY <1>1 DEF NextAt
    <2> QED
      BY <2>1
  <1>2. CASE used # {}
    <2>1. PICK q \in used : \A j \in used : q <= j
      <3>1. used \subseteq Nat
        OBVIOUS
      <3> QED
        BY ONLY <1>2, <3>1, Least
    <2>2. NextAt(text, p, q)
      BY <2>1 DEF NextAt
    <2> QED
      BY <2>1, <2>2
  <1> QED
    BY <1>1, <1>2

(* The blanks before it are skipped.                                       *)
LEMMA BlanksAreSkipped ==
    ASSUME NEW text \in Seq(Tokens), NEW p \in 1 .. Len(text) + 1,
           NEW q \in 1 .. Len(text) + 1, NextAt(text, p, q)
    PROVE  SkipBlanks(Suffix(text, p)) = Suffix(text, q)
  <1> DEFINE s == Suffix(text, p)
             N == Len(text)
             used == {i \in DOMAIN s : s[i] # "blank"}
             first == CHOOSE i \in used : \A j \in used : i <= j
  <1>1. /\ s \in Seq(Tokens) /\ Len(s) = N + 1 - p
        /\ DOMAIN s = 1 .. N + 1 - p
        /\ \A i \in 1 .. N + 1 - p : s[i] = text[p + i - 1]
    BY SuffixIs
  <1>2. /\ N \in Nat /\ p <= q /\ \A i \in p .. q - 1 : text[i] = "blank"
        /\ q <= N => text[q] # "blank"
    BY DEF NextAt
  <1>3. SkipBlanks(s) = IF used = {} THEN <<>> ELSE SubSeq(s, first, Len(s))
    BY DEF SkipBlanks
  <1> HIDE DEF s, N
  <1>4. CASE q = N + 1
    <2>1. used = {}
      BY <1>1, <1>2, <1>4
    <2>2. Suffix(text, q) = <<>>
      BY <1>4, SuffixIs DEF N
    <2> QED
      BY <1>3, <2>1, <2>2 DEF s
  <1>5. CASE q # N + 1
    <2> DEFINE k == q - p + 1
    <2>1. k \in 1 .. N + 1 - p /\ p + k - 1 = q /\ q <= N
      BY <1>2, <1>5 DEF N
    <2>2. k \in used
      BY <1>1, <1>2, <2>1
    <2>3. \A j \in used : k <= j
      <3> SUFFICES ASSUME NEW j \in 1 .. N + 1 - p, j < k PROVE s[j] = "blank"
        BY <1>1, <2>1
      <3>1. p + j - 1 \in p .. q - 1
        BY <1>2
      <3> QED
        BY <1>1, <1>2, <3>1
    <2>4. used \subseteq Nat
      BY <1>1
    <2> HIDE DEF k, used
    <2>5. first = k
      <3>1. \E i \in used : \A j \in used : i <= j
        BY <2>2, <2>3
      <3>2. first \in used /\ \A j \in used : first <= j
        BY <3>1
      <3>3. k <= first /\ first <= k
        BY <2>2, <2>3, <3>2
      <3>4. k \in Nat /\ first \in Nat
        BY <2>2, <2>4, <3>2
      <3> HIDE DEF first
      <3> QED
        BY <3>3, <3>4
    <2> HIDE DEF first
    <2>6. SkipBlanks(s) = SubSeq(s, k, Len(s))
      BY <1>3, <2>2, <2>5
    <2> DEFINE t == SubSeq(s, k, Len(s))
               u == Suffix(text, q)
    <2>7. /\ t \in Seq(Tokens) /\ Len(t) = Len(s) - k + 1
          /\ \A i \in 1 .. Len(s) - k + 1 : t[i] = s[k + i - 1]
      <3>1. k \in Int /\ Len(s) \in Int /\ k <= Len(s)
        BY <1>1, <1>2, <2>1
      <3>2. \A i \in k .. Len(s) : s[i] \in Tokens
        BY <1>1, <2>1
      <3> QED
        BY <3>1, <3>2, SubSeqProperties
    <2>8. /\ u \in Seq(Tokens) /\ Len(u) = N + 1 - q
          /\ \A i \in 1 .. N + 1 - q : u[i] = text[q + i - 1]
      BY SuffixIs DEF N
    <2> HIDE DEF t, u
    <2>9. Len(s) - k + 1 = N + 1 - q
      BY <1>1, <1>2, <2>1
    <2>10. ASSUME NEW i \in 1 .. Len(t) PROVE t[i] = u[i]
      <3>1. t[i] = s[k + i - 1]
        BY <2>7
      <3>2. k + i - 1 \in 1 .. N + 1 - p /\ p + (k + i - 1) - 1 = q + i - 1
        BY <1>2, <2>1, <2>7, <2>9
      <3>3. s[k + i - 1] = text[q + i - 1]
        BY <1>1, <3>2
      <3> QED
        BY <2>7, <2>8, <2>9, <3>1, <3>3
    <2>11. t = u
      BY <2>7, <2>8, <2>9, <2>10, SeqEqual
    <2> QED
      BY <2>6, <2>11 DEF t, u, s
  <1> QED
    BY <1>4, <1>5

(* A number is no blank and no colon.                                      *)
LEMMA NumbersAre ==
    ASSUME NEW token, IsNumber(token)
    PROVE  token # "blank" /\ token # "colon" /\ Numbers[token] \in Int
  BY NumbersAssumption DEF IsNumber

(* What is read of a suffix.                                               *)
LEMMA SuffixIsRead ==
    ASSUME NEW text \in Seq(Tokens), NEW p \in 1 .. Len(text) + 1,
           NEW q \in 1 .. Len(text) + 1, NextAt(text, p, q)
    PROVE  LET s == Suffix(text, p)
           IN  /\ q = Len(text) + 1 => ~Readable(s)
               /\ q <= Len(text) =>
                     /\ Readable(s) <=> IsNumber(text[q])
                     /\ Value(s) = Numbers[text[q]]
                     /\ Behind(s) = Suffix(text, q + 1)
  <1>1. SkipBlanks(Suffix(text, p)) = Suffix(text, q)
    BY BlanksAreSkipped
  <1>2. /\ Suffix(text, q) = <<>> <=> q = Len(text) + 1
        /\ q <= Len(text) => /\ Head(Suffix(text, q)) = text[q]
                             /\ Tail(Suffix(text, q)) = Suffix(text, q + 1)
    BY SuffixIs
  <1> HIDE DEF Suffix
  <1>3. q = Len(text) + 1 \/ (q <= Len(text) /\ q # Len(text) + 1)
    OBVIOUS
  <1> QED
    BY <1>1, <1>2, <1>3 DEF Readable, Value, Behind

(* A number that counts is what comes next.                                *)
LEMMA NumberIsNext ==
    ASSUME NEW text \in Seq(Tokens), NEW p \in 1 .. Len(text) + 1,
           NEW q \in DOMAIN text
    PROVE  NumberAt(text, p, q) <=>
              NextAt(text, p, q) /\ IsNumber(text[q]) /\ Numbers[text[q]] >= 0
  <1>1. IsNumber(text[q]) => text[q] # "blank"
    BY NumbersAre
  <1>2. q \in 1 .. Len(text) /\ Len(text) \in Nat
    OBVIOUS
  <1> QED
    BY <1>1, <1>2 DEF NumberAt, NextAt

(* Nothing but blanks behind a place: the end comes next.                  *)
LEMMA EndIsNext ==
    ASSUME NEW text \in Seq(Tokens), NEW q \in DOMAIN text
    PROVE  BlankAfter(text, q) <=> NextAt(text, q + 1, Len(text) + 1)
  BY DEF BlankAfter, NextAt

(* The end is skipped to exactly when only blanks are left.                *)
LEMMA OnlyBlanksLeft ==
    ASSUME NEW text \in Seq(Tokens), NEW q \in DOMAIN text
    PROVE  BlankAfter(text, q) <=> SkipBlanks(Suffix(text, q + 1)) = <<>>
  <1>1. q + 1 \in 1 .. Len(text) + 1 /\ Len(text) \in Nat
    OBVIOUS
  <1>2. PICK r \in 1 .. Len(text) + 1 : NextAt(text, q + 1, r)
    BY <1>1, NextIs
  <1>3. SkipBlanks(Suffix(text, q + 1)) = Suffix(text, r)
    BY <1>1, <1>2, BlanksAreSkipped
  <1>4. SkipBlanks(Suffix(text, q + 1)) = <<>> <=> r = Len(text) + 1
    BY <1>3, SuffixIs
  <1>5. BlankAfter(text, q) <=> r = Len(text) + 1
    BY <1>1, <1>2 DEF NextAt, BlankAfter
  <1> QED
    BY <1>4, <1>5

(* A colon right behind a place starts what is left.                       *)
LEMMA ColonIsNext ==
    ASSUME NEW text \in Seq(Tokens), NEW q \in DOMAIN text
    PROVE  /\ Starts(Suffix(text, q + 1), "colon") <=> ColonAt(text, q + 1)
           /\ ColonAt(text, q + 1) =>
                 /\ q + 2 \in 1 .. Len(text) + 1
                 /\ Tail(Suffix(text, q + 1)) = Suffix(text, q + 2)
  <1>1. /\ q + 1 \in 1 .. Len(text) + 1 /\ Len(text) \in Nat
        /\ DOMAIN text = 1 .. Len(text)
    OBVIOUS
  <1>2. /\ Suffix(text, q + 1) = <<>> <=> q + 1 = Len(text) + 1
        /\ q + 1 <= Len(text) =>
              /\ Head(Suffix(text, q + 1)) = text[q + 1]
              /\ Tail(Suffix(text, q + 1)) = Suffix(text, (q + 1) + 1)
    BY <1>1, SuffixIs
  <1>3. (q + 1) + 1 = q + 2
    OBVIOUS
  <1> QED
    BY <1>1, <1>2, <1>3 DEF Starts, ColonAt

(* The loop over the components, with p the place it has come to.          *)
Scan(text, p, parts, state) ==
    [rest |-> Suffix(text, p), parts |-> parts, state |-> state]

(* A turn that reads the number at q and the colon behind it, and one that *)
(* reads the last number.                                                  *)
GoesOn(text, p, parts, q) ==
    Component(Scan(text, p, parts, "more")) =
        Scan(text, q + 2, Append(parts, Numbers[text[q]]), "more")

Ends(text, p, parts, q) ==
    Component(Scan(text, p, parts, "more")) =
        Scan(text, Len(text) + 1, Append(parts, Numbers[text[q]]), "end")

(* A turn reads the number that is next.                                   *)
LEMMA ComponentReads ==
    ASSUME NEW text \in Seq(Tokens), NEW p \in 1 .. Len(text) + 1, NEW parts,
           NEW q \in DOMAIN text, NumberAt(text, p, q)
    PROVE  /\ ColonAt(text, q + 1) => GoesOn(text, p, parts, q)
           /\ BlankAfter(text, q) => Ends(text, p, parts, q)
  <1> DEFINE s == Scan(text, p, parts, "more")
             end == Suffix(text, q + 1)
             now == Append(parts, Numbers[text[q]])
             read == [s EXCEPT !.parts = now]
  <1>1. /\ q \in 1 .. Len(text) + 1 /\ q <= Len(text) /\ Len(text) \in Nat
        /\ q + 1 \in 1 .. Len(text) + 1
    OBVIOUS
  <1>2. NextAt(text, p, q) /\ IsNumber(text[q]) /\ Numbers[text[q]] >= 0
    BY NumberIsNext
  <1>3. /\ Readable(Suffix(text, p)) /\ Value(Suffix(text, p)) = Numbers[text[q]]
        /\ Behind(Suffix(text, p)) = end
    BY <1>1, <1>2, SuffixIsRead
  <1>4. ~(Numbers[text[q]] < 0)
    BY <1>2, NumbersAre
  <1>5. s.rest = Suffix(text, p) /\ s.state = "more" /\ s.parts = parts
    BY DEF Scan
  <1>6. read = Scan(text, p, now, "more")
    <2> HIDE DEF now
    <2> QED
      BY DEF Scan
  <1>7. [s EXCEPT !.parts = Append(@, Value(s.rest))] = read
    <2> HIDE DEF s
    <2> QED
      BY <1>3, <1>5
  <1> HIDE DEF s, now, read
  <1>8. Component(s) =
           IF Starts(end, "colon") THEN [read EXCEPT !.rest = Tail(end)]
           ELSE [read EXCEPT !.rest = SkipBlanks(end),
                    !.state = IF SkipBlanks(end) = <<>> THEN "end" ELSE "bad"]
    BY <1>3, <1>4, <1>5, <1>7 DEF Component
  <1>9. /\ Starts(end, "colon") <=> ColonAt(text, q + 1)
        /\ ColonAt(text, q + 1) => Tail(end) = Suffix(text, q + 2)
    BY ColonIsNext
  <1>10. BlankAfter(text, q) =>
           SkipBlanks(end) = <<>> /\ ~ColonAt(text, q + 1)
    BY <1>1, OnlyBlanksLeft DEF BlankAfter, ColonAt
  <1>11. <<>> = Suffix(text, Len(text) + 1)
    BY <1>1, SuffixIs
  <1> HIDE DEF end
  <1>12. ASSUME ColonAt(text, q + 1)
         PROVE  Component(s) = Scan(text, q + 2, now, "more")
    BY <1>6, <1>8, <1>9, <1>12 DEF Scan
  <1>13. ASSUME BlankAfter(text, q)
         PROVE  Component(s) = Scan(text, Len(text) + 1, now, "end")
    <2>1. Component(s) = [read EXCEPT !.rest = <<>>, !.state = "end"]
      BY <1>8, <1>9, <1>10, <1>13
    <2> QED
      BY <1>6, <1>11, <2>1 DEF Scan
  <1> QED
    BY <1>12, <1>13 DEF s, now, GoesOn, Ends

(* A turn for which there is no number to read, or something else behind   *)
(* it, is the last one.                                                    *)
LEMMA ComponentFails ==
    ASSUME NEW text \in Seq(Tokens), NEW p \in 1 .. Len(text) + 1, NEW parts,
           \A q \in DOMAIN text :
              NumberAt(text, p, q) => ~ColonAt(text, q + 1) /\ ~BlankAfter(text, q)
    PROVE  Component(Scan(text, p, parts, "more")).state = "bad"
  <1> DEFINE s == Scan(text, p, parts, "more")
  <1>1. PICK q \in 1 .. Len(text) + 1 : NextAt(text, p, q)
    BY NextIs
  <1>2. s.rest = Suffix(text, p) /\ s.state = "more"
    BY DEF Scan
  <1>3. Component(s).state = "bad" \/ (Readable(s.rest) /\ ~(Value(s.rest) < 0))
    <2>1. ASSUME ~Readable(s.rest) \/ Value(s.rest) < 0
          PROVE  Component(s) = [s EXCEPT !.state = "bad"]
      BY <1>2, <2>1 DEF Component
    <2>2. [s EXCEPT !.state = "bad"].state = "bad"
      BY DEF Scan
    <2> QED
      BY <2>1, <2>2
  <1> HIDE DEF s
  <1>4. CASE Readable(s.rest) /\ ~(Value(s.rest) < 0)
    <2>1. q <= Len(text) /\ q \in DOMAIN text
      BY <1>1, <1>2, <1>4, SuffixIsRead
    <2>2. /\ IsNumber(text[q]) /\ Value(s.rest) = Numbers[text[q]]
          /\ Behind(s.rest) = Suffix(text, q + 1)
      BY <1>1, <1>2, <1>4, <2>1, SuffixIsRead
    <2>3. NumberAt(text, p, q)
      BY <1>1, <1>4, <2>1, <2>2, NumberIsNext, NumbersAre
    <2> DEFINE end == Suffix(text, q + 1)
    <2>4. ~Starts(end, "colon")
      BY <2>1, <2>3, ColonIsNext
    <2>5. SkipBlanks(end) # <<>>
      BY <2>1, <2>3, OnlyBlanksLeft
    <2> HIDE DEF end
    <2> DEFINE read == [s EXCEPT !.parts = Append(@, Value(s.rest))]
    <2>6. Component(s) = [read EXCEPT !.rest = SkipBlanks(end), !.state = "bad"]
      BY <1>2, <1>4, <2>2, <2>4, <2>5 DEF Component, end
    <2>7. read = Scan(text, p, Append(parts, Value(s.rest)), "more")
      BY DEF s, Scan
    <2> HIDE DEF read
    <2> QED
      BY <2>6, <2>7 DEF Scan, s
  <1> QED
    BY <1>3, <1>4 DEF s

(* The recursive function of InSeconds exists.                             *)
LEMMA InSecondsIsRead ==
    ASSUME NEW parts \in Seq(Int)
    PROVE  \E f : /\ InSeconds(parts) = f[Len(parts)]
                  /\ f[0] = 0
                  /\ \A n \in 1 .. Len(parts) : f[n] = f[n - 1] * 60 + parts[n]
  <1> DEFINE N == Len(parts)
             Read(f, n) == IF n = 0 THEN 0 ELSE f[n - 1] * 60 + parts[n]
             Fits(f) == f = [n \in 0 .. N |-> Read(f, n)]
             step == [x \in (1 .. N) \X Int |-> x[2] * 60 + parts[x[1]]]
  <1>1. N \in Nat /\ \A n \in 1 .. N : parts[n] \in Int
    OBVIOUS
  <1>2. \E f : Fits(f)
    <2>1. step \in [(1 .. N) \X Int -> Int]
      BY <1>1
    <2>2. \A n \in 1 .. N, v \in Int : step[<<n, v>>] = v * 60 + parts[n]
      OBVIOUS
    <2> HIDE DEF step
    <2>3. PICK f \in [0 .. N -> Int] :
             f[0] = 0 /\ \A n \in 1 .. N : f[n] = step[<<n, f[n - 1]>>]
      <3>1. 0 \in Int
        OBVIOUS
      <3> HIDE DEF N
      <3>2. Iterable(N, Int, 0, step)
        BY ONLY <1>1, <2>1, <3>1, Iterates
      <3> QED
        BY <3>2 DEF Iterable
    <2>4. ASSUME NEW n \in 0 .. N PROVE f[n] = Read(f, n)
      <3>1. CASE n = 0
        BY <2>3, <3>1
      <3>2. CASE n \in 1 .. N
        <4>1. f[n - 1] \in Int /\ f[n] = step[<<n, f[n - 1]>>]
          <5>1. n - 1 \in 0 .. N
            BY <1>1, <3>2
          <5> HIDE DEF N
          <5> QED
            BY <2>3, <3>2, <5>1
        <4>2. f[n] = f[n - 1] * 60 + parts[n] /\ n # 0
          <5> HIDE DEF N
          <5> QED
            BY <1>1, <2>2, <3>2, <4>1
        <4> QED
          BY <4>2
      <3> QED
        BY <1>1, <3>1, <3>2
    <2> HIDE DEF Read
    <2> QED
      BY <2>3, <2>4
  <1> DEFINE upto == CHOOSE f : Fits(f)
  <1>3. InSeconds(parts) = upto[N]
    BY DEF InSeconds
  <1>4. Fits(upto)
    BY <1>2
  <1> HIDE DEF upto
  <1>5. \A n \in 0 .. N : upto[n] = Read(upto, n)
    <2> HIDE DEF Read
    <2> QED
      BY <1>4
  <1>6. upto[0] = 0
    BY <1>1, <1>5
  <1> QED
    BY <1>1, <1>3, <1>5, <1>6

(* One and two components as they are read, and their value.               *)
LEMMA PairIs ==
    ASSUME NEW a \in Int, NEW b \in Int
    PROVE  /\ Append(<<>>, a) = <<a>> /\ Append(<<a>>, b) = <<a, b>>
           /\ InSeconds(<<a, b>>) = 60 * a + b
  <1>1. Append(<<>>, a) = <<a>>
    <2> DEFINE s == <<>>
               t == <<a>>
    <2>1. s \in Seq(Int) /\ Len(s) = 0
      OBVIOUS
    <2>2. t \in Seq(Int) /\ Len(t) = 1 /\ t[1] = a
      OBVIOUS
    <2> HIDE DEF s, t
    <2>3. \A i \in 1 .. 1 : Append(s, a)[i] = t[i]
      <3>1. /\ Len(Append(s, a)) = 1 /\ Append(s, a)[1] = a
            /\ \A i \in 1 .. 0 : Append(s, a)[i] = s[i]
        BY <2>1
      <3> QED
        BY <2>1, <2>2, <3>1
    <2>4. Append(s, a) \in Seq(Int) /\ Len(Append(s, a)) = 1
      BY <2>1
    <2> QED
      BY <2>2, <2>3, <2>4, SeqEqual DEF s, t
  <1>2. Append(<<a>>, b) = <<a, b>>
    <2> DEFINE s == <<a>>
               t == <<a, b>>
    <2>1. s \in Seq(Int) /\ Len(s) = 1 /\ s[1] = a
      OBVIOUS
    <2>2. t \in Seq(Int) /\ Len(t) = 2 /\ t[1] = a /\ t[2] = b
      OBVIOUS
    <2> HIDE DEF s, t
    <2> DEFINE u == Append(s, b)
    <2>3. /\ u \in Seq(Int) /\ Len(u) = Len(s) + 1 /\ u[Len(s) + 1] = b
          /\ \A i \in 1 .. Len(s) : u[i] = s[i]
      <3>1. s \in Seq(Int) /\ b \in Int
        BY <2>1
      <3> QED
        BY ONLY <3>1, AppendProperties
    <2> HIDE DEF u
    <2>4. Len(u) = 2 /\ \A i \in 1 .. 2 : u[i] = t[i]
      BY <2>1, <2>2, <2>3
    <2>5. u = t
      BY <2>2, <2>3, <2>4, SeqEqual
    <2> QED
      BY <2>5 DEF s, t, u
  <1>3. InSeconds(<<a, b>>) = 60 * a + b
    <2> DEFINE s == <<a, b>>
    <2>1. s \in Seq(Int) /\ Len(s) = 2 /\ s[1] = a /\ s[2] = b
      OBVIOUS
    <2> HIDE DEF s
    <2>2. PICK f : /\ InSeconds(s) = f[2] /\ f[0] = 0
                   /\ \A n \in 1 .. 2 : f[n] = f[n - 1] * 60 + s[n]
      <3>1. PICK f : /\ InSeconds(s) = f[Len(s)] /\ f[0] = 0
                     /\ \A n \in 1 .. Len(s) : f[n] = f[n - 1] * 60 + s[n]
        BY ONLY <2>1, InSecondsIsRead
      <3> QED
        BY ONLY <2>1, <3>1
    <2>3. f[1] = f[0] * 60 + s[1] /\ f[2] = f[1] * 60 + s[2]
      <3>1. 1 - 1 = 0 /\ 2 - 1 = 1 /\ 1 \in 1 .. 2 /\ 2 \in 1 .. 2
        OBVIOUS
      <3>2. f[1] = f[1 - 1] * 60 + s[1] /\ f[2] = f[2 - 1] * 60 + s[2]
        BY ONLY <2>2, <3>1
      <3> QED
        BY ONLY <3>1, <3>2
    <2>4. InSeconds(s) = 60 * a + b
      BY <2>1, <2>2, <2>3
    <2> QED
      BY <2>4 DEF s
  <1> QED
    BY <1>1, <1>2, <1>3

(* Three components.                                                       *)
LEMMA TripleIs ==
    ASSUME NEW a \in Int, NEW b \in Int, NEW c \in Int
    PROVE  /\ Append(<<a, b>>, c) = <<a, b, c>>
           /\ InSeconds(<<a, b, c>>) = 3600 * a + 60 * b + c
  <1>1. Append(<<a, b>>, c) = <<a, b, c>>
    <2> DEFINE s == <<a, b>>
               t == <<a, b, c>>
    <2>1. s \in Seq(Int) /\ Len(s) = 2 /\ s[1] = a /\ s[2] = b
      OBVIOUS
    <2>2. t \in Seq(Int) /\ Len(t) = 3 /\ t[1] = a /\ t[2] = b /\ t[3] = c
      OBVIOUS
    <2> HIDE DEF s, t
    <2> DEFINE u == Append(s, c)
    <2>3. /\ u \in Seq(Int) /\ Len(u) = Len(s) + 1 /\ u[Len(s) + 1] = c
          /\ \A i \in 1 .. Len(s) : u[i] = s[i]
      <3>1. s \in Seq(Int) /\ c \in Int
        BY <2>1
      <3> QED
        BY ONLY <3>1, AppendProperties
    <2> HIDE DEF u
    <2>4. Len(u) = 3 /\ \A i \in 1 .. 3 : u[i] = t[i]
      BY <2>1, <2>2, <2>3
    <2>5. u = t
      BY <2>2, <2>3, <2>4, SeqEqual
    <2> QED
      BY <2>5 DEF s, t, u
  <1>2. InSeconds(<<a, b, c>>) = 3600 * a + 60 * b + c
    <2> DEFINE s == <<a, b, c>>
    <2>1. s \in Seq(Int) /\ Len(s) = 3 /\ s[1] = a /\ s[2] = b /\ s[3] = c
      OBVIOUS
    <2> HIDE DEF s
    <2>2. PICK f : /\ InSeconds(s) = f[3] /\ f[0] = 0
                   /\ \A n \in 1 .. 3 : f[n] = f[n - 1] * 60 + s[n]
      <3>1. PICK f : /\ InSeconds(s) = f[Len(s)] /\ f[0] = 0
                     /\ \A n \in 1 .. Len(s) : f[n] = f[n - 1] * 60 + s[n]
        BY ONLY <2>1, InSecondsIsRead
      <3> QED
        BY ONLY <2>1, <3>1
    <2>3. /\ f[1] = f[0] * 60 + s[1] /\ f[2] = f[1] * 60 + s[2]
          /\ f[3] = f[2] * 60 + s[3]
      <3>1. /\ 1 - 1 = 0 /\ 2 - 1 = 1 /\ 3 - 1 = 2
            /\ 1 \in 1 .. 3 /\ 2 \in 1 .. 3 /\ 3 \in 1 .. 3
        OBVIOUS
      <3>2. /\ f[1] = f[1 - 1] * 60 + s[1] /\ f[2] = f[2 - 1] * 60 + s[2]
            /\ f[3] = f[3 - 1] * 60 + s[3]
        BY ONLY <2>2, <3>1
      <3> QED
        BY ONLY <3>1, <3>2
    <2>4. InSeconds(s) = 3600 * a + 60 * b + c
      BY <2>1, <2>2, <2>3
    <2> QED
      BY <2>4 DEF s
  <1> QED
    BY <1>1, <1>2

(* What is left of a text without its leading blanks.                      *)
LEMMA OffsetIs ==
    ASSUME NEW text \in Seq(Tokens), NEW p \in 1 .. Len(text) + 1,
           NextAt(text, 1, p)
    PROVE  SkipBlanks(text) = Suffix(text, p)
  <1>1. Suffix(text, 1) = text
    BY SubSeqFull DEF Suffix
  <1>2. 1 \in 1 .. Len(text) + 1
    OBVIOUS
  <1>3. SkipBlanks(Suffix(text, 1)) = Suffix(text, p)
    BY <1>2, BlanksAreSkipped
  <1> QED
    BY <1>1, <1>3

(* The three turns of the loop.                                            *)
LEMMA ComponentsAre ==
    ASSUME NEW text \in Seq(Tokens), NEW p \in 1 .. Len(text) + 1
    PROVE  Components(Suffix(text, p)) =
              Component(Component(Component(Scan(text, p, <<>>, "more"))))
  BY DEF Components, Scan

(* A turn after the last one changes nothing.                              *)
LEMMA ComponentIsLast ==
    ASSUME NEW s, s.state # "more"
    PROVE  Component(s) = s
  BY DEF Component

(* A text that is a time, by the number of its components.                 *)
Seconds1(text, a) ==
    NumberAt(text, 1, a) /\ BlankAfter(text, a)

Seconds2(text, a, b) ==
    /\ NumberAt(text, 1, a) /\ ColonAt(text, a + 1)
    /\ NumberAt(text, a + 2, b) /\ BlankAfter(text, b)

Seconds3(text, a, b, c) ==
    /\ NumberAt(text, 1, a) /\ ColonAt(text, a + 1)
    /\ NumberAt(text, a + 2, b) /\ ColonAt(text, b + 1)
    /\ NumberAt(text, b + 2, c) /\ BlankAfter(text, c)

(* A reading is one of the three.                                          *)
LEMMA ReadingIs ==
    ASSUME NEW text, NEW at \in Readings(text)
    PROVE  LET Part(p) == Numbers[text[p]]
           IN  \/ \E a \in DOMAIN text :
                     Seconds1(text, a) /\ SecondsAt(text, at) = Part(a)
               \/ \E a, b \in DOMAIN text :
                     /\ Seconds2(text, a, b)
                     /\ SecondsAt(text, at) = 60 * Part(a) + Part(b)
               \/ \E a, b, c \in DOMAIN text :
                     /\ Seconds3(text, a, b, c)
                     /\ SecondsAt(text, at) =
                           3600 * Part(a) + 60 * Part(b) + Part(c)
  <1>1. PICK n \in 1 .. 3 : at \in [1 .. n -> DOMAIN text]
    BY DEF Readings
  <1>2. at \in Seq(DOMAIN text) /\ Len(at) = n
    BY <1>1
  <1>3. /\ NumberAt(text, 1, at[1])
        /\ \A k \in 2 .. n : /\ ColonAt(text, at[k - 1] + 1)
                             /\ NumberAt(text, at[k - 1] + 2, at[k])
        /\ BlankAfter(text, at[n])
    BY <1>2 DEF Readings
  <1>4. CASE n = 1
    <2>1. at[1] \in DOMAIN text /\ Seconds1(text, at[1])
      BY <1>1, <1>3, <1>4 DEF Seconds1
    <2>2. SecondsAt(text, at) = Numbers[text[at[1]]]
      BY <1>2, <1>4 DEF SecondsAt
    <2> QED
      BY <2>1, <2>2
  <1>5. CASE n = 2
    <2>1. at[1] \in DOMAIN text /\ at[2] \in DOMAIN text
      BY <1>1, <1>5
    <2>2. ColonAt(text, at[1] + 1) /\ NumberAt(text, at[1] + 2, at[2])
      <3>1. 2 \in 2 .. n /\ 2 - 1 = 1
        BY <1>5
      <3>2. ColonAt(text, at[2 - 1] + 1) /\ NumberAt(text, at[2 - 1] + 2, at[2])
        BY ONLY <1>3, <3>1
      <3> QED
        BY ONLY <3>1, <3>2
    <2>3. Seconds2(text, at[1], at[2])
      BY <1>3, <1>5, <2>2 DEF Seconds2
    <2>4. SecondsAt(text, at) = 60 * Numbers[text[at[1]]] + Numbers[text[at[2]]]
      BY <1>2, <1>5 DEF SecondsAt
    <2> QED
      BY <2>1, <2>3, <2>4
  <1>6. CASE n = 3
    <2>1. /\ at[1] \in DOMAIN text /\ at[2] \in DOMAIN text
          /\ at[3] \in DOMAIN text
      BY <1>1, <1>6
    <2>2. /\ ColonAt(text, at[1] + 1) /\ NumberAt(text, at[1] + 2, at[2])
          /\ ColonAt(text, at[2] + 1) /\ NumberAt(text, at[2] + 2, at[3])
      <3>1. 2 \in 2 .. n /\ 2 - 1 = 1 /\ 3 \in 2 .. n /\ 3 - 1 = 2
        BY <1>6
      <3>2. /\ ColonAt(text, at[2 - 1] + 1) /\ NumberAt(text, at[2 - 1] + 2, at[2])
            /\ ColonAt(text, at[3 - 1] + 1) /\ NumberAt(text, at[3 - 1] + 2, at[3])
        BY ONLY <1>3, <3>1
      <3> QED
        BY ONLY <3>1, <3>2
    <2>3. Seconds3(text, at[1], at[2], at[3])
      BY <1>3, <1>6, <2>2 DEF Seconds3
    <2>4. SecondsAt(text, at) = 3600 * Numbers[text[at[1]]]
                                + 60 * Numbers[text[at[2]]] + Numbers[text[at[3]]]
      BY <1>2, <1>6 DEF SecondsAt
    <2> QED
      BY <2>1, <2>3, <2>4
  <1> QED
    BY <1>4, <1>5, <1>6

(* And each of the three is a reading.                                     *)
LEMMA ReadingsAre ==
    ASSUME NEW text, NEW a \in DOMAIN text, NEW b \in DOMAIN text,
           NEW c \in DOMAIN text,
           Seconds1(text, a) \/ Seconds2(text, a, b) \/ Seconds3(text, a, b, c)
    PROVE  Readings(text) # {}
  <1> DEFINE Right(at) ==
                /\ NumberAt(text, 1, at[1])
                /\ \A k \in 2 .. Len(at) : /\ ColonAt(text, at[k - 1] + 1)
                                           /\ NumberAt(text, at[k - 1] + 2, at[k])
                /\ BlankAfter(text, at[Len(at)])
             D == DOMAIN text
  <1>1. \A n \in 1 .. 3 : \A at \in [1 .. n -> D] :
           Right(at) => at \in Readings(text)
    BY DEF Readings
  <1>2. CASE Seconds1(text, a)
    <2> DEFINE at == <<a>>
    <2>1. at \in [1 .. 1 -> D] /\ Len(at) = 1 /\ at[1] = a
      OBVIOUS
    <2> HIDE DEF at, D
    <2>2. Right(at)
      BY <1>2, <2>1 DEF Seconds1
    <2> HIDE DEF Right
    <2> QED
      BY <1>1, <2>1, <2>2
  <1>3. CASE Seconds2(text, a, b)
    <2> DEFINE at == <<a, b>>
    <2>1. at \in [1 .. 2 -> D] /\ Len(at) = 2 /\ at[1] = a /\ at[2] = b
      OBVIOUS
    <2> HIDE DEF at, D
    <2>2. ASSUME NEW k \in 2 .. 2
          PROVE  ColonAt(text, at[k - 1] + 1) /\ NumberAt(text, at[k - 1] + 2, at[k])
      <3>1. k = 2 /\ k - 1 = 1
        OBVIOUS
      <3> QED
        BY ONLY <1>3, <2>1, <3>1 DEF Seconds2
    <2>3. Right(at)
      BY <1>3, <2>1, <2>2 DEF Seconds2
    <2> HIDE DEF Right
    <2> QED
      BY <1>1, <2>1, <2>3
  <1>4. CASE Seconds3(text, a, b, c)
    <2> DEFINE at == <<a, b, c>>
    <2>1. /\ at \in [1 .. 3 -> D] /\ Len(at) = 3
          /\ at[1] = a /\ at[2] = b /\ at[3] = c
      OBVIOUS
    <2> HIDE DEF at, D
    <2>2. ASSUME NEW k \in 2 .. 3
          PROVE  ColonAt(text, at[k - 1] + 1) /\ NumberAt(text, at[k - 1] + 2, at[k])
      <3>1. (k = 2 /\ k - 1 = 1) \/ (k = 3 /\ k - 1 = 2)
        OBVIOUS
      <3> QED
        BY ONLY <1>4, <2>1, <3>1 DEF Seconds3
    <2>3. Right(at)
      BY <1>4, <2>1, <2>2 DEF Seconds3
    <2> HIDE DEF Right
    <2> QED
      BY <1>1, <2>1, <2>3
  <1> QED
    BY <1>2, <1>3, <1>4

(* A number stands there, for the scan from any place on the blanks before *)
(* it.                                                                     *)
LEMMA NumberStands ==
    ASSUME NEW text \in Seq(Tokens), NEW p \in 1 .. Len(text) + 1,
           NEW q \in DOMAIN text, NumberAt(text, p, q)
    PROVE  NextAt(text, p, q) /\ NumberAt(text, q, q)
  <1>1. q \in Int
    OBVIOUS
  <1> QED
    BY <1>1, NumberIsNext DEF NumberAt

(* A chunk offset that is a time gives its seconds.                        *)
LEMMA TimesAreRead ==
    ASSUME NEW text \in Seq(Tokens), NEW at \in Readings(text)
    PROVE  /\ audd_offset_to_seconds(text) = SecondsAt(text, at)
           /\ SecondsAt(text, at) \in Nat
  <1> DEFINE N == Len(text)
             V(p) == Numbers[text[p]]
             Read(p) == Component(Component(Component(Scan(text, p, <<>>, "more"))))
  <1>1. N \in Nat /\ DOMAIN text = 1 .. N
    OBVIOUS
  <1>2. ASSUME NEW a \in DOMAIN text, NumberAt(text, 1, a)
        PROVE  /\ SkipBlanks(text) = Suffix(text, a) /\ Suffix(text, a) # <<>>
               /\ NextAt(text, a, a) /\ NumberAt(text, a, a)
               /\ a \in 1 .. N + 1 /\ V(a) \in Nat
    <2>1. a \in 1 .. N + 1 /\ 1 \in 1 .. N + 1 /\ a # N + 1
      BY <1>1
    <2>2. NextAt(text, 1, a) /\ NumberAt(text, a, a)
      BY <1>2, <2>1, NumberStands
    <2>3. NextAt(text, a, a)
      BY <2>1, <2>2, NumberStands
    <2>4. SkipBlanks(text) = Suffix(text, a)
      BY <2>1, <2>2, OffsetIs
    <2>5. Suffix(text, a) # <<>>
      BY <2>1, SuffixIs
    <2>6. V(a) \in Nat
      BY <2>2, NumbersAre DEF NumberAt
    <2> QED
      BY <2>1, <2>2, <2>3, <2>4, <2>5, <2>6
  <1>3. ASSUME NEW a \in DOMAIN text, Seconds1(text, a)
        PROVE  audd_offset_to_seconds(text) = V(a) /\ V(a) \in Nat
    <2> DEFINE offset == Suffix(text, a)
    <2>1. /\ SkipBlanks(text) = offset /\ offset # <<>> /\ NextAt(text, a, a)
          /\ NumberAt(text, a, a) /\ a \in 1 .. N + 1 /\ V(a) \in Nat
          /\ BlankAfter(text, a)
      BY <1>2, <1>3 DEF Seconds1
    <2>2. \A i \in DOMAIN offset : offset[i] # "colon"
      <3>1. /\ DOMAIN offset = 1 .. N + 1 - a
            /\ \A i \in 1 .. N + 1 - a : offset[i] = text[a + i - 1]
        BY <2>1, SuffixIs
      <3> SUFFICES ASSUME NEW i \in 1 .. N + 1 - a PROVE offset[i] # "colon"
        BY <3>1
      <3>2. CASE i = 1
        BY <2>1, <3>1, <3>2, NumbersAre DEF NumberAt
      <3>3. CASE i # 1
        <4>1. a + i - 1 \in a + 1 .. N
          BY <1>1, <2>1, <3>1, <3>3
        <4> QED
          BY <2>1, <3>1, <4>1 DEF BlankAfter
      <3> QED
        BY <3>2, <3>3
    <2>3. /\ Readable(offset) /\ Value(offset) = V(a)
          /\ Behind(offset) = Suffix(text, a + 1)
      BY <1>1, <2>1, SuffixIsRead DEF NumberAt
    <2>4. SkipBlanks(Suffix(text, a + 1)) = <<>>
      BY <2>1, OnlyBlanksLeft
    <2> HIDE DEF offset, V
    <2>5. BareSeconds(offset) = V(a)
      BY <2>1, <2>3, <2>4 DEF BareSeconds
    <2>6. audd_offset_to_seconds(text) = BareSeconds(offset)
      BY <2>1, <2>2 DEF audd_offset_to_seconds
    <2> QED
      BY <2>1, <2>5, <2>6
  <1>4. ASSUME NEW a \in DOMAIN text, NumberAt(text, 1, a), ColonAt(text, a + 1),
               Read(a).state # "bad", Read(a).rest = <<>>
        PROVE  audd_offset_to_seconds(text) = InSeconds(Read(a).parts)
    <2> DEFINE offset == Suffix(text, a)
    <2>1. SkipBlanks(text) = offset /\ offset # <<>> /\ a \in 1 .. N + 1
      BY <1>2, <1>4
    <2>2. \E i \in DOMAIN offset : offset[i] = "colon"
      <3>1. a + 1 \in 1 .. N /\ text[a + 1] = "colon"
        BY <1>1, <1>4 DEF ColonAt
      <3>2. 2 \in 1 .. N + 1 - a /\ a + 2 - 1 = a + 1
        BY <1>1, <2>1, <3>1
      <3>3. 2 \in DOMAIN offset /\ offset[2] = text[a + 2 - 1]
        BY <2>1, <3>2, SuffixIs
      <3> QED
        BY <3>1, <3>2, <3>3
    <2>3. Components(offset) = Read(a)
      BY <2>1, ComponentsAre
    <2> HIDE DEF Read
    <2>4. ~Starts(Read(a).rest, "colon")
      BY <1>4 DEF Starts
    <2> HIDE DEF offset
    <2> QED
      BY <1>4, <2>1, <2>2, <2>3, <2>4 DEF audd_offset_to_seconds
  <1>5. ASSUME NEW parts
        PROVE  LET s == Scan(text, N + 1, parts, "end")
               IN  /\ Component(s) = s /\ s.state # "bad"
                   /\ s.rest = <<>> /\ s.parts = parts
    <2>1. Suffix(text, N + 1) = <<>>
      BY <1>1, SuffixIs
    <2>2. Scan(text, N + 1, parts, "end").state = "end"
      BY DEF Scan
    <2>3. Component(Scan(text, N + 1, parts, "end")) = Scan(text, N + 1, parts, "end")
      BY <2>2, ComponentIsLast
    <2> QED
      BY <2>1, <2>2, <2>3 DEF Scan
  <1>6. ASSUME NEW a \in DOMAIN text, NEW b \in DOMAIN text, Seconds2(text, a, b)
        PROVE  /\ audd_offset_to_seconds(text) = 60 * V(a) + V(b)
               /\ 60 * V(a) + V(b) \in Nat
    <2> DEFINE last == Scan(text, N + 1, <<V(a), V(b)>>, "end")
    <2>1. /\ NumberAt(text, 1, a) /\ NumberAt(text, a, a) /\ ColonAt(text, a + 1)
          /\ NumberAt(text, a + 2, b) /\ BlankAfter(text, b)
          /\ a \in 1 .. N + 1 /\ V(a) \in Nat
      BY <1>2, <1>6 DEF Seconds2
    <2>2. V(b) \in Nat
      BY <2>1, NumbersAre DEF NumberAt
    <2>3. a + 2 \in 1 .. N + 1
      BY <2>1, ColonIsNext
    <2>4. /\ Append(<<>>, V(a)) = <<V(a)>>
          /\ Append(<<V(a)>>, V(b)) = <<V(a), V(b)>>
          /\ InSeconds(<<V(a), V(b)>>) = 60 * V(a) + V(b)
      BY ONLY <2>1, <2>2, PairIs
    <2>5. GoesOn(text, a, <<>>, a) /\ Ends(text, a + 2, <<V(a)>>, b)
      BY <2>1, <2>3, ComponentReads
    <2>6. Component(Scan(text, a, <<>>, "more")) = Scan(text, a + 2, <<V(a)>>, "more")
      BY ONLY <2>4, <2>5 DEF GoesOn
    <2>7. Component(Scan(text, a + 2, <<V(a)>>, "more")) = last
      BY ONLY <2>4, <2>5 DEF Ends
    <2>8. /\ Component(last) = last /\ last.state # "bad" /\ last.rest = <<>>
          /\ last.parts = <<V(a), V(b)>>
      BY <1>5
    <2> HIDE DEF last, V
    <2>9. Read(a) = last
      BY <2>6, <2>7, <2>8
    <2> HIDE DEF Read
    <2>10. audd_offset_to_seconds(text) = InSeconds(last.parts)
      BY ONLY <1>4, <2>1, <2>8, <2>9
    <2>11. 60 * V(a) + V(b) \in Nat
      BY ONLY <2>1, <2>2
    <2> QED
      BY <2>4, <2>8, <2>10, <2>11
  <1>7. ASSUME NEW a \in DOMAIN text, NEW b \in DOMAIN text, NEW c \in DOMAIN text,
               Seconds3(text, a, b, c)
        PROVE  /\ audd_offset_to_seconds(text) = 3600 * V(a) + 60 * V(b) + V(c)
               /\ 3600 * V(a) + 60 * V(b) + V(c) \in Nat
    <2> DEFINE last == Scan(text, N + 1, <<V(a), V(b), V(c)>>, "end")
    <2>1. /\ NumberAt(text, 1, a) /\ NumberAt(text, a, a) /\ ColonAt(text, a + 1)
          /\ NumberAt(text, a + 2, b) /\ ColonAt(text, b + 1)
          /\ NumberAt(text, b + 2, c) /\ BlankAfter(text, c)
          /\ a \in 1 .. N + 1 /\ V(a) \in Nat
      BY <1>2, <1>7 DEF Seconds3
    <2>2. V(b) \in Nat /\ V(c) \in Nat
      BY <2>1, NumbersAre DEF NumberAt
    <2>3. a + 2 \in 1 .. N + 1 /\ b + 2 \in 1 .. N + 1
      BY <2>1, ColonIsNext
    <2>4. /\ Append(<<>>, V(a)) = <<V(a)>>
          /\ Append(<<V(a)>>, V(b)) = <<V(a), V(b)>>
      <3>1. V(a) \in Int /\ V(b) \in Int
        BY ONLY <2>1, <2>2
      <3> HIDE DEF V
      <3> QED
        BY ONLY <3>1, PairIs
    <2>5. /\ Append(<<V(a), V(b)>>, V(c)) = <<V(a), V(b), V(c)>>
          /\ InSeconds(<<V(a), V(b), V(c)>>) = 3600 * V(a) + 60 * V(b) + V(c)
      <3>1. V(a) \in Int /\ V(b) \in Int /\ V(c) \in Int
        BY ONLY <2>1, <2>2
      <3> HIDE DEF V
      <3> QED
        BY ONLY <3>1, TripleIs
    <2>6. GoesOn(text, a, <<>>, a) /\ GoesOn(text, a + 2, <<V(a)>>, b)
      BY <2>1, <2>3, ComponentReads
    <2>7. Ends(text, b + 2, <<V(a), V(b)>>, c)
      BY <2>1, <2>3, ComponentReads
    <2>8. Component(Scan(text, a, <<>>, "more")) = Scan(text, a + 2, <<V(a)>>, "more")
      BY ONLY <2>4, <2>6 DEF GoesOn
    <2>9. Component(Scan(text, a + 2, <<V(a)>>, "more")) =
             Scan(text, b + 2, <<V(a), V(b)>>, "more")
      <3>1. Component(Scan(text, a + 2, <<V(a)>>, "more")) =
               Scan(text, b + 2, Append(<<V(a)>>, V(b)), "more")
        BY ONLY <2>6 DEF GoesOn
      <3> HIDE DEF V
      <3> QED
        BY ONLY <2>4, <3>1
    <2>10. Component(Scan(text, b + 2, <<V(a), V(b)>>, "more")) = last
      <3>1. Component(Scan(text, b + 2, <<V(a), V(b)>>, "more")) =
               Scan(text, N + 1, Append(<<V(a), V(b)>>, V(c)), "end")
        BY ONLY <2>7 DEF Ends
      <3> HIDE DEF V
      <3>2. Append(<<V(a), V(b)>>, V(c)) = <<V(a), V(b), V(c)>>
        BY ONLY <2>5
      <3> QED
        BY ONLY <3>1, <3>2
    <2>11. /\ last.state # "bad" /\ last.rest = <<>>
           /\ last.parts = <<V(a), V(b), V(c)>>
      BY <1>5
    <2>12. 3600 * V(a) + 60 * V(b) + V(c) \in Nat
      <3>1. V(a) \in Nat /\ V(b) \in Nat /\ V(c) \in Nat
        BY ONLY <2>1, <2>2
      <3> HIDE DEF V
      <3>2. \A x, y, z \in Nat : 3600 * x + 60 * y + z \in Nat
        OBVIOUS
      <3> QED
        BY ONLY <3>1, <3>2
    <2> HIDE DEF last, V
    <2>13. Read(a) = last
      BY <2>8, <2>9, <2>10
    <2> HIDE DEF Read
    <2>14. audd_offset_to_seconds(text) = InSeconds(last.parts)
      BY ONLY <1>4, <2>1, <2>11, <2>13
    <2> QED
      BY <2>5, <2>11, <2>12, <2>14
  <1> QED
    BY <1>3, <1>6, <1>7, ReadingIs

(* A text that is no time is not usable, unless it has too many parts.     *)
LEMMA OnlyTimesAreRead ==
    ASSUME NEW text \in Seq(Tokens), ~TooManyParts(text), Readings(text) = {}
    PROVE  audd_offset_to_seconds(text) = Unknown
  <1> DEFINE N == Len(text)
  <1> SUFFICES ASSUME audd_offset_to_seconds(text) # Unknown PROVE FALSE
    OBVIOUS
  <1>1. N \in Nat /\ DOMAIN text = 1 .. N /\ 1 \in 1 .. N + 1
    OBVIOUS
  <1>2. PICK p \in 1 .. N + 1 : NextAt(text, 1, p)
    BY <1>1, NextIs
  <1> DEFINE offset == Suffix(text, p)
  <1>3. SkipBlanks(text) = offset
    BY <1>2, OffsetIs
  <1>4. offset # <<>>
    BY <1>3 DEF audd_offset_to_seconds
  <1>5. p \in DOMAIN text
    BY <1>1, <1>4, SuffixIs
  <1>6. \A a \in DOMAIN text : NumberAt(text, p, a) => NumberAt(text, 1, a)
    <2> SUFFICES ASSUME NEW a \in DOMAIN text, NumberAt(text, p, a)
                 PROVE  NumberAt(text, 1, a)
      OBVIOUS
    <2>1. \A i \in 1 .. a - 1 : i \in 1 .. p - 1 \/ i \in p .. a - 1
      BY <1>1
    <2> QED
      BY <1>1, <1>2, <2>1 DEF NumberAt, NextAt
  <1>7. CASE \A i \in DOMAIN offset : offset[i] # "colon"
    <2>1. audd_offset_to_seconds(text) = BareSeconds(offset)
      BY <1>3, <1>4, <1>7 DEF audd_offset_to_seconds
    <2>2. /\ Readable(offset) /\ SkipBlanks(Behind(offset)) = <<>>
          /\ ~(Value(offset) < 0)
      BY <2>1 DEF BareSeconds
    <2>3. NextAt(text, p, p)
      BY <1>1, <1>2, <1>5 DEF NextAt
    <2>4. /\ IsNumber(text[p]) /\ Value(offset) = Numbers[text[p]]
          /\ Behind(offset) = Suffix(text, p + 1)
      BY <1>1, <1>5, <2>2, <2>3, SuffixIsRead
    <2>5. NumberAt(text, p, p)
      BY <1>5, <2>2, <2>3, <2>4, NumberIsNext, NumbersAre
    <2>6. BlankAfter(text, p)
      BY <1>5, <2>2, <2>4, OnlyBlanksLeft
    <2>7. Seconds1(text, p)
      BY <1>5, <1>6, <2>5, <2>6 DEF Seconds1
    <2> QED
      BY <1>5, <2>7, ReadingsAre
  <1>8. CASE ~\A i \in DOMAIN offset : offset[i] # "colon"
    <2> DEFINE s0 == Scan(text, p, <<>>, "more")
               s1 == Component(s0)
               s2 == Component(s1)
               s3 == Component(s2)
    <2>1. Components(offset) = s3
      BY ComponentsAre
    <2>2. s3.state # "bad"
      <3> HIDE DEF s3, offset
      <3> QED
        BY <1>3, <1>4, <1>8, <2>1 DEF audd_offset_to_seconds
    <2>3. ~Starts(s3.rest, "colon")
      <3> HIDE DEF s3, offset
      <3> QED
        BY <1>3, <1>4, <1>8, <2>1, <2>2 DEF audd_offset_to_seconds
    <2>4. s1.state # "bad"
      <3> HIDE DEF s1
      <3> QED
        BY <2>2, ComponentIsLast
    <2>5. PICK a \in DOMAIN text : /\ NumberAt(text, p, a)
                                   /\ ColonAt(text, a + 1) \/ BlankAfter(text, a)
      BY <2>4, ComponentFails
    <2>6. NumberAt(text, 1, a)
      BY <1>6, <2>5
    <2>7. CASE BlankAfter(text, a)
      BY <2>6, <2>7, ReadingsAre DEF Seconds1
    <2>8. CASE ColonAt(text, a + 1)
      <3>1. PICK parts1 : s1 = Scan(text, a + 2, parts1, "more")
        <4>1. GoesOn(text, p, <<>>, a)
          BY <2>5, <2>8, ComponentReads
        <4> QED
          BY <4>1 DEF GoesOn
      <3>2. a + 2 \in 1 .. N + 1
        BY <2>8, ColonIsNext
      <3>3. s2.state # "bad"
        <4> HIDE DEF s2
        <4> QED
          BY <2>2, ComponentIsLast
      <3>4. PICK b \in DOMAIN text : /\ NumberAt(text, a + 2, b)
                                     /\ ColonAt(text, b + 1) \/ BlankAfter(text, b)
        <4> HIDE DEF s1
        <4> QED
          BY <3>1, <3>2, <3>3, ComponentFails
      <3>5. CASE BlankAfter(text, b)
        BY <2>6, <2>8, <3>4, <3>5, ReadingsAre DEF Seconds2
      <3>6. CASE ColonAt(text, b + 1)
        <4>1. PICK parts2 : s2 = Scan(text, b + 2, parts2, "more")
          <5> HIDE DEF s1
          <5>1. GoesOn(text, a + 2, parts1, b)
            BY <3>2, <3>4, <3>6, ComponentReads
          <5> QED
            BY <3>1, <5>1 DEF GoesOn
        <4>2. b + 2 \in 1 .. N + 1
          BY <3>6, ColonIsNext
        <4>3. PICK c \in DOMAIN text :
                 /\ NumberAt(text, b + 2, c)
                 /\ ColonAt(text, c + 1) \/ BlankAfter(text, c)
          <5> HIDE DEF s2
          <5> QED
            BY <2>2, <4>1, <4>2, ComponentFails
        <4>4. CASE BlankAfter(text, c)
          BY <2>6, <2>8, <3>4, <3>6, <4>3, <4>4, ReadingsAre DEF Seconds3
        <4>5. CASE ColonAt(text, c + 1)
          <5>1. a + 1 < b + 1 /\ b + 1 < c + 1
            BY <1>1, <3>4, <4>3 DEF NumberAt
          <5>2. /\ a + 1 \in DOMAIN text /\ b + 1 \in DOMAIN text
                /\ c + 1 \in DOMAIN text
            BY <2>8, <3>6, <4>5 DEF ColonAt
          <5> QED
            BY <2>8, <3>6, <4>5, <5>1, <5>2 DEF TooManyParts
        <4> QED
          BY <4>3, <4>4, <4>5
      <3> QED
        BY <3>4, <3>5, <3>6
    <2> QED
      BY <2>5, <2>7, <2>8
  <1> QED
    BY <1>7, <1>8

-----------------------------------------------------------------------------
(* What is proved holds of every wire of the right shape, and whatever     *)
(* cannot be allocated; Init takes some of each.                           *)
Kinds == {"recognition", "enterprise", "streams", "lyrics", "callback"}

(* The blocks whose failure the model names otherwise: a getter's copy and *)
(* its redirect, and the extras, each call of which may run out of memory. *)
Unfailing ==
    ({"recognition", "enterprise"} \X Nat \X UrlGetters)
    \cup Members("aux", 0, {"genre", "_audd_extra_long"})

InputInv ==
    /\ kind \in Kinds
    /\ kind = "recognition" =>
          /\ wire.result \in {"object", "null", "other"}
          /\ wire.urls \in [UrlFields -> {"absent", "empty", "text"}]
          /\ wire.musicbrainz \in Arrays
    /\ kind = "enterprise" => /\ wire.chunks \in Seq(AnyChunk)
                              /\ wire.start \in [type : NodeTypes, val : Int]
    /\ kind \in {"streams", "lyrics"} => wire \in Arrays
    /\ kind = "callback" => wire \in Callbacks
    /\ failed \cap Unfailing = {}

-----------------------------------------------------------------------------
(* What the parsers allocate.                                              *)

(* Only strings may be absent.                                             *)
LEMMA AbsentAre ==
    ASSUME NEW b \in Absent
    PROVE  kind = "recognition" /\
           (b \in UrlFields \/ b = <<"recognition", 0, "song_link">>)
  BY DEF Absent

(* A structure comes with the strings for which there was memory, or not   *)
(* at all.                                                                 *)
LEMMA OwningIs ==
    ASSUME NEW struct, NEW ms
    PROVE  /\ Owning(struct, ms) \cap failed = {}
           /\ Owning(struct, ms) \subseteq Members(struct, 0, ms \cup {"self"})
           /\ Self(struct) \in failed => Owning(struct, ms) = {}
           /\ Self(struct) \notin failed => Self(struct) \in Owning(struct, ms)
  <1>1. Self(struct) \notin Absent
    BY AbsentAre DEF Self, UrlFields, AppleUrl, ApplePreviews, SpotifyExternal,
       SpotifyUri, SpotifyPreview, DeezerLink, DeezerPreview, NapsterHref
  <1>2. Self(struct) \in Members(struct, 0, ms \cup {"self"})
    BY DEF Self, Members
  <1> QED
    BY <1>1, <1>2 DEF Owning, Obtained

(* A list that cannot be had leaves nothing behind.                        *)
NoMemoryFor(struct) ==
    Self(struct) \in failed \/ <<struct, 0, "items">> \in failed

ListBlocks(struct, ms, list) ==
    {Self(struct), <<struct, 0, "items">>} \cup
    UNION {Members(struct, i, ms) : i \in DOMAIN list}

(* A list comes with its array and strings, or not at all.                 *)
LEMMA ListIs ==
    ASSUME NEW struct, NEW ms, NEW n \in Nat, NEW list
    PROVE  LET r == ListOf(struct, ms, n, list)
           IN  \/ r = Failure("OUT_OF_MEMORY") /\ NoMemoryFor(struct)
               \/ /\ r.err = "OK" /\ r.items = list /\ r.room = n
                  /\ Self(struct) \in r.blocks /\ r.blocks \cap failed = {}
                  /\ r.blocks \subseteq ListBlocks(struct, ms, list)
  <1> DEFINE none == \/ Self(struct) \in failed
                     \/ n > 0 /\ <<struct, 0, "items">> \in failed
             blocks == {Self(struct)} \cup
                       (IF n > 0 THEN {<<struct, 0, "items">>} ELSE {}) \cup
                       Obtained(UNION {Members(struct, i, ms) : i \in DOMAIN list})
  <1>1. ListOf(struct, ms, n, list) =
           IF none THEN Failure("OUT_OF_MEMORY")
           ELSE [err |-> "OK", blocks |-> blocks, items |-> list, room |-> n]
    BY DEF ListOf
  <1>2. none => NoMemoryFor(struct)
    BY DEF NoMemoryFor
  <1>3. ~none => /\ Self(struct) \in blocks /\ blocks \cap failed = {}
                 /\ blocks \subseteq ListBlocks(struct, ms, list)
    BY DEF Obtained, ListBlocks
  <1> HIDE DEF none, blocks
  <1> QED
    BY <1>1, <1>2, <1>3

(* What a list is when there was memory for it.                            *)
ListBuilt(r, struct, ms, n, list) ==
    /\ r.items = list /\ r.room = n
    /\ Self(struct) \in r.blocks
    /\ r.blocks \subseteq ListBlocks(struct, ms, list)

(* A list that was built is one of ListOf.                                 *)
LEMMA ListIsBuilt ==
    ASSUME NEW r, r.err = "OK",
           NEW struct, NEW ms, NEW n \in Nat, NEW list,
           r = ListOf(struct, ms, n, list)
    PROVE  ListBuilt(r, struct, ms, n, list)
  <1>1. r # Failure("OUT_OF_MEMORY")
    BY DEF Failure
  <1> QED
    BY <1>1, ListIs DEF ListBuilt

-----------------------------------------------------------------------------
(* The lists of one array.                                                 *)

InPlace(list, objects, n) ==
    /\ {<<list[j].chunk, list[j].entry>> : j \in DOMAIN list} = objects
    /\ InOrder(list)
    /\ Len(list) <= n

(* The objects of one array are in place.                                  *)
LEMMA PlacedAre ==
    ASSUME NEW a \in Arrays
    PROVE  /\ InPlace(Placed(a), ObjectsAt(1, a), Len(a))
           /\ \A k \in DOMAIN Placed(a) : Placed(a)[k].entry \in 1 .. MaxEntries
  <1> DEFINE js == Objects(a)
  <1>1. Len(a) \in 0 .. MaxEntries /\ DOMAIN a = 1 .. Len(a)
    BY ArraysAre
  <1>2. /\ js \in Seq(1 .. Len(a)) /\ Len(js) <= Len(a) /\ Increasing(js)
        /\ \A j \in 1 .. Len(a) :
              a[j] = "object" <=> \E k \in DOMAIN js : js[k] = j
    BY <1>1, ObjectsAre
  <1>3. Placed(a) = [k \in DOMAIN js |-> Place(1, js[k])]
    BY DEF Placed
  <1> HIDE DEF js
  <1>4. /\ Len(js) \in Nat /\ DOMAIN js = 1 .. Len(js)
        /\ \A k \in DOMAIN js : js[k] \in 1 .. Len(a)
    BY <1>2
  <1>5. /\ DOMAIN Placed(a) = 1 .. Len(js) /\ Len(Placed(a)) = Len(js)
        /\ \A k \in 1 .. Len(js) :
              Placed(a)[k].chunk = 1 /\ Placed(a)[k].entry = js[k]
    BY <1>3, <1>4 DEF Place
  <1>6. {<<Placed(a)[k].chunk, Placed(a)[k].entry>> : k \in DOMAIN Placed(a)}
           = ObjectsAt(1, a)
    <2>1. ASSUME NEW k \in 1 .. Len(js)
          PROVE  <<1, js[k]>> \in ObjectsAt(1, a)
      BY <1>1, <1>2, <1>4 DEF ObjectsAt
    <2>2. ASSUME NEW x \in ObjectsAt(1, a)
          PROVE  \E k \in 1 .. Len(js) : x = <<1, js[k]>>
      BY <1>1, <1>2, <1>4 DEF ObjectsAt
    <2> QED
      BY <1>5, <2>1, <2>2
  <1>7. InOrder(Placed(a))
    BY <1>2, <1>4, <1>5 DEF InOrder, Precedes, Increasing
  <1>8. \A k \in DOMAIN Placed(a) : Placed(a)[k].entry \in 1 .. MaxEntries
    <2>1. \A j \in 1 .. Len(a) : j \in 1 .. MaxEntries
      BY <1>1, BoundsAssumption
    <2> QED
      BY <1>4, <1>5, <2>1
  <1> QED
    BY <1>2, <1>5, <1>6, <1>7, <1>8 DEF InPlace

-----------------------------------------------------------------------------
(* What building a result promises, whatever it is built from.             *)
OutStructs == {"recognition", "enterprise", "streams", "lyrics", "match",
               "notification"}

ByParser(b) == b[1] # "aux" /\ b[3] \notin UrlGetters

OutsOf(blocks) == {Self(x) : x \in OutStructs} \cap blocks

(* The reasons for which a callback body may be refused.                   *)
BadCallback ==
    /\ kind = "callback"
    /\ \/ wire.body # "json" \/ Self("root") \in failed
       \/ ~wire.notification /\ wire.results = <<>>

Sound(r) ==
    /\ r.err \in Errors /\ r.room \in Nat
    /\ r.blocks \cap failed = {}
    /\ \A b \in r.blocks : ByParser(b)
    /\ \A k \in DOMAIN r.items : r.items[k].entry \in 1 .. MaxEntries
    /\ r.err # "OK" => r.blocks \subseteq {Self("message")} /\ r.items = <<>>
    /\ r.err = "OK" =>
          \/ \E out \in OutStructs : OutsOf(r.blocks) = {Self(out)}
          \/ NoMatch /\ r.blocks = {} /\ r.items = <<>>
    /\ r.err = "OUT_OF_MEMORY" =>
          \/ \E b \in failed : b[2] = 0 /\ b[3] \in {"self", "items"}
          \/ kind = "recognition" /\ wire.result = "other"
    /\ r.err = "SERIALIZATION" => BadCallback

(* A call that ran out of memory gives nothing.                            *)
LEMMA FailureIsSound ==
    ASSUME NEW struct, NoMemoryFor(struct)
    PROVE  Sound(Failure("OUT_OF_MEMORY"))
  BY DEF Sound, Failure, NoMemoryFor, Errors, Self

(* A list of one of the three kinds there are.                             *)
LEMMA ListIsSound ==
    ASSUME NEW struct \in {"streams", "lyrics", "enterprise"}, NEW ms,
           ms \cap (UrlGetters \cup {"self", "items"}) = {},
           NEW n \in Nat, NEW list,
           \A k \in DOMAIN list : list[k].entry \in 1 .. MaxEntries
    PROVE  Sound(ListOf(struct, ms, n, list))
  <1> DEFINE r == ListOf(struct, ms, n, list)
  <1> SUFFICES Sound(r)
    OBVIOUS
  <1>1. CASE r = Failure("OUT_OF_MEMORY") /\ NoMemoryFor(struct)
    BY <1>1, FailureIsSound
  <1>2. CASE /\ r.err = "OK" /\ r.items = list /\ r.room = n
             /\ Self(struct) \in r.blocks /\ r.blocks \cap failed = {}
             /\ r.blocks \subseteq ListBlocks(struct, ms, list)
    <2>1. \A b \in r.blocks :
             /\ b[1] = struct
             /\ b = Self(struct) \/ b[3] \in ms \cup {"items"}
             /\ b[3] \in ms \cup {"self", "items"}
      BY <1>2 DEF ListBlocks, Members, Self
    <2> HIDE DEF r
    <2>2. \A b \in r.blocks : ByParser(b)
      <3>1. struct # "aux"
        OBVIOUS
      <3>2. "self" \notin UrlGetters /\ "items" \notin UrlGetters
        BY DEF UrlGetters, Providers
      <3> QED
        BY ONLY <2>1, <3>1, <3>2, ms \cap (UrlGetters \cup {"self", "items"}) = {}
           DEF ByParser
    <2>3. OutsOf(r.blocks) = {Self(struct)}
      BY <1>2, <2>1 DEF OutsOf, Self, OutStructs
    <2>4. \E out \in OutStructs : OutsOf(r.blocks) = {Self(out)}
      <3>1. struct \in OutStructs
        BY DEF OutStructs
      <3> QED
        BY <2>3, <3>1
    <2> QED
      BY <1>2, <2>2, <2>4 DEF Sound, Errors
  <1>3. \/ r = Failure("OUT_OF_MEMORY") /\ NoMemoryFor(struct)
        \/ /\ r.err = "OK" /\ r.items = list /\ r.room = n
           /\ Self(struct) \in r.blocks /\ r.blocks \cap failed = {}
           /\ r.blocks \subseteq ListBlocks(struct, ms, list)
    BY ListIs
  <1> HIDE DEF r
  <1> QED
    BY <1>1, <1>2, <1>3

(* The list of streams is sound.                                           *)
LEMMA StreamsAreSound ==
    ASSUME InputInv, kind = "streams"
    PROVE  Sound(audd_streams_list(wire))
  <1>1. wire \in Arrays /\ Len(wire) \in Nat
    BY ArraysAre, BoundsAssumption DEF InputInv
  <1> QED
    BY <1>1, PlacedAre, ListIsSound DEF audd_streams_list, UrlGetters, Providers

(* So is the list of lyrics.                                               *)
LEMMA LyricsAreSound ==
    ASSUME InputInv, kind = "lyrics"
    PROVE  Sound(audd_advanced_find_lyrics(wire))
  <1>1. wire \in Arrays /\ Len(wire) \in Nat
    BY ArraysAre, BoundsAssumption DEF InputInv
  <1> QED
    BY <1>1, PlacedAre, ListIsSound
       DEF audd_advanced_find_lyrics, UrlGetters, Providers

(* So is an enterprise result.                                             *)
LEMMA EnterpriseIsSound ==
    ASSUME InputInv, kind = "enterprise"
    PROVE  Sound(audd_enterprise_from_json(wire))
  <1>1. wire.chunks \in Seq(AnyChunk)
    BY DEF InputInv
  <1>2. \A k \in DOMAIN Matches(wire) :
           Matches(wire)[k].entry \in 1 .. MaxEntries
    <2> SUFFICES ASSUME NEW k \in DOMAIN Matches(wire)
                 PROVE  Matches(wire)[k].entry \in 1 .. MaxEntries
      OBVIOUS
    <2> DEFINE x == Matches(wire)[k]
    <2>1. x.chunk \in DOMAIN wire.chunks /\ x.entry \in DOMAIN SongsAt(wire, x.chunk)
      BY <1>1, MatchesAre
    <2> HIDE DEF x
    <2> DEFINE songs == SongsAt(wire, x.chunk)
    <2>2. songs \in Arrays
      BY <1>1, <2>1, SongsAre
    <2>3. x.entry \in DOMAIN songs
      BY <2>1
    <2> HIDE DEF songs
    <2>4. x.entry \in 1 .. MaxEntries
      BY <2>2, <2>3, ArraysAre, BoundsAssumption
    <2> QED
      BY <2>4 DEF x
  <1>3. Total(wire) \in Nat
    BY <1>1, MatchesAre
  <1>4. match_from_json \cap (UrlGetters \cup {"self", "items"}) = {}
    BY DEF match_from_json, UrlGetters, Providers
  <1> QED
    BY <1>2, <1>3, <1>4, ListIsSound DEF audd_enterprise_from_json

(* A match keeps its song and the others, or nothing.                      *)
MatchBlocks(n) ==
    Members("match", 0, {"self", "items", "timestamp", "raw_response"})
    \cup UNION {Members("match.song", i, parse_song) : i \in 0 .. n}

(* A match comes with its songs, or not at all.                            *)
LEMMA MatchIs ==
    ASSUME NEW results \in Arrays, results # <<>>
    PROVE  LET r == Match(results)
               n == Len(results) - 1
           IN  \/ r = Failure("OUT_OF_MEMORY") /\ NoMemoryFor("match")
               \/ /\ r.err = "OK" /\ r.room = n /\ n \in Nat
                  /\ r.items = [i \in 1 .. n |-> Place(1, i + 1)]
                  /\ Self("match") \in r.blocks /\ r.blocks \cap failed = {}
                  /\ r.blocks \subseteq MatchBlocks(n)
  <1> DEFINE n == Len(results) - 1
             none == \/ Self("match") \in failed
                     \/ n > 0 /\ <<"match", 0, "items">> \in failed
             Song(i) == IF results[i + 1] = "object"
                        THEN Obtained(Members("match.song", i, parse_song)) ELSE {}
             own == Owning("match", {"timestamp", "raw_response"})
             blocks == own
                       \cup (IF n > 0 THEN {<<"match", 0, "items">>} ELSE {})
                       \cup UNION {Song(i) : i \in 0 .. n}
  <1>1. Match(results) =
           IF none THEN Failure("OUT_OF_MEMORY")
           ELSE [err |-> "OK", blocks |-> blocks,
                 items |-> [i \in 1 .. n |-> Place(1, i + 1)], room |-> n]
    BY DEF Match
  <1>2. n \in Nat
    <2>1. Len(results) \in Nat /\ DOMAIN results = 1 .. Len(results)
          /\ results \in Seq({"object", "other"})
      BY ArraysAre, BoundsAssumption
    <2>2. Len(results) # 0
      BY <2>1
    <2> QED
      BY <2>1, <2>2
  <1>3. none => NoMemoryFor("match")
    BY DEF NoMemoryFor
  <1>4. ASSUME ~none
        PROVE  /\ Self("match") \in blocks /\ blocks \cap failed = {}
               /\ blocks \subseteq MatchBlocks(n)
    <2>1. /\ own \cap failed = {} /\ Self("match") \in own
          /\ own \subseteq Members("match", 0, {"self", "timestamp", "raw_response"})
      BY <1>4, OwningIs, {"timestamp", "raw_response"} \cup {"self"}
                         = {"self", "timestamp", "raw_response"}
    <2>2. \A i \in 0 .. n :
             /\ Song(i) \cap failed = {}
             /\ Song(i) \subseteq Members("match.song", i, parse_song)
      BY DEF Obtained
    <2>3. own \subseteq MatchBlocks(n)
      BY <2>1 DEF MatchBlocks, Members
    <2>4. <<"match", 0, "items">> \in MatchBlocks(n)
      BY DEF MatchBlocks, Members
    <2>5. \A i \in 0 .. n : Song(i) \subseteq MatchBlocks(n)
      BY <2>2 DEF MatchBlocks
    <2> HIDE DEF own, Song
    <2> QED
      BY <1>4, <2>1, <2>2, <2>3, <2>4, <2>5
  <1> HIDE DEF none, blocks, n
  <1>5. CASE none
    BY <1>1, <1>3, <1>5
  <1>6. CASE ~none
    <2>1. Match(results) =
             [err |-> "OK", blocks |-> blocks,
              items |-> [i \in 1 .. n |-> Place(1, i + 1)], room |-> n]
      BY <1>1, <1>6
    <2>2. /\ Self("match") \in blocks /\ blocks \cap failed = {}
          /\ blocks \subseteq MatchBlocks(n)
      BY <1>4, <1>6
    <2> QED
      BY <1>2, <2>1, <2>2 DEF n
  <1> QED
    BY <1>5, <1>6 DEF n

(* It is sound.                                                            *)
LEMMA MatchIsSound ==
    ASSUME NEW results \in Arrays, results # <<>>
    PROVE  Sound(Match(results))
  <1> DEFINE r == Match(results)
             n == Len(results) - 1
  <1>1. CASE r = Failure("OUT_OF_MEMORY") /\ NoMemoryFor("match")
    BY <1>1, FailureIsSound
  <1>2. CASE /\ r.err = "OK" /\ r.room = n /\ n \in Nat
             /\ r.items = [i \in 1 .. n |-> Place(1, i + 1)]
             /\ Self("match") \in r.blocks /\ r.blocks \cap failed = {}
             /\ r.blocks \subseteq MatchBlocks(n)
    <2>1. n + 1 \in 1 .. MaxEntries
      BY <1>2, ArraysAre, BoundsAssumption
    <2> HIDE DEF r, n
    <2>2. \A b \in r.blocks :
             /\ b[1] \in {"match", "match.song"}
             /\ b[1] = "match.song" => b[3] # "self"
             /\ b[2] = 0 \/ b[1] = "match.song"
             /\ b[3] \in parse_song \cup {"self", "items", "timestamp",
                                          "raw_response"}
      BY <1>2 DEF MatchBlocks, Members, parse_song
    <2>3. \A b \in r.blocks : ByParser(b)
      BY <2>2 DEF ByParser, parse_song, UrlGetters, Providers
    <2>4. OutsOf(r.blocks) = {Self("match")}
      <3>1. \A b \in r.blocks : b[3] = "self" => b[1] = "match"
        BY <2>2
      <3> QED
        BY <1>2, <3>1 DEF OutsOf, Self, OutStructs
    <2>5. \A k \in DOMAIN r.items : r.items[k].entry \in 1 .. MaxEntries
      BY <1>2, <2>1, BoundsAssumption DEF Place
    <2>6. \E out \in OutStructs : OutsOf(r.blocks) = {Self(out)}
      <3>1. "match" \in OutStructs
        BY DEF OutStructs
      <3> QED
        BY <2>4, <3>1
    <2>9. Sound(r)
      BY <1>2, <2>3, <2>5, <2>6 DEF Sound, Errors
    <2> QED
      BY <2>9 DEF r
  <1> QED
    BY <1>1, <1>2, MatchIs

(* A notification comes with its strings, or not at all.                   *)
LEMMA NotificationIs ==
    \/ Notification = Failure("OUT_OF_MEMORY") /\ NoMemoryFor("notification")
    \/ /\ Notification.err = "OK" /\ Notification.room = 0
       /\ Notification.items = <<>>
       /\ Self("notification") \in Notification.blocks
       /\ Notification.blocks \cap failed = {}
       /\ Notification.blocks \subseteq
             Members("notification", 0,
                     {"self", "notification_message", "raw_response"})
  <1> DEFINE own == Owning("notification", {"notification_message", "raw_response"})
  <1>1. Notification =
           IF Self("notification") \in failed THEN Failure("OUT_OF_MEMORY")
           ELSE [err |-> "OK", blocks |-> own, items |-> <<>>, room |-> 0]
    BY DEF Notification, Failure
  <1>2. {"notification_message", "raw_response"} \cup {"self"}
           = {"self", "notification_message", "raw_response"}
    OBVIOUS
  <1>3. /\ own \cap failed = {}
        /\ Self("notification") \notin failed => Self("notification") \in own
        /\ own \subseteq Members("notification", 0,
                                 {"self", "notification_message", "raw_response"})
    BY <1>2, OwningIs
  <1> HIDE DEF own
  <1> QED
    BY <1>1, <1>3 DEF NoMemoryFor

(* It is sound.                                                            *)
LEMMA NotificationIsSound == Sound(Notification)
  <1> DEFINE r == Notification
  <1>1. CASE r = Failure("OUT_OF_MEMORY") /\ NoMemoryFor("notification")
    BY <1>1, FailureIsSound
  <1>2. CASE /\ r.err = "OK" /\ r.room = 0 /\ r.items = <<>>
             /\ Self("notification") \in r.blocks /\ r.blocks \cap failed = {}
             /\ r.blocks \subseteq
                   Members("notification", 0,
                           {"self", "notification_message", "raw_response"})
    <2> HIDE DEF r
    <2>1. \A b \in r.blocks :
             /\ b[1] = "notification"
             /\ b[3] \in {"self", "notification_message", "raw_response"}
      BY <1>2 DEF Members
    <2>2. \A b \in r.blocks : ByParser(b)
      BY <2>1 DEF ByParser, UrlGetters, Providers
    <2>3. OutsOf(r.blocks) = {Self("notification")}
      BY <1>2, <2>1 DEF OutsOf, Self, OutStructs
    <2>4. \E out \in OutStructs : OutsOf(r.blocks) = {Self(out)}
      <3>1. "notification" \in OutStructs
        BY DEF OutStructs
      <3> QED
        BY <2>3, <3>1
    <2>9. Sound(r)
      BY <1>2, <2>2, <2>4 DEF Sound, Errors
    <2> QED
      BY <2>9 DEF r
  <1> QED
    BY <1>1, <1>2, NotificationIs

(* A bad body gives a message at most.                                     *)
LEMMA BadBodyIs ==
    /\ BadBody.err = "SERIALIZATION" /\ BadBody.items = <<>>
    /\ BadBody.room = 0
    /\ BadBody.blocks \cap failed = {}
    /\ BadBody.blocks \subseteq {Self("message")}
  BY DEF BadBody, Failure, Obtained

(* Whatever the body, the parse of a callback is sound.                    *)
LEMMA CallbackIsSound ==
    ASSUME InputInv, kind = "callback"
    PROVE  Sound(audd_parse_callback(wire))
  <1>1. /\ wire.results \in Arrays
        /\ wire.notification \in BOOLEAN
    BY DEF InputInv, Callbacks
  <1>2. CASE wire.body = "no out"
    <2>1. Sound(Failure("INVALID_ARGUMENT"))
      BY DEF Sound, Failure, Errors
    <2> QED
      BY <1>2, <2>1 DEF audd_parse_callback
  <1>3. ASSUME wire.body # "no out",
               \/ wire.body # "json" \/ Self("root") \in failed
               \/ ~wire.notification /\ wire.results = <<>>
        PROVE  Sound(BadBody)
    <2>0. BadCallback
      BY <1>3 DEF BadCallback
    <2>1. ByParser(Self("message"))
      BY DEF ByParser, Self, UrlGetters, Providers
    <2> QED
      BY <2>0, <2>1, BadBodyIs DEF Sound, Errors
  <1>4. CASE /\ wire.body # "no out"
             /\ wire.body # "json" \/ Self("root") \in failed
    BY <1>3, <1>4 DEF audd_parse_callback
  <1>5. CASE /\ wire.body # "no out" /\ wire.body = "json"
             /\ Self("root") \notin failed
    <2>1. CASE wire.notification
      BY <1>5, <2>1, NotificationIsSound DEF audd_parse_callback
    <2>2. CASE ~wire.notification /\ wire.results = <<>>
      BY <1>3, <1>5, <2>2 DEF audd_parse_callback
    <2>3. CASE ~wire.notification /\ wire.results # <<>>
      BY <1>1, <1>5, <2>3, MatchIsSound DEF audd_parse_callback
    <2> QED
      BY <2>1, <2>2, <2>3
  <1> QED
    BY <1>2, <1>4, <1>5

(* Without memory the MusicBrainz list is empty, and has no array.         *)
MusicbrainzNames == {"id", "title", "score"}

MusicbrainzBlocks(list) ==
    {<<"musicbrainz", 0, "items">>} \cup
    UNION {Members("musicbrainz", i, MusicbrainzNames) : i \in DOMAIN list}

(* The list of musicbrainz entries comes with its array, or stays empty.   *)
LEMMA MusicbrainzIs ==
    ASSUME NEW entries \in Arrays
    PROVE  LET r == parse_musicbrainz(entries)
           IN  /\ r.err = "OK" /\ r.room \in Nat
               /\ r.blocks \cap failed = {}
               /\ r.blocks \subseteq MusicbrainzBlocks(r.items)
               /\ r.blocks # {} => <<"musicbrainz", 0, "items">> \in r.blocks
               /\ \A k \in DOMAIN r.items : r.items[k].entry \in 1 .. MaxEntries
               /\ r.room > 0 => InPlace(r.items, ObjectsAt(1, entries), r.room)
               /\ r = [err |-> r.err, blocks |-> r.blocks, items |-> r.items,
                       room |-> r.room]
  <1> DEFINE list == Placed(entries)
             array == <<"musicbrainz", 0, "items">>
             blocks == {array} \cup
                       Obtained(UNION {Members("musicbrainz", i, MusicbrainzNames) :
                                          i \in DOMAIN list})
             none == entries = <<>> \/ array \in failed
  <1>1. parse_musicbrainz(entries) =
           IF none THEN [err |-> "OK", blocks |-> {}, items |-> <<>>, room |-> 0]
           ELSE [err |-> "OK", blocks |-> blocks, items |-> list,
                 room |-> Len(entries)]
    BY DEF parse_musicbrainz, MusicbrainzNames, Failure
  <1>2. /\ InPlace(list, ObjectsAt(1, entries), Len(entries))
        /\ \A k \in DOMAIN list : list[k].entry \in 1 .. MaxEntries
    BY PlacedAre
  <1>3. Len(entries) \in Nat
    BY ArraysAre, BoundsAssumption
  <1>4. ~none => blocks \cap failed = {}
    BY DEF Obtained
  <1>5. blocks \subseteq MusicbrainzBlocks(list) /\ array \in blocks
    BY DEF MusicbrainzBlocks, Obtained
  <1>6. \A k \in DOMAIN <<>> : FALSE
    OBVIOUS
  <1> HIDE DEF blocks, list, none, array
  <1>7. CASE none
    BY <1>1, <1>6, <1>7
  <1>8. CASE ~none
    BY <1>1, <1>2, <1>3, <1>4, <1>5, <1>8 DEF array
  <1> QED
    BY <1>7, <1>8

(* The blocks of a provider, and of the recognition itself.                *)
RawBlock == <<"recognition", 0, "raw_obj">>

RawText ==
    IF Obtained({RawBlock}) = {} THEN {}
    ELSE Obtained({<<"recognition", 0, "raw_response_str">>})

OwnBlocks ==
    Obtained({RawBlock}) \cup RawText
    \cup Owning("recognition", RecognitionStrings)
    \cup Owning("apple_music", parse_apple_music)
    \cup Owning("spotify", parse_spotify)
    \cup Owning("deezer", parse_deezer)
    \cup Owning("napster", parse_napster)

(* A recognition comes with what its parts could get, or not at all.       *)
LEMMA RecognitionIs ==
    ASSUME NEW w, w.musicbrainz \in Arrays
    PROVE  LET r == audd_recognition_from_json(w)
               mb == parse_musicbrainz(w.musicbrainz)
           IN  \/ /\ r = Failure("OUT_OF_MEMORY")
                  /\ w.result # "object" \/ Self("recognition") \in failed
               \/ /\ r.err = "OK" /\ r.room = mb.room /\ r.items = mb.items
                  /\ r.blocks = mb.blocks \cup OwnBlocks
                  /\ Self("recognition") \notin failed
  <1> DEFINE mb == parse_musicbrainz(w.musicbrainz)
  <1>1. audd_recognition_from_json(w) =
           IF w.result # "object" \/ Self("recognition") \in failed
           THEN Failure("OUT_OF_MEMORY")
           ELSE [mb EXCEPT !.blocks = @ \cup Obtained({RawBlock}) \cup RawText
                    \cup Owning("recognition", RecognitionStrings)
                    \cup Owning("apple_music", parse_apple_music)
                    \cup Owning("spotify", parse_spotify)
                    \cup Owning("deezer", parse_deezer)
                    \cup Owning("napster", parse_napster)]
    BY DEF audd_recognition_from_json, RawBlock, RawText
  <1>2. mb.err = "OK" /\ mb = [err |-> mb.err, blocks |-> mb.blocks,
                               items |-> mb.items, room |-> mb.room]
    BY MusicbrainzIs
  <1> HIDE DEF mb
  <1>3. CASE w.result # "object" \/ Self("recognition") \in failed
    BY <1>1, <1>3
  <1>4. CASE ~(w.result # "object" \/ Self("recognition") \in failed)
    <2>1. audd_recognition_from_json(w) = [mb EXCEPT !.blocks = mb.blocks \cup OwnBlocks]
      BY <1>1, <1>2, <1>4 DEF OwnBlocks
    <2> QED
      BY <1>2, <1>4, <2>1 DEF mb
  <1> QED
    BY <1>3, <1>4

(* What the names of these blocks are.                                     *)
LEMMA OwnBlocksAre ==
    /\ OwnBlocks \cap failed = {}
    /\ Self("recognition") \notin failed => Self("recognition") \in OwnBlocks
    /\ \A b \in OwnBlocks :
          \/ b \in Members("recognition", 0, RecognitionStrings \cup
                              {"self", "raw_obj", "raw_response_str"})
          \/ /\ b \in Members("apple_music", 0, parse_apple_music \cup {"self"})
             /\ Self("apple_music") \in OwnBlocks
          \/ /\ b \in Members("spotify", 0, parse_spotify \cup {"self"})
             /\ Self("spotify") \in OwnBlocks
          \/ /\ b \in Members("deezer", 0, parse_deezer \cup {"self"})
             /\ Self("deezer") \in OwnBlocks
          \/ /\ b \in Members("napster", 0, parse_napster \cup {"self"})
             /\ Self("napster") \in OwnBlocks
  <1> DEFINE A(struct, ms) ==
                /\ Owning(struct, ms) \cap failed = {}
                /\ Owning(struct, ms) \subseteq Members(struct, 0, ms \cup {"self"})
                /\ Self(struct) \in failed => Owning(struct, ms) = {}
                /\ Self(struct) \notin failed => Self(struct) \in Owning(struct, ms)
  <1>1. /\ A("recognition", RecognitionStrings)
        /\ A("apple_music", parse_apple_music) /\ A("spotify", parse_spotify)
        /\ A("deezer", parse_deezer) /\ A("napster", parse_napster)
    BY OwningIs
  <1>2. /\ (Obtained({RawBlock}) \cup RawText) \cap failed = {}
        /\ \A b \in Obtained({RawBlock}) \cup RawText :
              b \in Members("recognition", 0, RecognitionStrings \cup
                              {"self", "raw_obj", "raw_response_str"})
    BY DEF Obtained, RawBlock, RawText, Members
  <1>3. \A b \in Members("recognition", 0, RecognitionStrings \cup {"self"}) :
           b \in Members("recognition", 0, RecognitionStrings \cup
                              {"self", "raw_obj", "raw_response_str"})
    BY DEF Members
  <1>4. OwnBlocks \cap failed = {}
    BY <1>1, <1>2 DEF OwnBlocks
  <1>5. Self("recognition") \notin failed => Self("recognition") \in OwnBlocks
    BY <1>1 DEF OwnBlocks
  <1> QED
    BY <1>1, <1>2, <1>3, <1>4, <1>5 DEF OwnBlocks

(* It is sound.                                                            *)
LEMMA RecognitionIsSound ==
    ASSUME InputInv, kind = "recognition", ~NoMatch
    PROVE  Sound(audd_recognition_from_json(wire))
  <1> DEFINE r == audd_recognition_from_json(wire)
             mb == parse_musicbrainz(wire.musicbrainz)
  <1>1. wire.musicbrainz \in Arrays
    BY DEF InputInv
  <1>2. CASE /\ r = Failure("OUT_OF_MEMORY")
             /\ wire.result # "object" \/ Self("recognition") \in failed
    <2>1. CASE Self("recognition") \in failed
      BY <1>2, <2>1, FailureIsSound DEF NoMemoryFor
    <2>2. CASE wire.result # "object"
      <3>1. wire.result = "other"
        BY <2>2 DEF InputInv, NoMatch
      <3>2. Sound(Failure("OUT_OF_MEMORY"))
        BY <3>1 DEF Sound, Failure, Errors
      <3> QED
        BY <1>2, <3>2
    <2> QED
      BY <1>2, <2>1, <2>2
  <1>3. CASE /\ r.err = "OK" /\ r.room = mb.room /\ r.items = mb.items
             /\ r.blocks = mb.blocks \cup OwnBlocks
             /\ Self("recognition") \notin failed
    <2>1. /\ mb.room \in Nat /\ mb.blocks \cap failed = {}
          /\ mb.blocks \subseteq MusicbrainzBlocks(mb.items)
          /\ \A k \in DOMAIN mb.items : mb.items[k].entry \in 1 .. MaxEntries
      BY <1>1, MusicbrainzIs
    <2> HIDE DEF mb, r
    <2>2. \A b \in mb.blocks : b[1] = "musicbrainz" /\
                               b[3] \in {"items", "id", "title", "score"}
      BY <2>1 DEF MusicbrainzBlocks, MusicbrainzNames, Members
    <2>3. \A b \in OwnBlocks :
             /\ b[1] \in {"recognition", "apple_music", "spotify", "deezer",
                          "napster"}
             /\ b[3] \in RecognitionStrings \cup parse_apple_music \cup
                         parse_spotify \cup parse_deezer \cup parse_napster \cup
                         {"self", "raw_obj", "raw_response_str"}
      BY OwnBlocksAre DEF Members
    <2>4. \A b \in r.blocks : ByParser(b)
      <3>1. (RecognitionStrings \cup parse_apple_music \cup parse_spotify \cup
             parse_deezer \cup parse_napster \cup
             {"self", "raw_obj", "raw_response_str"}) \cap UrlGetters = {}
        BY DEF RecognitionStrings, parse_apple_music, parse_spotify,
               parse_deezer, parse_napster, UrlGetters, Providers
      <3>2. {"items", "id", "title", "score"} \cap UrlGetters = {}
        BY DEF UrlGetters, Providers
      <3> QED
        BY <1>3, <2>2, <2>3, <3>1, <3>2 DEF ByParser
    <2>5. OutsOf(r.blocks) = {Self("recognition")}
      <3>1. Self("recognition") \in r.blocks
        BY <1>3, OwnBlocksAre
      <3>2. \A b \in r.blocks :
               b[1] \in {"musicbrainz", "recognition", "apple_music", "spotify",
                         "deezer", "napster"}
        BY <1>3, <2>2, <2>3
      <3> QED
        BY <3>1, <3>2 DEF OutsOf, Self, OutStructs
    <2>6. \E out \in OutStructs : OutsOf(r.blocks) = {Self(out)}
      BY <2>5 DEF OutStructs
    <2>7. r.blocks \cap failed = {}
      BY <1>3, <2>1, OwnBlocksAre
    <2>8. Sound(r)
      BY <1>3, <2>1, <2>4, <2>6, <2>7 DEF Sound, Errors
    <2> QED
      BY <2>8 DEF r
  <1> QED
    BY <1>1, <1>2, <1>3, RecognitionIs

(* Of an answer with no match nothing is built, which is no error.         *)
LEMMA RecognizedIs ==
    ASSUME kind = "recognition"
    PROVE  Built = IF NoMatch THEN Failure("OK")
                   ELSE audd_recognition_from_json(wire)
  BY DEF Built, Recognized, NoMatch

(* Whatever is built is sound.                                             *)
LEMMA BuiltIsSound ==
    ASSUME InputInv
    PROVE  Sound(Built)
  <1>1. CASE kind = "recognition" /\ NoMatch
    <2>1. Sound(Failure("OK"))
      BY <1>1 DEF Sound, Failure, Errors
    <2> QED
      BY <1>1, <2>1, RecognizedIs
  <1>2. CASE kind = "recognition" /\ ~NoMatch
    BY <1>2, RecognizedIs, RecognitionIsSound
  <1>3. CASE kind # "recognition"
    BY <1>3, EnterpriseIsSound, StreamsAreSound, LyricsAreSound,
       CallbackIsSound DEF InputInv, Kinds, Built
  <1> QED
    BY <1>1, <1>2, <1>3

-----------------------------------------------------------------------------
(* The inductive invariant.  What a result was built as is known from the  *)
(* inputs, which never change: while it is in use the heap holds that, one *)
(* block for every URL a getter keeps and one for every printed extra.     *)
Given == Built.err = "OK" /\ ~NoMatch
Asked == {<<Holder, k[1], k[2]>> : k \in {x \in DOMAIN cache : cache[x] # NoUrl}}
Printed == {<<"aux", 0, k>> : k \in DOMAIN aux}

ParseInv ==
    pc = "parse" =>
        /\ heap = {} /\ err = "OK" /\ items = <<>> /\ room = 0
        /\ DOMAIN cache = {} /\ DOMAIN aux = {} /\ answers = {}

UseInv ==
    /\ pc # "parse" =>
          err = Built.err /\ items = Built.items /\ room = Built.room
    /\ pc = "use" => heap = Built.blocks \cup Asked \cup Printed
    /\ pc = "freed" => heap = {}

(* Only a result can be asked.                                             *)
CacheInv ==
    \A k \in DOMAIN cache :
        /\ Given
        /\ k = <<k[1], k[2]>> /\ k[1] \in Nat /\ k[2] \in UrlGetters
        /\ \/ kind = "recognition" /\ k[1] = 0
           \/ kind = "enterprise" /\ k[1] \in DOMAIN items /\ k[2] # "preview"

(* A URL is one of those the metadata call for.                            *)
UrlRight(i, g, a) ==
    \/ a = Expected(i, g)
    \/ failed # {} /\ a \in Lesser(i, g)
    \/ kind = "recognition" /\ g = "spotify" /\
       wire.urls[SpotifyExternal] = "empty"

UrlsInv == \A k \in DOMAIN cache : UrlRight(k[1], k[2], cache[k])

AuxInv ==
    \A k \in DOMAIN aux :
        /\ Given /\ kind = "recognition" /\ RawBlock \in Built.blocks
        /\ k \in {"genre", "_audd_extra_long"}
        /\ k = "genre" => aux[k] = "genre"

(* The answer for an extra for which there is memory, and what it takes    *)
(* for there to be none.                                                   *)
ExtraNow(key) ==
    IF key \notin TypedKeys /\ AuxKey(key) \in DOMAIN aux
    THEN <<aux[AuxKey(key)]>> ELSE NoUrl

NeverPrinted(key) == RawBlock \notin Built.blocks \/ key \in TypedKeys

UrlAnswer(x) ==
    /\ x[2] \in UrlGetters /\ <<x[1], x[2]>> \in DOMAIN cache
    /\ x[3] = cache[<<x[1], x[2]>>] /\ x[4] = FALSE

ExtraAnswer(x) ==
    \/ x[4] = TRUE /\ x[3] = NoUrl
    \/ /\ x[4] = FALSE /\ x[3] = ExtraNow(x[2])
       /\ AuxKey(x[2]) \notin DOMAIN aux => NeverPrinted(x[2])

AnswersInv ==
    \A x \in answers :
        \/ UrlAnswer(x)
        \/ /\ x[2] \in ExtraKeys /\ kind = "recognition" /\ Given
           /\ ExtraAnswer(x)

IInv ==
    /\ InputInv
    /\ pc \in {"parse", "use", "freed"} /\ calls \in 0 .. MaxCalls
    /\ ParseInv
    /\ UseInv
    /\ CacheInv
    /\ UrlsInv
    /\ AuxInv
    /\ AnswersInv
    /\ lost = {}

-----------------------------------------------------------------------------
(* What the getters find.                                                  *)

(* Getters add no block of a parser.                                       *)
LEMMA HeapIs ==
    ASSUME IInv, pc = "use", NEW b, ByParser(b)
    PROVE  b \in heap <=> b \in Built.blocks
  <1>1. \A c \in Asked : c[3] \in UrlGetters
    BY DEF Asked, IInv, CacheInv
  <1>2. \A c \in Printed : c[1] = "aux"
    BY DEF Printed
  <1> QED
    BY <1>1, <1>2 DEF ByParser, IInv, UseInv

(* What a recognition that was given is built of.                          *)
LEMMA GivenIs ==
    ASSUME InputInv, kind = "recognition", Given
    PROVE  LET mb == parse_musicbrainz(wire.musicbrainz)
           IN  /\ Built.blocks = mb.blocks \cup OwnBlocks
               /\ Built.items = mb.items /\ Built.room = mb.room
               /\ Self("recognition") \notin failed
  <1>1. Built = audd_recognition_from_json(wire) /\ wire.musicbrainz \in Arrays
    BY RecognizedIs DEF Given, InputInv
  <1>2. Built # Failure("OUT_OF_MEMORY")
    BY DEF Given, Failure
  <1> QED
    BY <1>1, <1>2, RecognitionIs

(* Its raw object is there, but for lack of memory.                        *)
LEMMA RawIs ==
    ASSUME InputInv, kind = "recognition", Given
    PROVE  RawBlock \in Built.blocks \/ RawBlock \in failed
  <1>1. RawBlock \notin Absent
    BY AbsentAre DEF RawBlock, UrlFields, AppleUrl, ApplePreviews,
       SpotifyExternal, SpotifyUri, SpotifyPreview, DeezerLink,
       DeezerPreview, NapsterHref
  <1>2. RawBlock \in OwnBlocks \/ RawBlock \in failed
    BY <1>1 DEF OwnBlocks, Obtained
  <1> QED
    BY <1>2, GivenIs

(* With enough memory, everything that is on the wire is there.            *)
LEMMA WithMemory ==
    ASSUME InputInv, failed = {}, kind = "recognition", Given
    PROVE  /\ \A struct \in {"apple_music", "spotify", "deezer", "napster"} :
                 <<struct, 0, "raw">> \in Built.blocks
           /\ \A b \in {AppleUrl, SpotifyUri, DeezerLink} :
                 wire.urls[b] # "absent" => b \in Built.blocks
           /\ wire.link # "absent" =>
                 <<"recognition", 0, "song_link">> \in Built.blocks
  <1>1. OwnBlocks \subseteq Built.blocks
    BY GivenIs
  <1>2. \A struct, ms, x : x \in ms /\ <<struct, 0, x>> \notin Absent =>
                              <<struct, 0, x>> \in Owning(struct, ms)
    BY DEF Owning, Obtained, Members
  <1>3. \A struct \in {"apple_music", "spotify", "deezer", "napster"} :
           <<struct, 0, "raw">> \notin Absent
    BY AbsentAre DEF UrlFields, AppleUrl, ApplePreviews, SpotifyExternal,
       SpotifyUri, SpotifyPreview, DeezerLink, DeezerPreview, NapsterHref
  <1>4. \A b \in {AppleUrl, SpotifyUri, DeezerLink} :
           wire.urls[b] # "absent" => b \notin Absent
    BY DEF Absent, AppleUrl, SpotifyUri, DeezerLink
  <1>5. wire.link # "absent" => <<"recognition", 0, "song_link">> \notin Absent
    BY DEF Absent, UrlFields, AppleUrl, ApplePreviews, SpotifyExternal,
       SpotifyUri, SpotifyPreview, DeezerLink, DeezerPreview, NapsterHref
  <1>6. \A struct \in {"apple_music", "spotify", "deezer", "napster"} :
           <<struct, 0, "raw">> \in OwnBlocks
    <2>1. /\ "raw" \in parse_apple_music /\ "raw" \in parse_spotify
          /\ "raw" \in parse_deezer /\ "raw" \in parse_napster
      BY DEF parse_apple_music, parse_spotify, parse_deezer, parse_napster
    <2> QED
      BY <1>2, <1>3, <2>1 DEF OwnBlocks
  <1>7. \A b \in {AppleUrl, SpotifyUri, DeezerLink} :
           wire.urls[b] # "absent" => b \in OwnBlocks
    <2>1. "url" \in parse_apple_music /\ "uri" \in parse_spotify /\
          "link" \in parse_deezer
      BY DEF parse_apple_music, parse_spotify, parse_deezer
    <2> QED
      BY <1>2, <1>4, <2>1 DEF OwnBlocks, AppleUrl, SpotifyUri, DeezerLink
  <1>8. wire.link # "absent" => <<"recognition", 0, "song_link">> \in OwnBlocks
    BY <1>2, <1>5 DEF OwnBlocks, RecognitionStrings
  <1> QED
    BY <1>1, <1>6, <1>7, <1>8

(* With memory for everything each match has its song link.                *)
LEMMA WithMemoryForMatches ==
    ASSUME InputInv, failed = {}, kind = "enterprise",
           NEW i \in DOMAIN Built.items
    PROVE  <<"enterprise", i, "song_link">> \in Built.blocks
  <1> DEFINE list == Matches(wire)
  <1>1. Built = [err    |-> "OK",
                 blocks |-> {Self("enterprise")} \cup
                     (IF Total(wire) > 0 THEN {<<"enterprise", 0, "items">>}
                      ELSE {}) \cup
                     Obtained(UNION {Members("enterprise", k, match_from_json) :
                                        k \in DOMAIN list}),
                 items  |-> list,
                 room   |-> Total(wire)]
    BY DEF Built, audd_enterprise_from_json, ListOf
  <1>2. <<"enterprise", i, "song_link">> \in
           UNION {Members("enterprise", k, match_from_json) : k \in DOMAIN list}
    BY <1>1 DEF Members, match_from_json
  <1>3. Absent = {}
    BY DEF Absent
  <1> QED
    BY <1>1, <1>2, <1>3 DEF Obtained

(* The redirect of the song link is what a getter without a source gives.  *)
LEMMA RedirectIs ==
    ASSUME IInv, pc = "use", NEW i, NEW g,
           \/ kind = "recognition" /\ i = 0 /\ Given
           \/ kind = "enterprise" /\ i \in DOMAIN items
    PROVE  /\ Redirect(i, g) \in {NoUrl, <<Holder, i, "song_link">>}
           /\ failed = {} =>
                 Redirect(i, g) =
                    IF wire.link = "lis" THEN <<Holder, i, "song_link">> ELSE NoUrl
  <1>1. Redirect(i, g) \in {NoUrl, <<Holder, i, "song_link">>}
    BY DEF Redirect
  <1>2. ASSUME failed = {}, wire.link = "lis"
        PROVE  <<Holder, i, "song_link">> \in heap
    <2>1. <<Holder, i, "song_link">> \in Built.blocks
      <3>1. CASE kind = "recognition"
        BY <1>2, <3>1, WithMemory DEF IInv, Holder
      <3>2. CASE kind = "enterprise"
        BY <1>2, <3>2, WithMemoryForMatches DEF IInv, UseInv, Holder
      <3> QED
        BY <3>1, <3>2
    <2> QED
      BY <2>1 DEF IInv, UseInv
  <1> QED
    BY <1>1, <1>2 DEF Redirect

(* A getter that looks for the first time answers right.                   *)
LEMMA FreshIsRight ==
    ASSUME IInv, pc = "use", NEW i, NEW g \in UrlGetters,
           \/ kind = "recognition" /\ i = 0 /\ Given
           \/ kind = "enterprise" /\ i \in DOMAIN items /\ g # "preview"
    PROVE  UrlRight(i, g, Fresh(i, g))
  <1> DEFINE link == IF wire.link = "lis" THEN <<Holder, i, "song_link">> ELSE NoUrl
  <1>1. /\ Redirect(i, g) \in {NoUrl, <<Holder, i, "song_link">>}
        /\ failed = {} => Redirect(i, g) = link
    BY RedirectIs
  <1>2. ASSUME Fresh(i, g) = Redirect(i, g), Offered(g) = {}, g # "preview"
        PROVE  UrlRight(i, g, Fresh(i, g))
    BY <1>1, <1>2 DEF UrlRight, Expected, Lesser
  <1>3. CASE kind = "enterprise"
    BY <1>2, <1>3 DEF Fresh, Offered
  <1>4. CASE kind = "recognition" /\ g = "thumbnail"
    <2>1. Offered(g) = {}
      BY <1>4 DEF Offered, Sources
    <2> QED
      BY <1>2, <1>4, <2>1 DEF Fresh
  <1>5. ASSUME kind = "recognition" PROVE i = 0 /\ Given
    BY <1>5
  <1>6. CASE kind = "recognition" /\ g \in Providers
    <2>1. Fresh(i, g) = StreamingUrl(g)
      BY <1>6 DEF Fresh, Providers
    <2>2. CASE failed # {}
      <3>1. ASSUME direct_streaming_url(g) # NoUrl,
                   HasText(direct_streaming_url(g))
            PROVE  \E k \in Offered(g) : direct_streaming_url(g) = Sources(g)[k]
        BY <1>6, <3>1 DEF direct_streaming_url, Offered, Sources, Providers
      <3>2. Fresh(i, g) \in Lesser(i, g)
        BY <1>1, <1>5, <1>6, <2>1, <3>1 DEF StreamingUrl, Lesser
      <3> QED
        BY <2>2, <3>2 DEF UrlRight
    <2>3. CASE failed = {}
      <3>1. StreamingUrl(g) = IF /\ direct_streaming_url(g) # NoUrl
                                 /\ HasText(direct_streaming_url(g))
                              THEN direct_streaming_url(g) ELSE link
        BY <1>1, <1>5, <1>6, <2>3 DEF StreamingUrl
      <3>2. /\ \A struct \in {"apple_music", "spotify", "deezer", "napster"} :
                  HasRaw(struct)
            /\ \A b \in {AppleUrl, SpotifyUri, DeezerLink} :
                  wire.urls[b] # "absent" => b \in heap
        BY <1>5, <1>6, <2>3, WithMemory DEF IInv, UseInv, HasRaw
      <3>3. ASSUME NEW f \in UrlFields, Sources(g) = <<f>>,
                   HasText(f) => direct_streaming_url(g) = f,
                   ~HasText(f) => ~ /\ direct_streaming_url(g) # NoUrl
                                    /\ HasText(direct_streaming_url(g))
            PROVE  UrlRight(i, g, Fresh(i, g))
        <4>1. CASE HasText(f)
          <5>1. f # NoUrl
            BY <3>3 DEF UrlFields, NoUrl, AppleUrl, ApplePreviews,
               SpotifyExternal, SpotifyUri, SpotifyPreview, DeezerLink,
               DeezerPreview, NapsterHref
          <5>2. Offered(g) = {1}
            BY <1>6, <3>3, <4>1 DEF Offered
          <5>3. Min({1}) = 1
            BY DEF Min
          <5>4. Expected(i, g) = f
            BY <3>3, <5>2, <5>3 DEF Expected
          <5> QED
            BY <2>1, <3>1, <3>3, <4>1, <5>1, <5>4 DEF UrlRight
        <4>2. CASE ~HasText(f)
          <5>1. Offered(g) = {}
            BY <3>3, <4>2 DEF Offered
          <5>2. Expected(i, g) = link
            BY <1>6, <5>1 DEF Expected, Providers
          <5> QED
            BY <2>1, <3>1, <3>3, <4>2, <5>2 DEF UrlRight
        <4> QED
          BY <4>1, <4>2
      <3>4. CASE g = "apple_music"
        <4>1. Sources(g) = <<AppleUrl>> /\ AppleUrl \in UrlFields
          BY <3>4 DEF Sources, UrlFields
        <4>2. direct_streaming_url(g) = IF AppleUrl \in heap THEN AppleUrl
                                        ELSE NoUrl
          BY <3>4 DEF direct_streaming_url
        <4> QED
          BY <3>2, <3>3, <4>1, <4>2 DEF HasText
      <3>5. CASE g = "deezer"
        <4>1. Sources(g) = <<DeezerLink>> /\ DeezerLink \in UrlFields
          BY <3>5 DEF Sources, UrlFields
        <4>2. direct_streaming_url(g) = IF DeezerLink \in heap THEN DeezerLink
                                        ELSE NoUrl
          BY <3>5 DEF direct_streaming_url
        <4> QED
          BY <3>2, <3>3, <4>1, <4>2 DEF HasText
      <3>6. CASE g = "napster"
        <4>1. Sources(g) = <<NapsterHref>> /\ NapsterHref \in UrlFields
          BY <3>6 DEF Sources, UrlFields
        <4>2. direct_streaming_url(g) = IF OnWire(NapsterHref) THEN NapsterHref
                                        ELSE NoUrl
          BY <3>2, <3>6 DEF direct_streaming_url
        <4> QED
          BY <3>3, <4>1, <4>2 DEF HasText, OnWire
      <3>7. CASE g = "youtube"
        <4>1. Sources(g) = <<>> /\ direct_streaming_url(g) = NoUrl
          BY <3>7 DEF Sources, direct_streaming_url
        <4>2. Offered(g) = {}
          BY <4>1 DEF Offered
        <4>3. Expected(i, g) = link
          BY <1>6, <4>2 DEF Expected, Providers
        <4> QED
          BY <2>1, <3>1, <4>1, <4>3 DEF UrlRight
      <3>8. CASE g = "spotify"
        <4>1. Sources(g) = <<SpotifyExternal, SpotifyUri>>
          BY <3>8 DEF Sources
        <4>2. /\ SpotifyExternal \in UrlFields /\ SpotifyUri \in UrlFields
              /\ SpotifyExternal # NoUrl /\ SpotifyUri # NoUrl
          BY DEF UrlFields, SpotifyExternal, SpotifyUri, NoUrl
        <4>3. direct_streaming_url(g) =
                 IF OnWire(SpotifyExternal) THEN SpotifyExternal
                 ELSE IF SpotifyUri \in heap /\ HasText(SpotifyUri)
                 THEN SpotifyUri ELSE NoUrl
          BY <3>2, <3>8 DEF direct_streaming_url
        <4>4. Offered(g) = {k \in {1, 2} :
                               HasText(IF k = 1 THEN SpotifyExternal ELSE SpotifyUri)}
          BY <1>6, <4>1 DEF Offered
        <4>5. CASE wire.urls[SpotifyExternal] = "text"
          <5>1. 1 \in Offered(g) /\ Offered(g) \subseteq {1, 2}
            BY <4>4, <4>5 DEF HasText
          <5>2. Min(Offered(g)) = 1
            BY <5>1 DEF Min
          <5>3. Expected(i, g) = SpotifyExternal
            BY <4>1, <5>1, <5>2 DEF Expected
          <5> QED
            BY <2>1, <3>1, <4>2, <4>3, <4>5, <5>3 DEF UrlRight, OnWire, HasText
        <4>6. CASE wire.urls[SpotifyExternal] = "empty"
          BY <1>6, <3>8, <4>6 DEF UrlRight
        <4>7. CASE wire.urls[SpotifyExternal] = "absent" /\ HasText(SpotifyUri)
          <5>1. Offered(g) = {2}
            BY <4>4, <4>7 DEF HasText
          <5>2. Min({2}) = 2
            BY DEF Min
          <5>3. Expected(i, g) = SpotifyUri
            BY <4>1, <5>1, <5>2 DEF Expected
          <5>4. SpotifyUri \in heap
            BY <3>2, <4>7 DEF HasText
          <5> QED
            BY <2>1, <3>1, <4>2, <4>3, <4>7, <5>3, <5>4 DEF UrlRight, OnWire
        <4>8. CASE wire.urls[SpotifyExternal] = "absent" /\ ~HasText(SpotifyUri)
          <5>1. Offered(g) = {}
            BY <4>4, <4>8 DEF HasText
          <5>2. Expected(i, g) = link
            BY <1>6, <5>1 DEF Expected, Providers
          <5> QED
            BY <2>1, <3>1, <4>3, <4>8, <5>2 DEF UrlRight, OnWire
        <4>9. wire.urls[SpotifyExternal] \in {"absent", "empty", "text"}
          BY <1>6, <4>2 DEF IInv, InputInv
        <4> QED
          BY <4>5, <4>6, <4>7, <4>8, <4>9
      <3> QED
        BY <1>6, <3>4, <3>5, <3>6, <3>7, <3>8 DEF Providers
    <2> QED
      BY <2>2, <2>3
  <1>7. CASE kind = "recognition" /\ g = "preview"
    <2>1. Fresh(i, g) = IF <<"copy", 0, g>> \in failed THEN NoUrl ELSE PreviewSource
      BY <1>7 DEF Fresh, Providers
    <2>2. Sources(g) = <<ApplePreviews, SpotifyPreview, DeezerPreview>>
      BY <1>7 DEF Sources
    <2>3. Offered(g) = {k \in {1, 2, 3} :
                           HasText(IF k = 1 THEN ApplePreviews
                                   ELSE IF k = 2 THEN SpotifyPreview
                                   ELSE DeezerPreview)}
      BY <1>7, <2>2 DEF Offered
    <2>4. CASE failed # {}
      <3>1. PreviewSource = NoUrl \/
            \E k \in Offered(g) : PreviewSource = Sources(g)[k]
        BY <2>2, <2>3 DEF PreviewSource
      <3>2. Fresh(i, g) \in Lesser(i, g)
        BY <2>1, <3>1 DEF Lesser
      <3> QED
        BY <2>4, <3>2 DEF UrlRight
    <2>5. CASE failed = {}
      <3>1. HasRaw("apple_music") /\ HasRaw("spotify") /\ HasRaw("deezer")
        BY <1>5, <1>7, <2>5, WithMemory DEF IInv, UseInv, HasRaw
      <3>2. Fresh(i, g) = PreviewSource
        BY <2>1, <2>5
      <3>3. CASE HasText(ApplePreviews)
        <4>1. 1 \in Offered(g) /\ Offered(g) \subseteq {1, 2, 3}
          BY <2>3, <3>3
        <4>2. Min(Offered(g)) = 1
          BY <4>1 DEF Min
        <4> QED
          BY <2>2, <3>1, <3>2, <3>3, <4>1, <4>2 DEF UrlRight, Expected, PreviewSource
      <3>4. CASE ~HasText(ApplePreviews) /\ HasText(SpotifyPreview)
        <4>1. 2 \in Offered(g) /\ Offered(g) \subseteq {2, 3}
          BY <2>3, <3>4
        <4>2. Min(Offered(g)) = 2
          BY <4>1 DEF Min
        <4> QED
          BY <2>2, <3>1, <3>2, <3>4, <4>1, <4>2 DEF UrlRight, Expected, PreviewSource
      <3>5. CASE /\ ~HasText(ApplePreviews) /\ ~HasText(SpotifyPreview)
                 /\ HasText(DeezerPreview)
        <4>1. Offered(g) = {3}
          BY <2>3, <3>5
        <4>2. Min({3}) = 3
          BY DEF Min
        <4> QED
          BY <2>2, <3>1, <3>2, <3>5, <4>1, <4>2 DEF UrlRight, Expected, PreviewSource
      <3>6. CASE /\ ~HasText(ApplePreviews) /\ ~HasText(SpotifyPreview)
                 /\ ~HasText(DeezerPreview)
        <4>1. Offered(g) = {}
          BY <2>3, <3>6
        <4> QED
          BY <1>7, <3>2, <3>6, <4>1 DEF UrlRight, Expected, PreviewSource
      <3> QED
        BY <3>3, <3>4, <3>5, <3>6
    <2> QED
      BY <2>4, <2>5
  <1> QED
    BY <1>3, <1>4, <1>6, <1>7 DEF UrlGetters

-----------------------------------------------------------------------------
(* The initial states: what TLC is given is some of what is proved about.  *)
LEMMA FewAre ==
    ASSUME NEW k, NEW x \in Few(k)
    PROVE  x \in [UrlFields -> {"absent", "empty", "text"}]
  <1>1. PICK on \in SUBSET UrlFields, val \in [UrlFields -> {"empty", "text"}] :
           x = [f \in UrlFields |-> IF f \in on THEN val[f] ELSE "absent"]
    BY DEF Few
  <1> QED
    BY <1>1

(* The wires a recognition is built from have the shape InputInv asks for. *)
LEMMA RecognitionsAre ==
    ASSUME NEW k, NEW arrays, NEW w \in Recognitions(k, arrays)
    PROVE  /\ w.result = "object"
           /\ w.urls \in [UrlFields -> {"absent", "empty", "text"}]
           /\ w.musicbrainz \in arrays
  BY FewAre DEF Recognitions

(* As have the wires without one.                                          *)
LEMMA NotObjectsAre ==
    ASSUME NEW w \in NotObjects
    PROVE  /\ w.result \in {"null", "other"}
           /\ w.urls \in [UrlFields -> {"absent", "empty", "text"}]
           /\ w.musicbrainz = <<>>
  BY FewAre DEF NotObjects

(* Two arrays that the wires of a run use.                                 *)
LEMMA ObjectAndOther == <<"object", "other">> \in Arrays
  <1>1. <<"object", "other">> \in [1 .. 2 -> {"object", "other"}]
    OBVIOUS
  <1>2. 2 \in 0 .. MaxEntries
    BY BoundsAssumption
  <1> QED
    BY <1>1, <1>2 DEF Arrays

(* A chunk with one song.                                                  *)
LEMMA OneSongIs ==
    ASSUME NEW o \in [type : NodeTypes, text : Seq(Tokens)]
    PROVE  OneSong(o) \in Seq(AnyChunk)
  <1>1. <<"object">> \in Arrays
    <2>1. <<"object">> \in [1 .. 1 -> {"object", "other"}]
      OBVIOUS
    <2>2. 1 \in 0 .. MaxEntries
      BY BoundsAssumption
    <2> QED
      BY <2>1, <2>2 DEF Arrays
  <1>2. [songs |-> <<"object">>, offset |-> o] \in AnyChunk
    BY <1>1 DEF AnyChunk
  <1> QED
    BY <1>2 DEF OneSong

(* The offsets of a run have a type and a text.                            *)
LEMMA OffsetsAre == Offsets \subseteq [type : NodeTypes, text : Seq(Tokens)]
  <1>1. <<>> \in Seq(Tokens) /\ <<"30">> \in Seq(Tokens) /\ <<"7">> \in Seq(Tokens)
    BY DEF Tokens
  <1> QED
    BY <1>1 DEF Offsets, NoOffset, NodeTypes

(* Their texts are tokens.                                                 *)
LEMMA TextsAre == OffsetTexts \subseteq Seq(Tokens)
  <1> DEFINE some == DOMAIN Numbers \cup {"colon", "blank", "other"}
  <1>1. some \subseteq Tokens
    BY Zenon DEF Tokens
  <1>2. OffsetTexts \subseteq UNION {[1 .. n -> some] : n \in 0 .. MaxTokens}
    BY DEF OffsetTexts
  <1> HIDE DEF some
  <1>3. ASSUME NEW n \in 0 .. MaxTokens, NEW t \in [1 .. n -> some]
        PROVE  t \in Seq(Tokens)
    <2>1. n \in Nat
      BY BoundsAssumption
    <2>2. t \in [1 .. n -> Tokens]
      BY <1>1
    <2> QED
      BY <2>1, <2>2
  <1> QED
    BY <1>2, <1>3

(* The chunks of a run are chunks.                                         *)
LEMMA ChunkListsAre ==
    ASSUME NEW w \in ChunkLists \cup ChunkTexts \cup ChunkStarts
    PROVE  /\ w.chunks \in Seq(AnyChunk)
           /\ w.start \in [type : NodeTypes, val : Int]
  <1> DEFINE nodes == [type : NodeTypes, val : Int]
  <1>1. NoStart \in nodes /\ StartNodes \subseteq nodes
    BY DEF NoStart, StartNodes, NodeTypes
  <1>2. CASE w \in ChunkLists
    <2>1. PICK n \in 0 .. 2 : w.chunks \in [1 .. n -> Chunks]
      BY <1>2 DEF ChunkLists
    <2>2. Chunks \subseteq AnyChunk
      BY OffsetsAre DEF Chunks, AnyChunk
    <2>3. w.chunks \in [1 .. n -> AnyChunk]
      BY <2>1, <2>2
    <2>4. w.start = NoStart
      BY <1>2 DEF ChunkLists
    <2> QED
      BY <1>1, <2>3, <2>4
  <1>3. CASE w \in ChunkTexts
    <2>1. PICK t \in OffsetTexts :
             /\ w.chunks = OneSong([type |-> "string", text |-> t])
             /\ w.start = NoStart
      BY <1>3 DEF ChunkTexts
    <2>2. [type |-> "string", text |-> t] \in [type : NodeTypes, text : Seq(Tokens)]
      BY TextsAre DEF NodeTypes
    <2> QED
      BY <1>1, <2>1, <2>2, OneSongIs
  <1>4. CASE w \in ChunkStarts
    <2>1. PICK o \in Offsets : w.chunks = OneSong(o)
      BY <1>4 DEF ChunkStarts
    <2>2. w.start \in StartNodes
      BY <1>4 DEF ChunkStarts
    <2> QED
      BY <1>1, <2>1, <2>2, OffsetsAre, OneSongIs
  <1> QED
    BY <1>2, <1>3, <1>4

(* The blocks that fail in a run are not those a getter keeps.             *)
LEMMA MayFailIs ==
    ASSUME NEW k \in Kinds
    PROVE  MayFail(k) \cap Unfailing = {}
  <1>1. \A b \in Unfailing : \/ b[1] \in {"recognition", "enterprise"} /\
                                b[3] \in UrlGetters
                             \/ b[1] = "aux"
    BY DEF Unfailing, Members
  <1>2. \A b \in MayFail(k) :
           /\ b[1] \in {"recognition", "enterprise"} =>
                 b[3] \in RecognitionStrings \cup match_from_json \cup
                          {"self", "items", "raw_obj", "raw_response_str"}
           /\ b[1] # "aux"
    <2>1. CASE k = "recognition"
      <3>1. ASSUME NEW b \in MayFail(k),
                   ~(b[1] = "recognition" /\
                     b[3] \in RecognitionStrings \cup
                              {"self", "raw_obj", "raw_response_str"})
            PROVE  /\ b[1] \notin {"recognition", "enterprise"}
                   /\ b[1] # "aux"
        BY <2>1, <3>1 DEF MayFail, Members
      <3> SUFFICES ASSUME NEW b \in MayFail(k)
                   PROVE  /\ b[1] \in {"recognition", "enterprise"} =>
                                b[3] \in RecognitionStrings \cup match_from_json \cup
                                         {"self", "items", "raw_obj", "raw_response_str"}
                          /\ b[1] # "aux"
        OBVIOUS
      <3>2. CASE b[1] = "recognition" /\
                 b[3] \in RecognitionStrings \cup
                          {"self", "raw_obj", "raw_response_str"}
        BY <3>2
      <3> QED
        BY <3>1, <3>2
    <2>2. CASE k = "enterprise"
      <3> DEFINE own == Members("enterprise", 0, {"self", "items"})
                 Of(n) == Members("enterprise", n, match_from_json)
                 others == Members("offset", 1, {"text"})
                           \cup Members("redirect", 1, {"spotify", "thumbnail"})
      <3>1. MayFail(k) = own \cup (UNION {Of(n) : n \in 1 .. 2}) \cup others
        BY <2>2 DEF MayFail
      <3>2. \A b \in own : b[3] \in {"self", "items"} /\ b[1] # "aux"
        BY DEF Members
      <3>3. \A n \in 1 .. 2 : \A b \in Of(n) :
               b[3] \in match_from_json /\ b[1] # "aux"
        BY DEF Members
      <3>4. \A b \in others : b[1] \in {"offset", "redirect"}
        BY DEF Members
      <3> HIDE DEF own, Of, others
      <3>5. ASSUME NEW b \in MayFail(k)
            PROVE  b \in own \/ b \in others \/ \E n \in 1 .. 2 : b \in Of(n)
        BY <3>1
      <3>6. ASSUME NEW b \in MayFail(k)
            PROVE  /\ b[1] # "aux"
                   /\ b[1] \in {"recognition", "enterprise"} =>
                         b[3] \in match_from_json \cup {"self", "items"}
        BY <3>2, <3>3, <3>4, <3>5
      <3> QED
        BY <3>6
    <2>3. CASE k = "streams"
      BY <2>3 DEF MayFail, Members
    <2>4. CASE k = "lyrics"
      BY <2>4 DEF MayFail, Members
    <2>5. CASE k = "callback"
      BY <2>5 DEF MayFail, Members, Self
    <2> QED
      BY <2>1, <2>2, <2>3, <2>4, <2>5 DEF Kinds
  <1>3. (RecognitionStrings \cup match_from_json \cup
         {"self", "items", "raw_obj", "raw_response_str"}) \cap UrlGetters = {}
    BY DEF RecognitionStrings, match_from_json, UrlGetters, Providers
  <1> QED
    BY <1>1, <1>2, <1>3

(* A run starts with inputs that InputInv allows.                          *)
LEMMA InitInputs == Init => InputInv
  <1> SUFFICES ASSUME Init PROVE InputInv
    OBVIOUS
  <1>1. kind \in Kinds
    BY DEF Init, Kinds
  <1>2. failed = {} \/ failed \in AtMostOne(kind)
    BY DEF Init
  <1>3. failed \cap Unfailing = {}
    BY <1>1, <1>2, MayFailIs DEF AtMostOne
  <1>4. ASSUME kind = "recognition"
        PROVE  /\ wire.result \in {"object", "null", "other"}
               /\ wire.urls \in [UrlFields -> {"absent", "empty", "text"}]
               /\ wire.musicbrainz \in Arrays
    <2>1. \/ wire \in Recognitions(2, {<<>>})
          \/ wire \in Recognitions(1, {<<"object", "other">>})
          \/ wire \in Recognitions(0, Arrays)
          \/ wire \in NotObjects
      BY <1>4 DEF Init
    <2> QED
      BY <2>1, RecognitionsAre, NotObjectsAre, NoEntries, ObjectAndOther
  <1>5. kind = "enterprise" => /\ wire.chunks \in Seq(AnyChunk)
                               /\ wire.start \in [type : NodeTypes, val : Int]
    <2>1. kind = "enterprise" => wire \in ChunkLists \cup ChunkTexts \cup ChunkStarts
      BY DEF Init
    <2> QED
      BY <2>1, ChunkListsAre
  <1>6. kind \in {"streams", "lyrics"} => wire \in Arrays
    BY DEF Init
  <1>7. kind = "callback" => wire \in Callbacks
    BY DEF Init
  <1> QED
    BY <1>1, <1>3, <1>4, <1>5, <1>6, <1>7 DEF InputInv

(* It starts in the invariant.                                             *)
LEMMA InitIInv == Init => IInv
  <1> SUFFICES ASSUME Init PROVE IInv
    OBVIOUS
  <1>1. InputInv
    BY InitInputs
  <1>2. calls \in 0 .. MaxCalls
    BY BoundsAssumption DEF Init
  <1>3. DOMAIN cache = {} /\ DOMAIN aux = {} /\ answers = {} /\ pc = "parse"
    BY DEF Init
  <1> QED
    BY <1>1, <1>2, <1>3 DEF Init, IInv, ParseInv, UseInv, CacheInv, UrlsInv,
                            AuxInv, AnswersInv

-----------------------------------------------------------------------------
(* The steps.                                                              *)
Inputs == <<kind, wire, failed>>

(* Matches, with what it reads of the state as a parameter.                *)
MatchesFrom(w, missing) ==
    LET Base(chunk, i) ==
            IF GivesText(chunk.offset.type, <<"offset", i, "text">> \notin missing)
            THEN audd_offset_to_seconds(chunk.offset.text) ELSE Unknown
        In(i) ==
            LET js   == Objects(SongsOf(w.chunks[i]))
                from == StartSeconds(Base(w.chunks[i], i), w.start)
            IN  [k \in DOMAIN js |-> [chunk |-> i, entry |-> js[k], start |-> from]]
        upto[n \in 0 .. Len(w.chunks)] ==
            IF n = 0 THEN <<>> ELSE upto[n - 1] \o In(n)
    IN  upto[Len(w.chunks)]

(* What a result was built as does not change.                             *)
LEMMA BuiltStays ==
    ASSUME UNCHANGED Inputs
    PROVE  Built' = Built /\ Given' = Given
  <1>1. Absent' = Absent
    BY DEF Inputs, Absent
  <1>2. \A blocks : Obtained(blocks)' = Obtained(blocks)
    BY <1>1 DEF Inputs, Obtained
  <1>3. \A struct, ms, n, list :
           ListOf(struct, ms, n, list)' = ListOf(struct, ms, n, list)
    BY <1>2 DEF Inputs, ListOf
  <1>4. \A struct, ms : Owning(struct, ms)' = Owning(struct, ms)
    BY <1>2 DEF Inputs, Owning
  <1>5. audd_streams_list(wire)' = audd_streams_list(wire)
    BY <1>3 DEF Inputs, audd_streams_list
  <1>6. audd_advanced_find_lyrics(wire)' = audd_advanced_find_lyrics(wire)
    BY <1>3 DEF Inputs, audd_advanced_find_lyrics
  <1>7. audd_enterprise_from_json(wire)' = audd_enterprise_from_json(wire)
    <2>1. Matches(wire)' = MatchesFrom(wire', failed')
      BY DEF Matches, MatchesIn, BaseOf, MatchesFrom
    <2>2. Matches(wire) = MatchesFrom(wire, failed)
      BY DEF Matches, MatchesIn, BaseOf, MatchesFrom
    <2>3. Matches(wire)' = Matches(wire)
      BY <2>1, <2>2 DEF Inputs
    <2>4. Total(wire)' = Total(wire)
      BY DEF Inputs
    <2> QED
      BY <1>3, <2>3, <2>4 DEF audd_enterprise_from_json
  <1>8. audd_parse_callback(wire)' = audd_parse_callback(wire)
    <2>1. BadBody' = BadBody
      BY <1>2 DEF BadBody
    <2>2. Notification' = Notification
      BY <1>4 DEF Inputs, Notification
    <2>3. \A results : Match(results)' = Match(results)
      BY <1>2, <1>4 DEF Inputs, Match
    <2> QED
      BY <2>1, <2>2, <2>3 DEF Inputs, audd_parse_callback
  <1>9. audd_recognition_from_json(wire)' = audd_recognition_from_json(wire)
    <2>1. \A entries : parse_musicbrainz(entries)' = parse_musicbrainz(entries)
      BY <1>2 DEF Inputs, parse_musicbrainz
    <2> QED
      BY <1>2, <1>4, <2>1 DEF Inputs, audd_recognition_from_json
  <1>10. Built' = Built
    BY <1>5, <1>6, <1>7, <1>8, <1>9 DEF Inputs, Built, Recognized
  <1>11. NoMatch' = NoMatch
    BY DEF Inputs, NoMatch
  <1> QED
    BY <1>10, <1>11 DEF Given

(* What a result is built from does not change.                            *)
LEMMA InputsStay ==
    ASSUME InputInv, UNCHANGED Inputs
    PROVE  InputInv'
  BY DEF Inputs, InputInv

(* Nor does what the metadata call for.                                    *)
LEMMA UrlsStay ==
    ASSUME UNCHANGED Inputs
    PROVE  \A i, g, a : UrlRight(i, g, a)' = UrlRight(i, g, a)
  <1>1. \A g : Offered(g)' = Offered(g)
    BY DEF Inputs, Offered, HasText
  <1>2. \A i, g : Expected(i, g)' = Expected(i, g)
    BY <1>1 DEF Inputs, Expected, Holder
  <1>3. \A i, g : Lesser(i, g)' = Lesser(i, g)
    BY <1>1 DEF Inputs, Lesser, Holder
  <1> QED
    BY <1>2, <1>3 DEF Inputs, UrlRight

(* Building the result keeps the invariant.                                *)
LEMMA ParseStep ==
    ASSUME IInv, Parse
    PROVE  IInv'
  <1>1. UNCHANGED Inputs /\ UNCHANGED <<cache, aux, answers, lost, calls>>
    BY DEF Parse, Inputs
  <1>2. InputInv' /\ Built' = Built /\ Given' = Given
    BY <1>1, InputsStay, BuiltStays DEF IInv
  <1>3. /\ DOMAIN cache = {} /\ DOMAIN aux = {} /\ answers = {}
        /\ pc = "parse" /\ pc' = "use"
    BY DEF IInv, ParseInv, Parse
  <1>4. UseInv'
    <2>1. Asked' = {} /\ Printed' = {}
      BY <1>1, <1>3 DEF Asked, Printed
    <2> QED
      BY <1>2, <1>3, <2>1 DEF Parse, UseInv
  <1>5. CacheInv' /\ UrlsInv' /\ AuxInv' /\ AnswersInv'
    BY <1>1, <1>3 DEF CacheInv, UrlsInv, AuxInv, AnswersInv
  <1> QED
    BY <1>1, <1>2, <1>3, <1>4, <1>5 DEF IInv, ParseInv

(* What the caller was given is what was built: getters add nothing to it. *)
LEMMA OutIs ==
    ASSUME IInv, pc = "use"
    PROVE  /\ Out = OutsOf(Built.blocks)
           /\ Given => \E out \in OutStructs : Out = {Self(out)}
           /\ NoMatch => err = "OK" /\ Out = {} /\ heap = {}
           /\ err # "OK" => Out = {} /\ heap \subseteq {Self("message")}
  <1>1. Sound(Built) /\ err = Built.err
    BY BuiltIsSound DEF IInv, UseInv
  <1>2. Out = OutsOf(heap)
    BY DEF Out, OutsOf, OutStructs
  <1>3. OutsOf(heap) = OutsOf(Built.blocks)
    <2>1. \A x \in OutStructs : ByParser(Self(x))
      BY DEF ByParser, OutStructs, Self, UrlGetters, Providers
    <2>2. \A x \in OutStructs : Self(x) \in heap <=> Self(x) \in Built.blocks
      BY <2>1, HeapIs
    <2> QED
      BY <2>2 DEF OutsOf
  <1>4. ASSUME err # "OK" PROVE Out = {} /\ heap \subseteq {Self("message")}
    <2>1. DOMAIN cache = {} /\ DOMAIN aux = {}
      BY <1>1, <1>4 DEF IInv, CacheInv, AuxInv, Given
    <2>2. heap = Built.blocks
      BY <2>1 DEF IInv, UseInv, Asked, Printed
    <2>3. Built.blocks \subseteq {Self("message")}
      BY <1>1, <1>4 DEF Sound
    <2>4. OutsOf(Built.blocks) = {}
      BY <2>3 DEF OutsOf, OutStructs, Self
    <2> QED
      BY <1>2, <1>3, <2>2, <2>3, <2>4
  <1>5. ASSUME NoMatch PROVE err = "OK" /\ Out = {} /\ heap = {}
    <2>1. Built = Failure("OK")
      BY <1>5, RecognizedIs DEF NoMatch
    <2>2. Built.err = "OK" /\ Built.blocks = {}
      BY <2>1 DEF Failure
    <2>3. DOMAIN cache = {} /\ DOMAIN aux = {}
      BY <1>5 DEF IInv, CacheInv, AuxInv, Given
    <2>4. heap = {}
      BY <2>2, <2>3 DEF IInv, UseInv, Asked, Printed
    <2> QED
      BY <1>1, <2>2, <2>4 DEF Out
  <1>6. ASSUME Given PROVE \E out \in OutStructs : Out = {Self(out)}
    BY <1>1, <1>2, <1>3, <1>6 DEF Sound, Given
  <1> QED
    BY <1>2, <1>3, <1>4, <1>5, <1>6

(* A getter for a URL, of a recognition or of a match.                     *)
LEMMA AskUrlStep ==
    ASSUME IInv, pc = "use", NEW i \in Nat, NEW g \in UrlGetters, calls < MaxCalls,
           Given,
           \/ kind = "recognition" /\ i = 0
           \/ kind = "enterprise" /\ i \in DOMAIN items /\ g # "preview",
           AskUrl(i, g)
    PROVE  IInv'
  <1> DEFINE asked == <<i, g>> \in DOMAIN cache
             a == IF asked THEN cache[<<i, g>>] ELSE Fresh(i, g)
             kept == IF asked \/ a = NoUrl THEN {} ELSE {<<Holder, i, g>>}
  <1>1. /\ answers' = answers \cup {<<i, g, a, FALSE>>}
        /\ calls' = calls + 1
        /\ UNCHANGED <<kind, wire, failed, pc, err, items, room, aux>>
        /\ cache' = With(cache, <<i, g>>, a)
        /\ heap' = heap \cup kept
        /\ lost' = lost \cup (heap \cap kept)
    BY DEF AskUrl, Answer
  <1>2. UrlRight(i, g, a)
    <2>1. CASE asked
      BY <2>1 DEF IInv, UrlsInv
    <2>2. CASE ~asked
      BY <2>2, FreshIsRight
    <2> QED
      BY <2>1, <2>2
  <1>3. UNCHANGED Inputs
    BY <1>1 DEF Inputs
  <1>4. InputInv' /\ Built' = Built /\ Given' = Given
    BY <1>3, InputsStay, BuiltStays DEF IInv
  <1>5. asked => a = cache[<<i, g>>]
    OBVIOUS
  <1>6. /\ asked \/ a = NoUrl => kept = {}
        /\ ~(asked \/ a = NoUrl) => kept = {<<Holder, i, g>>}
    OBVIOUS
  <1> HIDE DEF a, kept
  <1>7. /\ DOMAIN cache' = DOMAIN cache \cup {<<i, g>>}
        /\ cache'[<<i, g>>] = a
        /\ \A k \in DOMAIN cache : cache'[k] = cache[k]
    <2>1. cache' = [y \in DOMAIN cache \cup {<<i, g>>} |->
                       IF y = <<i, g>> THEN a ELSE cache[y]]
      BY <1>1 DEF With
    <2> QED
      BY <1>5, <2>1
  <1>8. heap \cap kept = {}
    <2> SUFFICES ASSUME ~(asked \/ a = NoUrl) PROVE <<Holder, i, g>> \notin heap
      BY <1>6
    <2>1. <<Holder, i, g>> \notin Built.blocks
      <3>1. ~ByParser(<<Holder, i, g>>)
        BY DEF ByParser
      <3> QED
        BY <3>1, BuiltIsSound DEF IInv, Sound
    <2>2. <<Holder, i, g>> \notin Asked
      BY DEF Asked, IInv, CacheInv
    <2>3. <<Holder, i, g>> \notin Printed
      BY DEF Printed, Holder
    <2> QED
      BY <2>1, <2>2, <2>3 DEF IInv, UseInv
  <1>9. UseInv'
    <2>1. Holder' = Holder /\ Printed' = Printed
      BY <1>1 DEF Holder, Printed
    <2>2. Asked' = Asked \cup kept
      <3>1. ASSUME NEW k \in DOMAIN cache', cache'[k] # NoUrl
            PROVE  <<Holder, k[1], k[2]>> \in Asked \cup kept
        <4>1. CASE k \in DOMAIN cache
          BY <1>7, <3>1, <4>1 DEF Asked
        <4>2. CASE k = <<i, g>> /\ ~asked
          BY <1>6, <1>7, <3>1, <4>2
        <4> QED
          BY <1>7, <3>1, <4>1, <4>2
      <3>2. ASSUME NEW b \in Asked PROVE b \in Asked'
        <4>1. PICK k \in DOMAIN cache :
                 cache[k] # NoUrl /\ b = <<Holder, k[1], k[2]>>
          BY <3>2 DEF Asked
        <4> QED
          BY <1>7, <2>1, <4>1 DEF Asked
      <3>3. ASSUME NEW b \in kept PROVE b \in Asked'
        <4>1. b = <<Holder, i, g>> /\ a # NoUrl
          BY <1>6, <3>3
        <4>2. <<i, g>> \in DOMAIN cache' /\ cache'[<<i, g>>] # NoUrl
          BY <1>7, <4>1
        <4> QED
          BY <2>1, <4>1, <4>2 DEF Asked
      <3>4. Asked' \subseteq Asked \cup kept
        BY <2>1, <3>1 DEF Asked
      <3> QED
        BY <3>2, <3>3, <3>4
    <2> QED
      BY <1>1, <1>4, <2>1, <2>2 DEF IInv, UseInv
  <1>10. CacheInv'
    <2>1. ASSUME NEW k \in DOMAIN cache'
          PROVE  /\ k = <<k[1], k[2]>> /\ k[1] \in Nat /\ k[2] \in UrlGetters
                 /\ \/ kind = "recognition" /\ k[1] = 0
                    \/ kind = "enterprise" /\ k[1] \in DOMAIN items /\ k[2] # "preview"
      <3>1. CASE k \in DOMAIN cache
        BY <3>1 DEF IInv, CacheInv
      <3>2. CASE k = <<i, g>>
        BY <3>2
      <3> QED
        BY <1>7, <2>1, <3>1, <3>2
    <2> QED
      BY <1>1, <1>4, <2>1 DEF CacheInv
  <1>11. UrlsInv'
    <2>1. ASSUME NEW k \in DOMAIN cache'
          PROVE  UrlRight(k[1], k[2], cache'[k])
      <3>1. CASE k \in DOMAIN cache
        BY <1>7, <3>1 DEF IInv, UrlsInv
      <3>2. CASE k = <<i, g>>
        BY <1>2, <1>7, <3>2
      <3> QED
        BY <1>7, <2>1, <3>1, <3>2
    <2>2. \A j, h, v : UrlRight(j, h, v)' = UrlRight(j, h, v)
      BY <1>3, UrlsStay
    <2> QED
      BY <2>1, <2>2 DEF UrlsInv
  <1>12. AuxInv'
    BY <1>1, <1>4 DEF IInv, AuxInv
  <1>13. AnswersInv'
    <2>1. \A key : ExtraNow(key)' = ExtraNow(key) /\
                   (NeverPrinted(key) => NeverPrinted(key)')
      BY <1>1, <1>4 DEF ExtraNow, NeverPrinted
    <2>2. ASSUME NEW x \in answers'
          PROVE  \/ UrlAnswer(x)'
                 \/ /\ x[2] \in ExtraKeys /\ kind = "recognition" /\ Given
                    /\ ExtraAnswer(x)
      <3>1. CASE x \in answers
        BY <1>7, <3>1 DEF IInv, AnswersInv, UrlAnswer
      <3>2. CASE x = <<i, g, a, FALSE>>
        BY <1>7, <3>2 DEF UrlAnswer
      <3> QED
        BY <1>1, <2>2, <3>1, <3>2
    <2> QED
      BY <1>1, <1>4, <2>1, <2>2 DEF AnswersInv, ExtraAnswer
  <1>14. calls' \in 0 .. MaxCalls
    BY <1>1, BoundsAssumption DEF IInv
  <1> QED
    BY <1>1, <1>4, <1>8, <1>9, <1>10, <1>11, <1>12, <1>13, <1>14
       DEF IInv, ParseInv

(* A getter of a recognition keeps it.                                     *)
LEMMA AskRecognitionStep ==
    ASSUME IInv, NEW g \in UrlGetters, AskRecognition(g)
    PROVE  IInv'
  <1>1. /\ pc = "use" /\ calls < MaxCalls /\ kind = "recognition"
        /\ Out # {} /\ AskUrl(0, g)
    BY DEF AskRecognition
  <1>2. Given
    BY <1>1, OutIs DEF IInv, UseInv, Given
  <1> QED
    BY <1>1, <1>2, AskUrlStep

(* A getter of an enterprise match keeps it.                               *)
LEMMA AskMatchStep ==
    ASSUME IInv, NEW i \in DOMAIN items, NEW g \in UrlGetters, AskMatch(i, g)
    PROVE  IInv'
  <1>1. /\ pc = "use" /\ calls < MaxCalls /\ kind = "enterprise"
        /\ g # "preview" /\ AskUrl(i, g)
    BY DEF AskMatch
  <1>2. items = Built.items
    BY <1>1 DEF IInv, UseInv
  <1>3. Built.err = "OK"
    <2>1. items # <<>>
      OBVIOUS
    <2> QED
      BY <1>2, <2>1, BuiltIsSound DEF IInv, Sound
  <1>4. i \in Nat
    <2>1. /\ Matches(wire) \in Seq(Items(wire)) /\ Total(wire) \in Nat
      BY <1>1, MatchesAre DEF IInv, InputInv
    <2>2. Built = ListOf("enterprise", match_from_json, Total(wire), Matches(wire))
      BY <1>1 DEF Built, audd_enterprise_from_json
    <2>3. items = Matches(wire)
      <3>1. ListBuilt(Built, "enterprise", match_from_json, Total(wire),
                      Matches(wire))
        BY ONLY <1>3, <2>1, <2>2, ListIsBuilt
      <3> QED
        BY <1>2, <3>1 DEF ListBuilt
    <2> QED
      BY <2>1, <2>3
  <1>5. Given
    BY <1>1, <1>3 DEF Given, NoMatch
  <1> QED
    BY <1>1, <1>4, <1>5, AskUrlStep

(* A printed extra keeps it.                                               *)
LEMMA AskExtraStep ==
    ASSUME IInv, NEW key \in ExtraKeys, NEW memory \in BOOLEAN,
           AskExtra(key, memory)
    PROVE  IInv'
  <1> DEFINE raw == RawBlock \in Built.blocks
             slot == AuxKey(key)
             block == <<"aux", 0, slot>>
             new == raw /\ key \notin TypedKeys /\ slot \notin DOMAIN aux
             added == new /\ memory
             starved == new /\ ~memory
             now == IF added THEN With(aux, slot, key) ELSE aux
             a == IF key \notin TypedKeys /\ slot \in DOMAIN now
                  THEN <<now[slot]>> ELSE NoUrl
  <1>1. pc = "use" /\ calls < MaxCalls /\ kind = "recognition" /\ Out # {}
    BY DEF AskExtra
  <1>2. raw <=> <<"recognition", 0, "raw_obj">> \in heap
    <2>1. ByParser(RawBlock)
      BY DEF ByParser, RawBlock, UrlGetters, Providers
    <2> QED
      BY <1>1, <2>1, HeapIs DEF RawBlock
  <1>3. /\ aux' = now
        /\ heap' = IF added THEN heap \cup {block} ELSE heap
        /\ answers' = answers \cup {<<0, key, a, starved>>}
        /\ calls' = calls + 1
        /\ UNCHANGED <<kind, wire, failed, pc, err, items, room, cache, lost>>
    BY <1>2 DEF AskExtra, Answer
  <1>4. UNCHANGED Inputs
    BY <1>3 DEF Inputs
  <1>5. InputInv' /\ Built' = Built /\ Given' = Given
    BY <1>4, InputsStay, BuiltStays DEF IInv
  <1>6. Given
    BY <1>1, OutIs DEF IInv, UseInv, Given
  <1>7. /\ slot \in {"genre", "artist", "_audd_extra_long"}
        /\ key \notin TypedKeys => slot \in {"genre", "_audd_extra_long"}
        /\ slot = "genre" => key = "genre"
    BY DEF AuxKey, ExtraKeys, TypedKeys
  <1>8. ~added => DOMAIN aux' = DOMAIN aux /\ aux' = aux
    BY <1>3
  <1>9. added => /\ DOMAIN aux' = DOMAIN aux \cup {slot}
                 /\ aux'[slot] = key
                 /\ \A k \in DOMAIN aux : aux'[k] = aux[k]
    <2> SUFFICES ASSUME added
                 PROVE  /\ DOMAIN aux' = DOMAIN aux \cup {slot}
                        /\ aux'[slot] = key
                        /\ \A k \in DOMAIN aux : aux'[k] = aux[k]
      OBVIOUS
    <2>1. aux' = [y \in DOMAIN aux \cup {slot} |->
                     IF y = slot THEN key ELSE aux[y]]
      BY <1>3 DEF With
    <2>2. slot \notin DOMAIN aux
      OBVIOUS
    <2> HIDE DEF slot, added
    <2> QED
      BY <2>1, <2>2
  <1>10. UseInv'
    <2>1. Asked' = Asked
      BY <1>3 DEF Asked, Holder
    <2>2. Printed' = IF added THEN Printed \cup {block} ELSE Printed
      <3>1. CASE added
        <4> HIDE DEF added, slot
        <4> QED
          BY <1>9, <3>1 DEF Printed
      <3>2. CASE ~added
        BY <1>8, <3>2 DEF Printed
      <3> QED
        BY <3>1, <3>2
    <2> HIDE DEF added, block
    <2> QED
      BY <1>1, <1>3, <1>5, <2>1, <2>2 DEF IInv, UseInv
  <1>11. CacheInv'
    BY <1>3, <1>5 DEF IInv, CacheInv
  <1>12. UrlsInv'
    <2>1. \A j, h, v : UrlRight(j, h, v)' = UrlRight(j, h, v)
      BY <1>4, UrlsStay
    <2> QED
      BY <1>3, <2>1 DEF IInv, UrlsInv
  <1>13. AuxInv'
    <2>1. ASSUME NEW k \in DOMAIN aux'
          PROVE  /\ k \in {"genre", "_audd_extra_long"}
                 /\ k = "genre" => aux'[k] = "genre"
                 /\ RawBlock \in Built.blocks
      <3>1. CASE k \in DOMAIN aux
        <4>1. aux'[k] = aux[k]
          BY <1>8, <1>9, <3>1
        <4> QED
          BY <3>1, <4>1 DEF IInv, AuxInv
      <3>2. CASE added /\ k = slot
        BY <1>7, <1>9, <3>2
      <3> QED
        BY <1>8, <1>9, <2>1, <3>1, <3>2
    <2> QED
      BY <1>1, <1>3, <1>5, <1>6, <2>1 DEF AuxInv
  <1>14. AnswersInv'
    <2>1. \A k : NeverPrinted(k) => NeverPrinted(k)'
      BY <1>3, <1>5 DEF NeverPrinted
    <2>2. ASSUME NEW x \in answers, x[2] \in ExtraKeys, ExtraAnswer(x)
          PROVE  ExtraAnswer(x)'
      <3>1. CASE x[4] = TRUE /\ x[3] = NoUrl
        BY <3>1 DEF ExtraAnswer
      <3> SUFFICES ASSUME x[4] = FALSE, x[3] = ExtraNow(x[2]),
                          AuxKey(x[2]) \notin DOMAIN aux => NeverPrinted(x[2])
                   PROVE  ExtraAnswer(x)'
        BY <2>2, <3>1 DEF ExtraAnswer
      <3>2. CASE ~added \/ AuxKey(x[2]) # slot
        <4>1. AuxKey(x[2]) \in DOMAIN aux' <=> AuxKey(x[2]) \in DOMAIN aux
          BY <1>8, <1>9, <3>2
        <4>2. AuxKey(x[2]) \in DOMAIN aux =>
                 aux'[AuxKey(x[2])] = aux[AuxKey(x[2])]
          BY <1>8, <1>9, <3>2
        <4>3. ExtraNow(x[2])' = ExtraNow(x[2])
          BY <4>1, <4>2 DEF ExtraNow
        <4> QED
          BY <2>1, <4>1, <4>3 DEF ExtraAnswer
      <3>3. CASE added /\ AuxKey(x[2]) = slot
        <4>1. x[2] \in TypedKeys
          BY <3>3 DEF NeverPrinted
        <4>2. AuxKey(x[2]) = "artist"
          BY <4>1 DEF AuxKey, TypedKeys
        <4> QED
          BY <1>7, <3>3, <4>2
      <3> QED
        BY <3>2, <3>3
    <2>3. ASSUME NEW x, x = <<0, key, a, starved>>
          PROVE  ExtraAnswer(x)'
      <3>1. a = ExtraNow(key)'
        BY <1>3 DEF ExtraNow
      <3>2. ~starved /\ slot \notin DOMAIN aux' => NeverPrinted(key)
        <4>1. slot \notin DOMAIN aux' => ~added /\ slot \notin DOMAIN aux
          BY <1>8, <1>9
        <4> QED
          BY <4>1 DEF NeverPrinted
      <3>3. starved => a = NoUrl
        BY <1>3
      <3>4. (starved = TRUE \/ starved = FALSE) /\ (starved = TRUE <=> starved)
        OBVIOUS
      <3> HIDE DEF a, starved
      <3>5. x[2] = key /\ x[3] = a /\ x[4] = starved
        BY <2>3
      <3> QED
        BY <2>1, <3>1, <3>2, <3>3, <3>4, <3>5, Zenon DEF ExtraAnswer
    <2>4. ASSUME NEW x \in answers'
          PROVE  \/ UrlAnswer(x)
                 \/ x[2] \in ExtraKeys /\ ExtraAnswer(x)'
      <3>1. CASE x \in answers
        BY <2>2, <3>1 DEF IInv, AnswersInv
      <3>2. CASE x = <<0, key, a, starved>>
        <4> HIDE DEF a, starved
        <4>1. x[2] \in ExtraKeys
          BY <3>2
        <4> QED
          BY <2>3, <3>2, <4>1
      <3> QED
        BY <1>3, <2>4, <3>1, <3>2
    <2>5. \A x : UrlAnswer(x) => UrlAnswer(x)'
      BY <1>3 DEF UrlAnswer
    <2> QED
      BY <1>1, <1>3, <1>5, <1>6, <2>4, <2>5 DEF AnswersInv
  <1>15. calls' \in 0 .. MaxCalls
    BY <1>1, <1>3, BoundsAssumption DEF IInv
  <1> QED
    BY <1>1, <1>3, <1>5, <1>10, <1>11, <1>12, <1>13, <1>14, <1>15
       DEF IInv, ParseInv

(* Freeing leaves nothing: what each parser allocates, and what the        *)
(* getters add, is what the free function of that structure knows of.      *)
LEMMA FreedRecognition ==
    ASSUME IInv, pc = "use", kind = "recognition", Given
    PROVE  heap \subseteq audd_recognition_free
  <1>1. /\ Built.blocks = parse_musicbrainz(wire.musicbrainz).blocks \cup OwnBlocks
        /\ items = parse_musicbrainz(wire.musicbrainz).items
        /\ Self("recognition") \notin failed
        /\ heap = Built.blocks \cup Asked \cup Printed
    BY GivenIs DEF IInv, UseInv
  <1> DEFINE mb == parse_musicbrainz(wire.musicbrainz)
  <1>2. /\ mb.blocks \subseteq MusicbrainzBlocks(items)
        /\ mb.blocks # {} => <<"musicbrainz", 0, "items">> \in mb.blocks
    BY <1>1, MusicbrainzIs DEF IInv, InputInv
  <1> HIDE DEF mb
  <1>3. Self("recognition") \in heap
    BY <1>1, OwnBlocksAre
  <1>4. ASSUME NEW b \in mb.blocks PROVE b \in audd_recognition_free
    <2>1. b \in free_musicbrainz
      BY <1>1, <1>2, <1>4 DEF mb, free_musicbrainz, MusicbrainzBlocks,
                              MusicbrainzNames
    <2> QED
      BY <2>1 DEF audd_recognition_free
  <1>5. ASSUME NEW b \in OwnBlocks PROVE b \in audd_recognition_free
    <2>1. b \in heap
      BY <1>1, <1>5
    <2>2. CASE b \in Members("recognition", 0, RecognitionStrings \cup
                                {"self", "raw_obj", "raw_response_str"})
      <3>1. b \in Members("recognition", 0, RecognitionStrings \cup UrlGetters \cup
                             {"raw_obj", "raw_response_str"} \cup {"self"})
        BY <2>2 DEF Members
      <3>2. b \in Released("recognition", RecognitionStrings \cup UrlGetters \cup
                              {"raw_obj", "raw_response_str"})
        BY <1>3, <2>1, <3>1 DEF Released
      <3> QED
        BY <3>2 DEF audd_recognition_free
    <2>3. CASE /\ b \in Members("apple_music", 0, parse_apple_music \cup {"self"})
               /\ Self("apple_music") \in OwnBlocks
      <3>1. b \in Released("apple_music", free_apple_music)
        BY <1>1, <2>1, <2>3 DEF Released, parse_apple_music, free_apple_music
      <3> QED
        BY <3>1 DEF audd_recognition_free
    <2>4. CASE /\ b \in Members("spotify", 0, parse_spotify \cup {"self"})
               /\ Self("spotify") \in OwnBlocks
      <3>1. b \in Released("spotify", free_spotify)
        BY <1>1, <2>1, <2>4 DEF Released, parse_spotify, free_spotify
      <3> QED
        BY <3>1 DEF audd_recognition_free
    <2>5. CASE /\ b \in Members("deezer", 0, parse_deezer \cup {"self"})
               /\ Self("deezer") \in OwnBlocks
      <3>1. b \in Released("deezer", free_deezer)
        BY <1>1, <2>1, <2>5 DEF Released, parse_deezer, free_deezer
      <3> QED
        BY <3>1 DEF audd_recognition_free
    <2>6. CASE /\ b \in Members("napster", 0, parse_napster \cup {"self"})
               /\ Self("napster") \in OwnBlocks
      <3>1. b \in Released("napster", free_napster)
        BY <1>1, <2>1, <2>6 DEF Released, parse_napster, free_napster
      <3> QED
        BY <3>1 DEF audd_recognition_free
    <2> QED
      BY <1>5, <2>2, <2>3, <2>4, <2>5, <2>6, OwnBlocksAre
  <1>6. ASSUME NEW b \in Asked PROVE b \in audd_recognition_free
    <2>1. PICK k \in DOMAIN cache :
             cache[k] # NoUrl /\ b = <<"recognition", k[1], k[2]>>
      BY <1>6 DEF Asked, Holder
    <2>2. k[1] = 0 /\ k[2] \in UrlGetters
      BY DEF IInv, CacheInv
    <2>3. b \in Members("recognition", 0, RecognitionStrings \cup UrlGetters \cup
                           {"raw_obj", "raw_response_str"} \cup {"self"})
      BY <2>1, <2>2 DEF Members
    <2>4. b \in Released("recognition", RecognitionStrings \cup UrlGetters \cup
                            {"raw_obj", "raw_response_str"})
      BY <1>1, <1>3, <1>6, <2>3 DEF Released
    <2> QED
      BY <2>4 DEF audd_recognition_free
  <1>7. ASSUME NEW b \in Printed PROVE b \in audd_recognition_free
    <2>1. b \in Members("aux", 0, ExtraKeys \cup {"_audd_extra_long"})
      BY DEF Printed, IInv, AuxInv, Members, ExtraKeys
    <2> QED
      BY <1>1, <1>7, <2>1 DEF audd_recognition_free
  <1> QED
    BY <1>1, <1>4, <1>5, <1>6, <1>7 DEF mb

(* And the one of an enterprise result, with the URLs its getters kept.    *)
LEMMA FreedEnterprise ==
    ASSUME IInv, pc = "use", kind = "enterprise", err = "OK"
    PROVE  heap \subseteq audd_enterprise_result_free
  <1>1. /\ Built.blocks \subseteq ListBlocks("enterprise", match_from_json, items)
        /\ heap = Built.blocks \cup Asked \cup Printed
    <2>1. Built = ListOf("enterprise", match_from_json, Total(wire), Matches(wire))
      BY DEF Built, audd_enterprise_from_json
    <2>2. Built.err = "OK" /\ items = Built.items
      BY DEF IInv, UseInv
    <2>3. Total(wire) \in Nat
      BY MatchesAre DEF IInv, InputInv
    <2>4. ListBuilt(Built, "enterprise", match_from_json, Total(wire),
                    Matches(wire))
      BY ONLY <2>1, <2>2, <2>3, ListIsBuilt
    <2> QED
      BY <2>2, <2>4 DEF ListBuilt, IInv, UseInv
  <1>2. Printed = {}
    BY DEF Printed, IInv, AuxInv
  <1>3. ASSUME NEW b \in ListBlocks("enterprise", match_from_json, items), b \in heap
        PROVE  b \in audd_enterprise_result_free
    <2>1. match_from_json \subseteq match_free_inner
      BY DEF match_from_json, match_free_inner
    <2>2. \A i \in DOMAIN items : Members("enterprise", i, match_from_json)
                                  \subseteq Members("enterprise", i, match_free_inner)
      BY <2>1 DEF Members
    <2> QED
      BY <1>3, <2>2 DEF ListBlocks, audd_enterprise_result_free, FreeList
  <1>4. ASSUME NEW b \in Asked PROVE b \in audd_enterprise_result_free
    <2>1. PICK k \in DOMAIN cache :
             cache[k] # NoUrl /\ b = <<"enterprise", k[1], k[2]>>
      BY <1>4 DEF Asked, Holder
    <2>2. k[1] \in DOMAIN items /\ k[2] \in UrlGetters \ {"preview"}
      BY DEF IInv, CacheInv
    <2>3. b \in Members("enterprise", k[1], match_free_inner)
      BY <2>1, <2>2 DEF Members, match_free_inner, UrlGetters
    <2> QED
      BY <1>1, <1>4, <2>2, <2>3 DEF audd_enterprise_result_free, FreeList
  <1> QED
    BY <1>1, <1>2, <1>3, <1>4

(* No getter is called on the others.                                      *)
LEMMA NoGetters ==
    ASSUME IInv, pc = "use", kind \notin {"recognition", "enterprise"}
    PROVE  heap = Built.blocks
  <1>1. DOMAIN cache = {} /\ DOMAIN aux = {}
    BY DEF IInv, CacheInv, AuxInv
  <1> QED
    BY <1>1 DEF Asked, Printed, IInv, UseInv

(* The free functions of the two lists know all their blocks.              *)
LEMMA FreedLists ==
    ASSUME IInv, pc = "use", err = "OK"
    PROVE  /\ kind = "streams" => heap \subseteq audd_stream_list_free
           /\ kind = "lyrics" => heap \subseteq audd_lyrics_list_free
  <1>1. ASSUME NEW struct, NEW ms, NEW w \in Arrays,
               kind \in {"streams", "lyrics"},
               Built = ListOf(struct, ms, Len(w), Placed(w))
        PROVE  heap \subseteq FreeList(struct, ms)
    <2>1. Built.err = "OK" /\ items = Built.items
      BY DEF IInv, UseInv
    <2>2. Len(w) \in Nat
      BY ArraysAre, BoundsAssumption
    <2>3. ListBuilt(Built, struct, ms, Len(w), Placed(w))
      BY ONLY <1>1, <2>1, <2>2, ListIsBuilt
    <2>4. Built.blocks \subseteq ListBlocks(struct, ms, items)
      BY <2>1, <2>3 DEF ListBuilt
    <2> QED
      BY <1>1, <2>4, NoGetters DEF FreeList, ListBlocks
  <1> QED
    BY <1>1 DEF Built, audd_streams_list, audd_stream_list_free,
                audd_advanced_find_lyrics, audd_lyrics_list_free, IInv, InputInv

(* So do those of a match and a notification.                              *)
LEMMA FreedCallback ==
    ASSUME IInv, pc = "use", kind = "callback", err = "OK"
    PROVE  heap \subseteq audd_stream_callback_match_free \cup
                          audd_stream_callback_notification_free
  <1>1. /\ heap = Built.blocks /\ Built = audd_parse_callback(wire)
        /\ Built.err = "OK" /\ items = Built.items
    BY NoGetters DEF Built, IInv, UseInv
  <1>2. wire.results \in Arrays
    BY DEF IInv, InputInv, Callbacks
  <1>3. \/ Built = Notification
        \/ wire.results # <<>> /\ Built = Match(wire.results)
    <2>1. BadBody.err # "OK" /\ Failure("INVALID_ARGUMENT").err # "OK"
      BY BadBodyIs DEF Failure
    <2> QED
      BY <1>1, <2>1 DEF audd_parse_callback
  <1>4. Built # Failure("OUT_OF_MEMORY")
    BY <1>1 DEF Failure
  <1>5. CASE Built = Notification
    <2>1. /\ Self("notification") \in heap
          /\ heap \subseteq Members("notification", 0,
                {"self", "notification_message", "raw_response"})
      BY <1>1, <1>4, <1>5, NotificationIs
    <2>2. {"notification_message", "raw_response"} \cup {"self"}
             = {"self", "notification_message", "raw_response"}
      OBVIOUS
    <2> QED
      BY <2>1, <2>2 DEF audd_stream_callback_notification_free, Released
  <1>6. CASE wire.results # <<>> /\ Built = Match(wire.results)
    <2> DEFINE n == Len(wire.results) - 1
    <2>1. /\ n \in Nat /\ items = [i \in 1 .. n |-> Place(1, i + 1)]
          /\ Self("match") \in heap /\ heap \subseteq MatchBlocks(n)
      BY <1>1, <1>2, <1>4, <1>6, MatchIs
    <2> HIDE DEF n
    <2>2. Len(items) = n
      BY <2>1
    <2>3. {"timestamp", "raw_response", "items"} \cup {"self"}
             = {"self", "items", "timestamp", "raw_response"}
      OBVIOUS
    <2>4. parse_song = free_song_inner
      BY DEF parse_song, free_song_inner
    <2> QED
      BY <2>1, <2>2, <2>3, <2>4 DEF MatchBlocks, Released,
         audd_stream_callback_match_free
  <1> QED
    BY <1>3, <1>5, <1>6

(* Freeing the result keeps the invariant.                                 *)
LEMMA FreeStep ==
    ASSUME IInv, Free
    PROVE  IInv'
  <1>1. /\ pc = "use" /\ pc' = "freed"
        /\ UNCHANGED <<kind, wire, failed, err, items, room, cache, aux,
                       answers, lost, calls>>
    BY DEF Free
  <1>2. UNCHANGED Inputs
    BY <1>1 DEF Inputs
  <1>3. InputInv' /\ Built' = Built /\ Given' = Given
    BY <1>2, InputsStay, BuiltStays DEF IInv
  <1>4. heap' = {}
    <2>1. CASE err # "OK"
      BY <1>1, <2>1, OutIs DEF Free
    <2>2. CASE err = "OK"
      <3>1. kind \in {"recognition", "enterprise", "streams", "lyrics", "callback"}
        BY DEF IInv, InputInv, Kinds
      <3>2. CASE kind = "recognition"
        <4>1. CASE NoMatch
          BY <1>1, <4>1, OutIs DEF Free
        <4>2. CASE ~NoMatch
          <5>1. Given
            BY <1>1, <2>2, <4>2 DEF Given, IInv, UseInv
          <5> QED
            BY <1>1, <3>2, <5>1, FreedRecognition DEF Free
        <4> QED
          BY <4>1, <4>2
      <3>3. CASE kind = "enterprise"
        BY <1>1, <2>2, <3>3, FreedEnterprise DEF Free
      <3>4. CASE kind = "streams"
        BY <1>1, <2>2, <3>4, FreedLists DEF Free
      <3>5. CASE kind = "lyrics"
        BY <1>1, <2>2, <3>5, FreedLists DEF Free
      <3>6. CASE kind = "callback"
        BY <1>1, <2>2, <3>6, FreedCallback DEF Free
      <3> QED
        BY <3>1, <3>2, <3>3, <3>4, <3>5, <3>6
    <2> QED
      BY <2>1, <2>2
  <1>5. UseInv'
    BY <1>1, <1>3, <1>4 DEF IInv, UseInv
  <1>6. CacheInv' /\ AuxInv'
    BY <1>1, <1>3 DEF IInv, CacheInv, AuxInv
  <1>7. UrlsInv'
    <2>1. \A j, h, v : UrlRight(j, h, v)' = UrlRight(j, h, v)
      BY <1>2, UrlsStay
    <2> QED
      BY <1>1, <2>1 DEF IInv, UrlsInv
  <1>8. AnswersInv'
    <2>1. \A key : ExtraNow(key)' = ExtraNow(key) /\
                   (NeverPrinted(key) => NeverPrinted(key)')
      BY <1>1, <1>3 DEF ExtraNow, NeverPrinted
    <2> QED
      BY <1>1, <1>3, <2>1 DEF IInv, AnswersInv, UrlAnswer, ExtraAnswer
  <1> QED
    BY <1>1, <1>3, <1>5, <1>6, <1>7, <1>8 DEF IInv, ParseInv

(* Every step keeps the invariant.                                         *)
LEMMA NextIInv == IInv /\ [Next]_vars => IInv'
  <1> SUFFICES ASSUME IInv, [Next]_vars PROVE IInv'
    OBVIOUS
  <1>1. CASE Parse
    BY <1>1, ParseStep
  <1>2. CASE \E g \in UrlGetters : AskRecognition(g)
    BY <1>2, AskRecognitionStep
  <1>3. CASE \E i \in DOMAIN items, g \in UrlGetters : AskMatch(i, g)
    BY <1>3, AskMatchStep
  <1>4. CASE \E key \in ExtraKeys, memory \in BOOLEAN : AskExtra(key, memory)
    BY <1>4, AskExtraStep
  <1>5. CASE Free
    BY <1>5, FreeStep
  <1>6. CASE UNCHANGED vars
    <2>1. /\ UNCHANGED Inputs
          /\ UNCHANGED <<pc, heap, err, items, room, cache, aux, answers, lost, calls>>
      BY <1>6 DEF vars, Inputs
    <2>2. InputInv' /\ Built' = Built /\ Given' = Given
      BY <2>1, InputsStay, BuiltStays DEF IInv
    <2>3. Asked' = Asked /\ Printed' = Printed
      BY <2>1 DEF Inputs, Asked, Printed, Holder
    <2>4. UseInv' /\ CacheInv' /\ AuxInv'
      BY <2>1, <2>2, <2>3 DEF Inputs, IInv, UseInv, CacheInv, AuxInv
    <2>5. UrlsInv'
      <3>1. \A j, h, v : UrlRight(j, h, v)' = UrlRight(j, h, v)
        BY <2>1, UrlsStay
      <3> QED
        BY <2>1, <3>1 DEF IInv, UrlsInv
    <2>6. AnswersInv'
      <3>1. \A key : ExtraNow(key)' = ExtraNow(key) /\
                     (NeverPrinted(key) => NeverPrinted(key)')
        BY <2>1, <2>2 DEF Inputs, ExtraNow, NeverPrinted
      <3> QED
        BY <2>1, <2>2, <3>1 DEF Inputs, IInv, AnswersInv, UrlAnswer, ExtraAnswer
    <2> QED
      BY <2>1, <2>2, <2>4, <2>5, <2>6 DEF IInv, ParseInv
  <1> QED
    BY <1>1, <1>2, <1>3, <1>4, <1>5, <1>6 DEF Next

(* So it holds throughout the life of a result.                            *)
LEMMA Invariance == Spec => []IInv
  BY InitIInv, NextIInv, PTL DEF Spec

-----------------------------------------------------------------------------
(* What follows.                                                           *)

(* The state is typed, no block that could not be allocated is ever in     *)
(* use, and a list refers to places of the wire.                           *)
THEOREM TypeCorrect == Spec => []TypeOK
  <1>1. IInv => TypeOK
    <2> SUFFICES ASSUME IInv PROVE TypeOK
      OBVIOUS
    <2>1. Sound(Built)
      BY BuiltIsSound DEF IInv
    <2>2. \A j \in DOMAIN items : items[j].entry \in 1 .. MaxEntries
      <3>1. CASE pc = "parse"
        <4>1. DOMAIN items = {}
          BY <3>1 DEF IInv, ParseInv
        <4> QED
          BY <4>1
      <3>2. CASE pc # "parse"
        BY <2>1, <3>2 DEF IInv, UseInv, Sound
      <3> QED
        BY <3>1, <3>2
    <2>3. err \in Errors /\ room \in Nat
      BY <2>1 DEF IInv, ParseInv, UseInv, Sound, Errors
    <2>4. heap \cap failed = {}
      <3>1. CASE pc = "use"
        <4>1. Built.blocks \cap failed = {}
          BY <2>1 DEF Sound
        <4>2. Asked \cap failed = {}
          <5>1. Asked \subseteq Unfailing
            BY DEF Asked, Unfailing, Holder, IInv, CacheInv
          <5> QED
            BY <5>1 DEF IInv, InputInv
        <4>3. Printed \cap failed = {}
          <5>1. Printed \subseteq Unfailing
            BY DEF Printed, Unfailing, Members, IInv, AuxInv
          <5> QED
            BY <5>1 DEF IInv, InputInv
        <4> QED
          BY <3>1, <4>1, <4>2, <4>3 DEF IInv, UseInv
      <3>2. CASE pc # "use"
        BY <3>2 DEF IInv, ParseInv, UseInv
      <3> QED
        BY <3>1, <3>2
    <2> QED
      BY <2>2, <2>3, <2>4 DEF TypeOK, IInv, InputInv, Kinds
  <1> QED
    BY <1>1, Invariance, PTL

(* No getter overwrites a block in use, a call that fails keeps nothing    *)
(* but its message, and freeing a result frees all of it.                  *)
THEOREM ResultIsOwned == Spec => []ResultOwned
  <1>1. IInv => ResultOwned
    BY OutIs DEF IInv, UseInv, ResultOwned
  <1> QED
    BY <1>1, Invariance, PTL

(* A call reports success exactly when the caller gets a result or nothing *)
(* was recognised, and an error for lack of memory or for a body that is   *)
(* not what it should be: a recognition's "result" that is no object is    *)
(* the one such body that is reported as the other.                        *)
THEOREM OutcomeIsHonest == Spec => []OutcomeHonest
  <1>1. IInv => OutcomeHonest
    <2> SUFFICES ASSUME IInv, pc = "use" PROVE OutcomeHonest
      BY DEF OutcomeHonest
    <2>1. Sound(Built) /\ err = Built.err
      BY BuiltIsSound DEF IInv, UseInv
    <2>2. /\ err = "OK" /\ ~NoMatch => \E out \in OutStructs : Out = {Self(out)}
          /\ NoMatch => err = "OK" /\ Out = {}
          /\ err # "OK" => Out = {}
      BY <2>1, OutIs DEF Given
    <2>3. (err = "OK") = (Out # {} \/ NoMatch)
      BY <2>2 DEF NoMatch
    <2>4. Cardinality(Out) <= 1
      <3>1. \A x : Cardinality({x}) = 1
        BY FS_Singleton
      <3>2. Cardinality({}) = 0
        BY FS_EmptySet
      <3>3. Out = {} \/ \E x : Out = {x}
        BY <2>2
      <3>4. Cardinality(Out) = 0 \/ Cardinality(Out) = 1
        BY <3>1, <3>2, <3>3
      <3> QED
        BY <3>4
    <2>5. err = "OUT_OF_MEMORY" =>
             \/ \E b \in failed : b[2] = 0 /\ b[3] \in {"self", "items"}
             \/ kind = "recognition" /\ wire.result = "other"
      BY <2>1 DEF Sound
    <2>6. err = "SERIALIZATION" => BadCallback
      BY <2>1 DEF Sound
    <2>7. ASSUME kind = "callback", err = "OK"
          PROVE  (Self("notification") \in heap) = wire.notification
      <3>1. /\ heap = Built.blocks /\ Built = audd_parse_callback(wire)
            /\ Built.err = "OK"
        BY <2>1, <2>7, NoGetters DEF Built
      <3>2. /\ wire.results \in Arrays /\ wire.notification \in BOOLEAN
        BY <2>7 DEF IInv, InputInv, Callbacks
      <3>3. BadBody.err # "OK" /\ Failure("INVALID_ARGUMENT").err # "OK" /\
            Failure("OUT_OF_MEMORY").err # "OK"
        BY BadBodyIs DEF Failure
      <3>4. CASE wire.notification
        <4>1. Built = Notification
          BY <3>1, <3>3, <3>4 DEF audd_parse_callback
        <4>2. Self("notification") \in heap
          BY <3>1, <3>3, <4>1, NotificationIs
        <4> QED
          BY <3>2, <3>4, <4>2
      <3>5. CASE ~wire.notification
        <4>1. wire.results # <<>> /\ Built = Match(wire.results)
          BY <3>1, <3>3, <3>5 DEF audd_parse_callback
        <4>2. heap \subseteq MatchBlocks(Len(wire.results) - 1)
          BY <3>1, <3>2, <3>3, <4>1, MatchIs
        <4>3. Self("notification") \notin heap
          BY <4>2 DEF MatchBlocks, Members, Self
        <4> QED
          BY <3>2, <3>5, <4>3
      <3> QED
        BY <3>4, <3>5
    <2> QED
      BY <2>2, <2>3, <2>4, <2>5, <2>6, <2>7 DEF OutcomeHonest, BadCallback
  <1> QED
    BY <1>1, Invariance, PTL

(* An integer that fits an int is not changed by the conversion to it.     *)
LEMMA AsIntIs ==
    ASSUME NEW v \in Int, -IntLimit <= v, v < IntLimit
    PROVE  AsInt(v) = v
  <1>1. IntLimit \in Nat \ {0}
    BY NumbersAssumption
  <1>2. v + IntLimit \in 0 .. (2 * IntLimit) - 1
    BY <1>1
  <1>3. \A n \in Nat \ {0} : \A x \in 0 .. n - 1 : x % n = x
    OBVIOUS
  <1>4. 2 * IntLimit \in Nat \ {0}
    BY <1>1
  <1>5. (v + IntLimit) % (2 * IntLimit) = v + IntLimit
    BY ONLY <1>2, <1>3, <1>4
  <1> QED
    BY ONLY <1>1, <1>5, v \in Int DEF AsInt

(* An enterprise match starts where its own chunk says: its offset as      *)
(* documented, and the milliseconds within it.                             *)
LEMMA StartIs ==
    ASSUME InputInv, kind = "enterprise", NEW i \in DOMAIN wire.chunks,
           HasSongs(wire.chunks[i]),
           NEW item, item.chunk = i, item.start = StartAt(wire, i)
    PROVE  StartRight(item)
  <1> DEFINE chunk == wire.chunks[i]
             offset == chunk.offset
             text == offset.text
             none == \/ offset.type \in {"absent", "container"}
                     \/ /\ offset.type \in {"number", "bool"}
                        /\ <<"offset", i, "text">> \in failed
             ms == IF wire.start.type \in {"number", "string", "bool"}
                   THEN wire.start.val ELSE 0
             base == BaseOf(chunk, i)
  <1>1. offset.type \in NodeTypes /\ text \in Seq(Tokens)
    <2>1. chunk \in AnyChunk /\ chunk # NoSongs
      BY DEF InputInv, HasSongs
    <2> HIDE DEF chunk
    <2>2. offset \in [type : NodeTypes, text : Seq(Tokens)]
      BY <2>1 DEF AnyChunk
    <2> QED
      BY <2>2
  <1>2. /\ wire.start.type \in NodeTypes /\ wire.start.val \in Int /\ ms \in Int
        /\ audd_json_get_int64(wire.start, 0) = ms
    BY DEF InputInv, audd_json_get_int64
  <1>3. base = IF none THEN Unknown ELSE audd_offset_to_seconds(text)
    <2>1. GivesText(offset.type, <<"offset", i, "text">> \notin failed) <=> ~none
      BY <1>1 DEF GivesText, NodeTypes
    <2> HIDE DEF none
    <2> QED
      BY <2>1 DEF BaseOf
  <1>4. item.start = IF base >= 0 THEN 1000 * base + AsInt(ms) ELSE 1000 * Unknown
    BY <1>2 DEF StartAt, StartSeconds, audd_json_get_int
  <1> SUFFICES ASSUME ~TooManyParts(text), -IntLimit <= ms, ms < IntLimit
               PROVE  IF none \/ Readings(text) = {}
                      THEN item.start = 1000 * Unknown
                      ELSE \E at \in Readings(text) :
                              item.start = 1000 * SecondsAt(text, at) + ms
    BY DEF StartRight
  <1>5. AsInt(ms) = ms
    BY <1>2, AsIntIs
  <1> HIDE DEF none, ms, base, text
  <1>6. ~(Unknown >= 0)
    BY DEF Unknown
  <1>7. CASE none
    BY <1>3, <1>4, <1>6, <1>7
  <1>8. CASE ~none /\ Readings(text) = {}
    BY <1>1, <1>3, <1>4, <1>6, <1>8, OnlyTimesAreRead
  <1>9. CASE ~none /\ Readings(text) # {}
    <2>1. PICK at \in Readings(text) : TRUE
      BY <1>9
    <2>2. base = SecondsAt(text, at) /\ base \in Nat
      BY <1>1, <1>3, <1>9, TimesAreRead
    <2>3. item.start = 1000 * base + ms
      BY <1>4, <1>5, <2>2
    <2> QED
      BY <1>9, <2>1, <2>2, <2>3
  <1> QED
    BY <1>7, <1>8, <1>9

(* A list holds the objects of its wire arrays, all of them, in order,     *)
(* without a hole, within the memory allocated for it, and an enterprise   *)
(* match starts where its own chunk says.                                  *)
THEOREM ListsAreInPlace == Spec => []ListsInPlace
  <1>1. IInv => ListsInPlace
    <2> SUFFICES ASSUME IInv, pc = "use", err = "OK", kind # "callback",
                        kind = "recognition" => room > 0
                 PROVE  /\ InPlace(items, WireObjects, room)
                        /\ kind = "enterprise" =>
                              \A j \in DOMAIN items : StartRight(items[j])
      BY DEF ListsInPlace, InPlace, InOrder
    <2>1. Built.err = "OK" /\ items = Built.items /\ room = Built.room
      BY DEF IInv, UseInv
    <2>2. CASE kind = "enterprise"
      <3> DEFINE w == wire
      <3>1. w.chunks \in Seq(AnyChunk)
        BY <2>2 DEF IInv, InputInv
      <3>2. /\ Matches(w) \in Seq(Items(w)) /\ InOrder(Matches(w))
            /\ Total(w) \in Nat /\ Len(Matches(w)) <= Total(w)
            /\ \A k \in DOMAIN Matches(w) :
                  LET x == Matches(w)[k]
                  IN  /\ x.chunk \in DOMAIN w.chunks
                      /\ x.entry \in DOMAIN SongsAt(w, x.chunk)
                      /\ SongsAt(w, x.chunk)[x.entry] = "object"
                      /\ x.start = StartAt(w, x.chunk)
            /\ \A i \in DOMAIN w.chunks : \A j \in DOMAIN SongsAt(w, i) :
                  SongsAt(w, i)[j] = "object" => IsAt(Matches(w), i, j)
        BY <3>1, MatchesAre
      <3>3. items = Matches(w) /\ room = Total(w)
        <4>1. Built = ListOf("enterprise", match_from_json, Total(w), Matches(w))
          BY <2>2 DEF Built, audd_enterprise_from_json
        <4>2. ListBuilt(Built, "enterprise", match_from_json, Total(w), Matches(w))
          BY ONLY <2>1, <3>2, <4>1, ListIsBuilt
        <4> QED
          BY <2>1, <4>2 DEF ListBuilt
      <3>4. WireObjects = UNION {ObjectsAt(i, SongsAt(w, i)) : i \in DOMAIN w.chunks}
        BY <2>2 DEF WireObjects, SongsAt
      <3> HIDE DEF w
      <3>5. ASSUME NEW k \in DOMAIN items
            PROVE  <<items[k].chunk, items[k].entry>> \in WireObjects
        <4> DEFINE x == items[k]
        <4>1. /\ x.chunk \in DOMAIN w.chunks
              /\ x.entry \in DOMAIN SongsAt(w, x.chunk)
              /\ SongsAt(w, x.chunk)[x.entry] = "object"
          BY <3>2, <3>3
        <4> HIDE DEF x
        <4>2. <<x.chunk, x.entry>> \in ObjectsAt(x.chunk, SongsAt(w, x.chunk))
          BY <4>1 DEF ObjectsAt
        <4> QED
          BY <3>4, <4>1, <4>2 DEF x
      <3>6. ASSUME NEW o \in WireObjects
            PROVE  \E k \in DOMAIN items : o = <<items[k].chunk, items[k].entry>>
        <4>1. PICK i \in DOMAIN w.chunks : o \in ObjectsAt(i, SongsAt(w, i))
          BY <3>4
        <4>2. PICK j \in DOMAIN SongsAt(w, i) :
                 SongsAt(w, i)[j] = "object" /\ o = <<i, j>>
          BY <4>1 DEF ObjectsAt
        <4> QED
          BY <3>2, <3>3, <4>2 DEF IsAt
      <3>7. {<<items[j].chunk, items[j].entry>> : j \in DOMAIN items} = WireObjects
        BY <3>5, <3>6
      <3>8. ASSUME NEW j \in DOMAIN items PROVE StartRight(items[j])
        <4> DEFINE x == items[j]
        <4>1. /\ x.chunk \in DOMAIN w.chunks
              /\ x.entry \in DOMAIN SongsAt(w, x.chunk)
              /\ x.start = StartAt(w, x.chunk)
          BY <3>2, <3>3
        <4> HIDE DEF x
        <4>2. HasSongs(w.chunks[x.chunk])
          <5>1. SongsAt(w, x.chunk) # <<>>
            BY <4>1
          <5> QED
            BY <5>1 DEF SongsAt, SongsOf
        <4>3. StartRight(x)
          BY <2>2, <4>1, <4>2, StartIs DEF w, IInv
        <4> QED
          BY <4>3 DEF x
      <3> QED
        BY <3>2, <3>3, <3>7, <3>8 DEF InPlace
    <2>3. ASSUME NEW struct, NEW ms, kind \in {"streams", "lyrics"},
                 Built = ListOf(struct, ms, Len(wire), Placed(wire))
          PROVE  InPlace(items, WireObjects, room)
      <3>1. wire \in Arrays /\ Len(wire) \in Nat
        BY <2>3, ArraysAre, BoundsAssumption DEF IInv, InputInv
      <3>2. InPlace(Placed(wire), ObjectsAt(1, wire), Len(wire))
        BY <3>1, PlacedAre
      <3>3. ListBuilt(Built, struct, ms, Len(wire), Placed(wire))
        BY ONLY <2>1, <2>3, <3>1, ListIsBuilt
      <3>4. items = Placed(wire) /\ room = Len(wire)
        BY <2>1, <3>3 DEF ListBuilt
      <3>5. WireObjects = ObjectsAt(1, wire)
        BY <2>3 DEF WireObjects
      <3> QED
        BY <3>2, <3>4, <3>5
    <2>4. CASE kind \in {"streams", "lyrics"}
      BY <2>3, <2>4 DEF Built, audd_streams_list, audd_advanced_find_lyrics
    <2>5. CASE kind = "recognition"
      <3> DEFINE mb == parse_musicbrainz(wire.musicbrainz)
      <3>1. wire.musicbrainz \in Arrays
        BY <2>5 DEF IInv, InputInv
      <3>2. Given
        <4>1. NoMatch => Built.room = 0
          BY <2>5, RecognizedIs DEF Failure
        <4> QED
          BY <2>1, <2>5, <4>1 DEF Given
      <3>4. Built.room = mb.room /\ Built.items = mb.items
        BY <2>5, <3>2, GivenIs DEF IInv
      <3>5. mb.room > 0 => InPlace(mb.items, ObjectsAt(1, wire.musicbrainz), mb.room)
        BY <3>1, MusicbrainzIs
      <3> HIDE DEF mb
      <3> QED
        BY <2>1, <2>5, <3>4, <3>5 DEF WireObjects
    <2> QED
      BY <2>2, <2>4, <2>5 DEF IInv, InputInv, Kinds
  <1> QED
    BY <1>1, Invariance, PTL

(* A getter answers what the metadata and the song link call for, the same *)
(* on every call that does not run out of memory, and what it answered     *)
(* stays allocated.                                                        *)
THEOREM AnswersAreTrue == Spec => []AnswersTrue
  <1>1. IInv => AnswersTrue
    <2> SUFFICES ASSUME IInv PROVE AnswersTrue
      OBVIOUS
    <2>1. UrlGetters \cap ExtraKeys = {}
      BY DEF UrlGetters, Providers, ExtraKeys
    <2>2. ASSUME NEW x \in answers, NEW y \in answers,
                 x[1] = y[1], x[2] = y[2], x[4] = y[4]
          PROVE  x[3] = y[3]
      <3>1. CASE x[2] \in ExtraKeys
        <4>1. ExtraAnswer(x) /\ ExtraAnswer(y)
          BY <2>1, <2>2, <3>1 DEF IInv, AnswersInv, UrlAnswer
        <4> QED
          BY <2>2, <4>1 DEF ExtraAnswer
      <3>2. CASE x[2] \notin ExtraKeys
        <4>1. UrlAnswer(x) /\ UrlAnswer(y)
          BY <2>2, <3>2 DEF IInv, AnswersInv
        <4> QED
          BY <2>2, <4>1 DEF UrlAnswer
      <3> QED
        BY <3>1, <3>2
    <2>3. ASSUME NEW x \in answers, x[2] \in ExtraKeys
          PROVE  \/ x[2] \in {"long_a", "long_b"}
                 \/ x[3] = <<x[2]>> /\ x[2] \notin TypedKeys /\ ~x[4]
                 \/ /\ x[3] = NoUrl
                    /\ x[2] \in TypedKeys \/ x[4] \/ RawBlock \in failed
      <3>1. kind = "recognition" /\ Given /\ ExtraAnswer(x)
        BY <2>1, <2>3 DEF IInv, AnswersInv, UrlAnswer
      <3>2. CASE x[4] = TRUE /\ x[3] = NoUrl
        BY <3>2
      <3> SUFFICES ASSUME x[4] = FALSE, x[3] = ExtraNow(x[2]),
                          AuxKey(x[2]) \notin DOMAIN aux => NeverPrinted(x[2])
                   PROVE  \/ x[2] \in {"long_a", "long_b"}
                          \/ x[3] = <<x[2]>> /\ x[2] \notin TypedKeys
                          \/ /\ x[3] = NoUrl
                             /\ x[2] \in TypedKeys \/ RawBlock \in failed
        BY <3>1, <3>2 DEF ExtraAnswer
      <3>3. CASE x[2] = "artist"
        BY <3>3 DEF ExtraNow, TypedKeys
      <3>4. CASE x[2] = "genre"
        <4>1. AuxKey(x[2]) = "genre" /\ x[2] \notin TypedKeys
          BY <3>4 DEF AuxKey, TypedKeys
        <4>2. CASE "genre" \in DOMAIN aux
          <5>1. x[3] = <<aux["genre"]>>
            BY <4>1, <4>2 DEF ExtraNow
          <5>2. aux["genre"] = "genre"
            BY <4>2 DEF IInv, AuxInv
          <5> QED
            BY <3>4, <4>1, <5>1, <5>2
        <4>3. CASE "genre" \notin DOMAIN aux
          <5>1. NeverPrinted(x[2]) /\ x[3] = NoUrl
            BY <4>1, <4>3 DEF ExtraNow
          <5>2. RawBlock \in failed
            BY <3>1, <4>1, <5>1, RawIs DEF NeverPrinted, IInv
          <5> QED
            BY <5>1, <5>2
        <4> QED
          BY <4>2, <4>3
      <3> QED
        BY <2>3, <3>3, <3>4 DEF ExtraKeys
    <2>4. ASSUME NEW x \in answers, x[2] \notin ExtraKeys
          PROVE  /\ UrlRight(x[1], x[2], x[3])
                 /\ pc = "use" /\ x[3] # NoUrl => <<Holder, x[1], x[2]>> \in heap
      <3> DEFINE k == <<x[1], x[2]>>
      <3>1. k \in DOMAIN cache /\ x[3] = cache[k]
        BY <2>4 DEF IInv, AnswersInv, UrlAnswer
      <3>2. UrlRight(x[1], x[2], x[3])
        BY <3>1 DEF IInv, UrlsInv
      <3>3. x[3] # NoUrl => <<Holder, x[1], x[2]>> \in Asked
        BY <3>1 DEF Asked
      <3> QED
        BY <3>2, <3>3 DEF IInv, UseInv
    <2> QED
      BY <2>2, <2>3, <2>4 DEF AnswersTrue, UrlRight, RawBlock
  <1> QED
    BY <1>1, Invariance, PTL
=============================================================================
