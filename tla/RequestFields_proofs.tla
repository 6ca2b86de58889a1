------------------------- MODULE RequestFields_proofs -------------------------
(***************************************************************************)
(* Proofs about RequestFields, for any number of attempts and extras and   *)
(* URLs of any length.                                                     *)
(***************************************************************************)
EXTENDS RequestFields, FiniteSetTheorems, Iteration, TLAPS

(* What a call asks, from the moment its attempts begin: a recognition     *)
(* builds this list in each of them, a stream call has built it before.    *)
Question ==
    IF call \in Recognitions
    THEN audd_build_recognize_fields(call, params, extras,
                                     audd_recognize_fields_capacity(extras))
    ELSE fields

QuestionInv ==
    /\ pc \in {"start", "list"} => requests = <<>>
    /\ requests \in Seq({Question})

-----------------------------------------------------------------------------
(* What the list building helpers return, for lists of any length.         *)

(* The indexes up to n of what is chosen, and how many they are.           *)
Places(s, set, n) == {i \in 1 .. n : s[i] \in set}
Place(s, set, n) == Cardinality(Places(s, set, n))

(* Counting goes up by one at each element that is chosen.                 *)
LEMMA Counting ==
    ASSUME NEW s, NEW set
    PROVE  /\ Place(s, set, 0) = 0
           /\ \A n \in Nat : IsFiniteSet(Places(s, set, n)) /\ Place(s, set, n) \in Nat
           /\ \A n \in Nat \ {0} :
                 Place(s, set, n) = Place(s, set, n - 1)
                                    + (IF s[n] \in set THEN 1 ELSE 0)
  <1>1. ASSUME NEW n \in Nat
        PROVE  IsFiniteSet(Places(s, set, n)) /\ Place(s, set, n) \in Nat
    <2>1. IsFiniteSet(1 .. n)
      BY FS_Interval
    <2>2. Places(s, set, n) \subseteq 1 .. n
      BY DEF Places
    <2>3. IsFiniteSet(Places(s, set, n))
      BY <2>1, <2>2, FS_Subset
    <2> QED
      BY <2>3, FS_CardinalityType DEF Place
  <1>2. Place(s, set, 0) = 0
    <2>1. Places(s, set, 0) = {}
      BY DEF Places
    <2> QED
      BY <2>1, FS_EmptySet DEF Place
  <1>3. ASSUME NEW n \in Nat \ {0}
        PROVE  Place(s, set, n) = Place(s, set, n - 1)
                                  + (IF s[n] \in set THEN 1 ELSE 0)
    <2>1. n - 1 \in Nat /\ IsFiniteSet(Places(s, set, n - 1))
      BY <1>1
    <2>2. CASE s[n] \in set
      <3>1. /\ Places(s, set, n) = Places(s, set, n - 1) \cup {n}
            /\ n \notin Places(s, set, n - 1)
        BY <2>2 DEF Places
      <3> QED
        BY <2>1, <2>2, <3>1, FS_AddElement DEF Place
    <2>3. CASE s[n] \notin set
      <3>1. Places(s, set, n) = Places(s, set, n - 1)
        BY <2>3 DEF Places
      <3>2. Place(s, set, n - 1) \in Nat
        BY <1>1, <2>1
      <3> QED
        BY <2>3, <3>1, <3>2 DEF Place
    <2> QED
      BY <2>2, <2>3
  <1> QED
    BY <1>1, <1>2, <1>3

(* r has the elements of the first n of s that are in set, each in the     *)
(* place that counting gives it.                                           *)
HasChosen(r, s, set, n) ==
    /\ Len(r) = Place(s, set, n)
    /\ \A i \in Places(s, set, n) :
          Place(s, set, i) \in 1 .. Len(r) /\ r[Place(s, set, i)] = s[i]
    /\ \A m \in 1 .. Len(r) : \E i \in Places(s, set, n) : Place(s, set, i) = m

(* One more element keeps it so.                                           *)
LEMMA OneMoreChosen ==
    ASSUME NEW V, NEW s \in Seq(V), NEW set, NEW n \in 1 .. Len(s),
           NEW r \in Seq(V), HasChosen(r, s, set, n - 1)
    PROVE  HasChosen(IF s[n] \in set THEN Append(r, s[n]) ELSE r, s, set, n)
  <1>1. Len(r) = Place(s, set, n - 1) /\ Len(r) \in Nat
    BY DEF HasChosen
  <1>2. Place(s, set, n) = Place(s, set, n - 1)
                           + (IF s[n] \in set THEN 1 ELSE 0)
    <2>1. n \in Nat \ {0}
      OBVIOUS
    <2>2. \A k \in Nat \ {0} :
             Place(s, set, k) = Place(s, set, k - 1)
                                + (IF s[k] \in set THEN 1 ELSE 0)
      BY Counting
    <2> QED
      BY ONLY <2>1, <2>2
  <1>3. \A i \in Places(s, set, n - 1) :
           Place(s, set, i) \in 1 .. Len(r) /\ r[Place(s, set, i)] = s[i]
    BY DEF HasChosen
  <1>4. \A m \in 1 .. Len(r) :
           \E i \in Places(s, set, n - 1) : Place(s, set, i) = m
    BY DEF HasChosen
  <1>5. CASE s[n] \in set
    <2> DEFINE q == Append(r, s[n])
    <2>1. Places(s, set, n) = Places(s, set, n - 1) \cup {n}
      BY <1>5 DEF Places
    <2>2. /\ Len(q) = Len(r) + 1 /\ q[Len(r) + 1] = s[n]
          /\ \A m \in 1 .. Len(r) : q[m] = r[m]
      OBVIOUS
    <2>3. Place(s, set, n) = Len(q)
      BY <1>1, <1>2, <1>5, <2>2
    <2> HIDE DEF q
    <2>4. ASSUME NEW i \in Places(s, set, n)
          PROVE  Place(s, set, i) \in 1 .. Len(q) /\ q[Place(s, set, i)] = s[i]
      <3>1. CASE i \in Places(s, set, n - 1)
        BY <1>1, <1>3, <2>2, <3>1
      <3>2. CASE i = n
        BY <1>1, <2>2, <2>3, <3>2
      <3> QED
        BY <2>1, <3>1, <3>2
    <2>5. ASSUME NEW m \in 1 .. Len(q)
          PROVE  \E i \in Places(s, set, n) : Place(s, set, i) = m
      <3>1. CASE m \in 1 .. Len(r)
        BY <1>4, <2>1, <3>1
      <3>2. CASE m = Len(r) + 1
        BY <2>1, <2>2, <2>3, <3>2
      <3> QED
        BY <1>1, <2>2, <3>1, <3>2
    <2>6. HasChosen(q, s, set, n)
      BY <2>3, <2>4, <2>5 DEF HasChosen
    <2> QED
      BY <1>5, <2>6 DEF q
  <1>6. CASE s[n] \notin set
    <2>1. Places(s, set, n) = Places(s, set, n - 1)
      BY <1>6 DEF Places
    <2>2. Place(s, set, n) = Len(r)
      BY <1>1, <1>2, <1>6
    <2>3. HasChosen(r, s, set, n)
      BY <1>3, <1>4, <2>1, <2>2 DEF HasChosen
    <2> QED
      BY <1>6, <2>3
  <1> QED
    BY <1>5, <1>6

(* The elements are chosen in the order they have.                         *)
LEMMA ChosenIsRight ==
    ASSUME NEW V, NEW s \in Seq(V), NEW set
    PROVE  /\ Chosen(s, set) \in Seq(V)
           /\ HasChosen(Chosen(s, set), s, set, Len(s))
  <1> DEFINE N == Len(s)
             step == [p \in (1 .. N) \X Seq(V) |->
                        IF s[p[1]] \in set THEN Append(p[2], s[p[1]]) ELSE p[2]]
             rule(u) == u = [n \in 0 .. N |->
                                  CASE n = 0 -> <<>>
                                    [] n > 0 /\ s[n] \in set -> Append(u[n - 1], s[n])
                                    [] OTHER -> u[n - 1]]
             upto == CHOOSE u : rule(u)
  <1>1. N \in Nat
    OBVIOUS
  <1>2. step \in [(1 .. N) \X Seq(V) -> Seq(V)]
    OBVIOUS
  <1>3. Iterable(N, Seq(V), <<>>, step)
    <2>1. <<>> \in Seq(V)
      OBVIOUS
    <2> HIDE DEF N, step
    <2> QED
      BY ONLY <1>1, <1>2, <2>1, Iterates
  <1>4. \E u : rule(u)
    <2>1. PICK u \in [0 .. N -> Seq(V)] :
             u[0] = <<>> /\ \A n \in 1 .. N : u[n] = step[<<n, u[n - 1]>>]
      BY <1>3 DEF Iterable
    <2> DEFINE w == [n \in 0 .. N |->
                                  CASE n = 0 -> <<>>
                                    [] n > 0 /\ s[n] \in set -> Append(u[n - 1], s[n])
                                    [] OTHER -> u[n - 1]]
    <2>2. ASSUME NEW n \in 0 .. N PROVE u[n] = w[n]
      <3>1. CASE n = 0
        BY <2>1, <3>1
      <3>2. CASE n \in 1 .. N
        <4>1. u[n] = step[<<n, u[n - 1]>>] /\ u[n - 1] \in Seq(V)
          <5>1. n - 1 \in 0 .. N
            BY <1>1, <3>2
          <5> HIDE DEF N, step
          <5> QED
            BY <2>1, <3>2, <5>1
        <4>2. u[n] = IF s[n] \in set THEN Append(u[n - 1], s[n]) ELSE u[n - 1]
          BY <3>2, <4>1
        <4> QED
          BY <3>2, <4>2
      <3> QED
        BY <3>1, <3>2
    <2>3. u = w
      BY <2>1, <2>2
    <2> QED
      BY <2>3
  <1>5. rule(upto)
    <2> HIDE DEF rule
    <2> QED
      BY <1>4
  <1>6. /\ upto[0] = <<>>
        /\ \A n \in 1 .. N : upto[n] = IF s[n] \in set
                                       THEN Append(upto[n - 1], s[n])
                                       ELSE upto[n - 1]
    <2> HIDE DEF upto
    <2>1. upto[0] = <<>>
      BY <1>1, <1>5
    <2>2. ASSUME NEW n \in 1 .. N
          PROVE  upto[n] = IF s[n] \in set THEN Append(upto[n - 1], s[n])
                                           ELSE upto[n - 1]
      <3>1. n \in 0 .. N /\ n > 0
        BY <1>1
      <3>2. upto[n] = CASE n = 0 -> <<>>
                        [] n > 0 /\ s[n] \in set -> Append(upto[n - 1], s[n])
                        [] OTHER -> upto[n - 1]
        <4> HIDE DEF N
        <4> QED
          BY <1>5, <3>1
      <3> QED
        BY <3>1, <3>2
    <2> QED
      BY <2>1, <2>2
  <1>7. Chosen(s, set) = upto[N]
    BY DEF Chosen
  <1> HIDE DEF upto
  <1> DEFINE Right(n) == upto[n] \in Seq(V) /\ HasChosen(upto[n], s, set, n)
             T == {n \in Nat : n <= N => Right(n)}
  <1>8. 0 \in T
    <2>1. <<>> \in Seq(V)
      OBVIOUS
    <2>2. HasChosen(<<>>, s, set, 0)
      BY Counting DEF HasChosen, Places
    <2> QED
      BY <1>6, <2>1, <2>2
  <1>9. ASSUME NEW n \in Nat, n \in T PROVE n + 1 \in T
    <2> SUFFICES ASSUME n + 1 <= N PROVE Right(n + 1)
      OBVIOUS
    <2>1. Right(n) /\ n + 1 \in 1 .. N /\ (n + 1) - 1 = n
      BY <1>1, <1>9
    <2>2. upto[n + 1] = IF s[n + 1] \in set THEN Append(upto[n], s[n + 1])
                                            ELSE upto[n]
      BY <1>6, <2>1
    <2>3. s[n + 1] \in V
      BY <2>1
    <2>4. upto[n + 1] \in Seq(V)
      BY <2>1, <2>2, <2>3
    <2> DEFINE k == n + 1
    <2>5. k \in 1 .. Len(s) /\ upto[n] \in Seq(V)
          /\ HasChosen(upto[n], s, set, k - 1)
      BY <2>1
    <2> HIDE DEF k
    <2>6. HasChosen(IF s[k] \in set THEN Append(upto[n], s[k])
                                    ELSE upto[n], s, set, k)
      BY ONLY <2>5, s \in Seq(V), OneMoreChosen
    <2> QED
      BY <2>2, <2>4, <2>6 DEF k
  <1>10. Right(N)
    <2> HIDE DEF T
    <2>1. Nat \subseteq T
      BY ONLY <1>8, <1>9, AllOfThem
    <2>2. N \in T
      BY <1>1, <2>1
    <2> HIDE DEF Right
    <2> QED
      BY <1>1, <2>2 DEF T
  <1> QED
    BY <1>7, <1>10

(* A function on 1 .. n is a sequence.                                     *)
LEMMA IsASeq ==
    ASSUME NEW S, NEW n \in Nat, NEW f \in [1 .. n -> S]
    PROVE  f \in Seq(S)
  OBVIOUS

(* Not more is chosen than there is.                                       *)
LEMMA NotMoreChosen ==
    ASSUME NEW V, NEW s \in Seq(V), NEW set
    PROVE  Len(Chosen(s, set)) <= Len(s)
  <1>1. Len(Chosen(s, set)) = Place(s, set, Len(s))
    BY ChosenIsRight DEF HasChosen
  <1>2. IsFiniteSet(1 .. Len(s)) /\ Cardinality(1 .. Len(s)) = Len(s)
    <2>1. 1 \in Int /\ Len(s) \in Nat
      OBVIOUS
    <2> QED
      BY <2>1, FS_Interval
  <1>3. Places(s, set, Len(s)) \subseteq 1 .. Len(s)
    BY DEF Places
  <1>4. Cardinality(Places(s, set, Len(s))) <= Cardinality(1 .. Len(s))
    BY <1>2, <1>3, FS_Subset
  <1> QED
    BY <1>1, <1>2, <1>4 DEF Place

(* No call has a typed key twice, and none has more than the nine that the *)
(* capacity of a recognition's list is for.                                *)
LEMMA TypedKeysAre ==
    ASSUME NEW c \in Calls
    PROVE  /\ TypedKeys(c) \in Seq(Keys(c))
           /\ Len(TypedKeys(c)) <= 9
           /\ c = "audd_streams_set_callback_url" => Len(TypedKeys(c)) = 1
           /\ c = "audd_streams_add" => Len(TypedKeys(c)) = 3
           /\ \A i, j \in 1 .. Len(TypedKeys(c)) :
                 TypedKeys(c)[i] = TypedKeys(c)[j] => i = j
  <1>1. CASE c = "audd_recognize"
    <2> DEFINE s == <<"return", "market", "url">>
    <2>1. TypedKeys(c) = s
      BY <1>1 DEF TypedKeys
    <2>2. s \in Seq({s[i] : i \in DOMAIN s})
      OBVIOUS
    <2>3. \A i, j \in 1 .. Len(s) : s[i] = s[j] => i = j
      OBVIOUS
    <2>4. Len(s) = 3
      OBVIOUS
    <2> HIDE DEF s
    <2>5. TypedKeys(c) \in Seq(Keys(c))
      BY <2>1, <2>2 DEF Keys
    <2>6. \A i, j \in 1 .. Len(TypedKeys(c)) :
             TypedKeys(c)[i] = TypedKeys(c)[j] => i = j
      BY <2>1, <2>3
    <2>7. Len(TypedKeys(c)) = Len(s)
      BY <2>1
    <2> QED
      BY <1>1, <2>4, <2>5, <2>6, <2>7
  <1>2. CASE c = "audd_recognize_enterprise"
    <2> DEFINE s == <<"skip", "every", "limit", "skip_first_seconds",
            "use_timecode", "accurate_offsets", "return", "url">>
    <2>1. TypedKeys(c) = s
      BY <1>2 DEF TypedKeys
    <2>2. s \in Seq({s[i] : i \in DOMAIN s})
      OBVIOUS
    <2>3. \A i, j \in 1 .. Len(s) : s[i] = s[j] => i = j
      OBVIOUS
    <2>4. Len(s) = 8
      OBVIOUS
    <2> HIDE DEF s
    <2>5. TypedKeys(c) \in Seq(Keys(c))
      BY <2>1, <2>2 DEF Keys
    <2>6. \A i, j \in 1 .. Len(TypedKeys(c)) :
             TypedKeys(c)[i] = TypedKeys(c)[j] => i = j
      BY <2>1, <2>3
    <2>7. Len(TypedKeys(c)) = Len(s)
      BY <2>1
    <2> QED
      BY <1>2, <2>4, <2>5, <2>6, <2>7
  <1>3. CASE c = "audd_streams_set_callback_url"
    <2> DEFINE s == <<"url">>
    <2>1. TypedKeys(c) = s
      BY <1>3 DEF TypedKeys
    <2>2. s \in Seq({s[i] : i \in DOMAIN s})
      OBVIOUS
    <2>3. \A i, j \in 1 .. Len(s) : s[i] = s[j] => i = j
      OBVIOUS
    <2>4. Len(s) = 1
      OBVIOUS
    <2> HIDE DEF s
    <2>5. TypedKeys(c) \in Seq(Keys(c))
      BY <2>1, <2>2 DEF Keys
    <2>6. \A i, j \in 1 .. Len(TypedKeys(c)) :
             TypedKeys(c)[i] = TypedKeys(c)[j] => i = j
      BY <2>1, <2>3
    <2>7. Len(TypedKeys(c)) = Len(s)
      BY <2>1
    <2> QED
      BY <1>3, <2>4, <2>5, <2>6, <2>7
  <1>4. CASE c = "audd_streams_add"
    <2> DEFINE s == <<"url", "radio_id", "callbacks">>
    <2>1. TypedKeys(c) = s
      BY <1>4 DEF TypedKeys
    <2>2. s \in Seq({s[i] : i \in DOMAIN s})
      OBVIOUS
    <2>3. \A i, j \in 1 .. Len(s) : s[i] = s[j] => i = j
      OBVIOUS
    <2>4. Len(s) = 3
      OBVIOUS
    <2> HIDE DEF s
    <2>5. TypedKeys(c) \in Seq(Keys(c))
      BY <2>1, <2>2 DEF Keys
    <2>6. \A i, j \in 1 .. Len(TypedKeys(c)) :
             TypedKeys(c)[i] = TypedKeys(c)[j] => i = j
      BY <2>1, <2>3
    <2>7. Len(TypedKeys(c)) = Len(s)
      BY <2>1
    <2> QED
      BY <1>4, <2>4, <2>5, <2>6, <2>7
  <1> QED
    BY <1>1, <1>2, <1>3, <1>4 DEF Calls, Recognitions

(* A typed field for each parameter of the call that is set, and one only. *)
LEMMA TypedFieldsAre ==
    ASSUME NEW c \in Calls, NEW typed
    PROVE  /\ TypedFields(c, typed) \in Seq(Field(c))
           /\ Len(TypedFields(c, typed)) <= Len(TypedKeys(c))
           /\ \A m \in 1 .. Len(TypedFields(c, typed)) :
                 TypedFields(c, typed)[m].from = "typed"
           /\ \A k \in typed \cap Keys(c) :
                 \E m \in 1 .. Len(TypedFields(c, typed)) :
                    TypedFields(c, typed)[m] = Typed(k)
           /\ \A m, n \in 1 .. Len(TypedFields(c, typed)) :
                 TypedFields(c, typed)[m].key = TypedFields(c, typed)[n].key
                    => m = n
  <1> DEFINE s == TypedKeys(c)
             r == Chosen(s, typed)
             f == TypedFields(c, typed)
  <1>1. /\ s \in Seq(Keys(c)) /\ Len(s) \in Nat
        /\ \A i, j \in 1 .. Len(s) : s[i] = s[j] => i = j
    BY TypedKeysAre
  <1>2. r \in Seq(Keys(c)) /\ HasChosen(r, s, typed, Len(s))
    <2> HIDE DEF s
    <2> QED
      BY <1>1, ChosenIsRight
  <1>3. Len(r) <= Len(s)
    <2> HIDE DEF s
    <2> QED
      BY <1>1, NotMoreChosen
  <1>4. f = [i \in DOMAIN r |-> Typed(r[i])]
    BY DEF TypedFields
  <1> HIDE DEF s, r, f
  <1>5. f \in [1 .. Len(r) -> Field(c)] /\ Len(r) \in Nat
    BY <1>2, <1>4 DEF Typed, Field
  <1>6. f \in Seq(Field(c))
    BY <1>5, IsASeq
  <1>7. Len(f) = Len(r)
    BY <1>5, <1>6
  <1>8. \A m \in 1 .. Len(f) :
           f[m] = Typed(r[m]) /\ f[m].key = r[m] /\ f[m].from = "typed"
    BY <1>2, <1>4, <1>7 DEF Typed
  <1>9. \A m \in 1 .. Len(r) : \E i \in Places(s, typed, Len(s)) :
           r[m] = s[i] /\ Place(s, typed, i) = m
    BY <1>2 DEF HasChosen
  <1>10. ASSUME NEW k \in typed \cap Keys(c)
         PROVE  \E m \in 1 .. Len(f) : f[m] = Typed(k)
    <2>1. PICK i \in 1 .. Len(s) : s[i] = k
      BY <1>1 DEF Keys, s
    <2>2. i \in Places(s, typed, Len(s))
      BY <2>1 DEF Places
    <2>3. Place(s, typed, i) \in 1 .. Len(r) /\ r[Place(s, typed, i)] = k
      BY <1>2, <2>1, <2>2 DEF HasChosen
    <2> QED
      BY <1>7, <1>8, <2>3
  <1>11. ASSUME NEW m \in 1 .. Len(f), NEW n \in 1 .. Len(f), f[m].key = f[n].key
         PROVE  m = n
    <2>1. r[m] = r[n]
      BY <1>8, <1>11
    <2>2. PICK i \in Places(s, typed, Len(s)) :
             r[m] = s[i] /\ Place(s, typed, i) = m
      BY <1>7, <1>9
    <2>3. PICK j \in Places(s, typed, Len(s)) :
             r[n] = s[j] /\ Place(s, typed, j) = n
      BY <1>7, <1>9
    <2>4. i = j
      BY <1>1, <2>1, <2>2, <2>3 DEF Places
    <2> QED
      BY <2>2, <2>3, <2>4
  <1> QED
    BY <1>3, <1>6, <1>7, <1>8, <1>10, <1>11 DEF f, s

(* An extra field for each key.                                            *)
LEMMA ExtraFieldsAre ==
    ASSUME NEW c \in Calls, NEW keys \in Seq(ExtraKeys(c))
    PROVE  /\ ExtraFields(keys) \in Seq(Field(c))
           /\ Len(ExtraFields(keys)) = Len(keys)
           /\ \A i \in 1 .. Len(keys) : ExtraFields(keys)[i] = Extra(keys[i])
  <1> DEFINE e == ExtraFields(keys)
  <1>1. e = [i \in 1 .. Len(keys) |-> Extra(keys[i])] /\ Len(keys) \in Nat
    BY DEF ExtraFields
  <1> HIDE DEF e
  <1>2. e \in [1 .. Len(keys) -> Field(c)]
    BY <1>1 DEF Extra, Field
  <1>3. e \in Seq(Field(c))
    BY <1>1, <1>2, IsASeq
  <1>4. Len(e) = Len(keys)
    BY <1>1, <1>2, <1>3
  <1> QED
    BY <1>1, <1>3, <1>4 DEF e

(* With the capacity that audd_recognize_fields_capacity gives there is    *)
(* room for every extra that is not shadowed.                              *)
LEMMA NoExtraIsCut ==
    ASSUME NEW V, NEW pairs \in Seq(V), NEW typed
    PROVE  KeptExtras(typed, pairs, audd_recognize_fields_capacity(pairs))
           = Chosen(pairs, {pairs[i] : i \in DOMAIN pairs} \ typed)
  <1> DEFINE r == Chosen(pairs, {pairs[i] : i \in DOMAIN pairs} \ typed)
             cap == audd_recognize_fields_capacity(pairs)
  <1>1. r \in Seq(V) /\ Len(r) <= Len(pairs)
    BY ChosenIsRight, NotMoreChosen
  <1>2. (cap - 1) \div 2 = Len(pairs) + 9
    <2>1. cap - 1 = 2 * (Len(pairs) + 9) /\ Len(pairs) \in Nat
      BY DEF audd_recognize_fields_capacity
    <2>2. \A k \in Nat : (2 * k) \div 2 = k
      OBVIOUS
    <2>3. Len(pairs) + 9 \in Nat
      BY <2>1
    <2> HIDE DEF cap
    <2> QED
      BY <2>1, <2>2, <2>3
  <1>3. KeptExtras(typed, pairs, cap)
        = SubSeq(r, 1, IF Len(r) < (cap - 1) \div 2 THEN Len(r)
                       ELSE (cap - 1) \div 2)
    BY DEF KeptExtras
  <1> HIDE DEF r, cap
  <1>4. KeptExtras(typed, pairs, cap) = SubSeq(r, 1, Len(r))
    BY <1>1, <1>2, <1>3
  <1>5. SubSeq(r, 1, Len(r)) = r
    BY <1>1
  <1> QED
    BY <1>4, <1>5 DEF r, cap

-----------------------------------------------------------------------------
(* The lists the calls send.                                               *)

(* What a call builds from its parameters and extras, in an attempt or     *)
(* before the first one, and the capacity it has for that.                 *)
Built(c, typed, pairs) ==
    IF c \in Recognitions
    THEN audd_build_recognize_fields(c, typed, pairs,
                                     audd_recognize_fields_capacity(pairs))
    ELSE StreamFields(c, typed, pairs)

Room(c, pairs) == IF c \in Recognitions THEN audd_recognize_fields_capacity(pairs)
                                        ELSE StreamCapacity(c, pairs)

(* Where the elements of two sequences are when they are joined.           *)
LEMMA Joined ==
    ASSUME NEW S, NEW a \in Seq(S), NEW b \in Seq(S)
    PROVE  /\ a \o b \in Seq(S)
           /\ Len(a \o b) = Len(a) + Len(b)
           /\ \A m \in 1 .. Len(a) : (a \o b)[m] = a[m]
           /\ \A m \in 1 .. Len(b) : (a \o b)[Len(a) + m] = b[m]
  OBVIOUS

(* Every list fits the capacity it was allocated with.                     *)
LEMMA BuiltFits ==
    ASSUME NEW c \in Calls, NEW typed, NEW pairs \in Seq(ExtraKeys(c))
    PROVE  /\ Built(c, typed, pairs) \in Seq(Field(c))
           /\ Slots(Built(c, typed, pairs)) <= Room(c, pairs)
  <1> DEFINE f == TypedFields(c, typed)
             kept == Chosen(pairs, {pairs[i] : i \in DOMAIN pairs} \ typed)
  <1>1. f \in Seq(Field(c)) /\ Len(f) <= Len(TypedKeys(c)) /\ Len(f) \in Nat
    BY TypedFieldsAre
  <1>2. /\ TypedKeys(c) \in Seq(Keys(c)) /\ Len(TypedKeys(c)) <= 9
        /\ c = "audd_streams_set_callback_url" => Len(TypedKeys(c)) = 1
        /\ c = "audd_streams_add" => Len(TypedKeys(c)) = 3
    BY TypedKeysAre
  <1>3. Len(TypedKeys(c)) \in Nat
    BY <1>2
  <1>4. kept \in Seq(ExtraKeys(c)) /\ Len(kept) <= Len(pairs)
    BY ChosenIsRight, NotMoreChosen
  <1> HIDE DEF f, kept
  <1>5. CASE c \in Recognitions
    <2>1. /\ ExtraFields(kept) \in Seq(Field(c))
          /\ Len(ExtraFields(kept)) = Len(kept)
      BY <1>4, ExtraFieldsAre
    <2>2. Built(c, typed, pairs) = ExtraFields(kept) \o f
      BY <1>5, NoExtraIsCut
         DEF Built, audd_build_recognize_fields, collect_typed_keys, f, kept
    <2>3. /\ Built(c, typed, pairs) \in Seq(Field(c))
          /\ Len(Built(c, typed, pairs)) = Len(kept) + Len(f)
      <3>1. /\ ExtraFields(kept) \o f \in Seq(Field(c))
            /\ Len(ExtraFields(kept) \o f) = Len(ExtraFields(kept)) + Len(f)
        BY ONLY <1>1, <2>1, Joined
      <3> QED
        BY ONLY <2>1, <2>2, <3>1
    <2>4. Len(kept) + Len(f) <= Len(pairs) + 9
      <3>1. Len(kept) \in Nat /\ Len(pairs) \in Nat
        BY <1>4
      <3> QED
        BY <1>1, <1>2, <1>3, <1>4, <3>1
    <2>5. Room(c, pairs) = 2 * (Len(pairs) + 9) + 1
      BY <1>5 DEF Room, audd_recognize_fields_capacity
    <2>6. Len(kept) + Len(f) \in Nat /\ Len(pairs) + 9 \in Nat
      BY <1>1, <1>4
    <2> QED
      BY <2>3, <2>4, <2>5, <2>6 DEF Slots
  <1>6. CASE c \notin Recognitions
    <2>1. /\ ExtraFields(pairs) \in Seq(Field(c))
          /\ Len(ExtraFields(pairs)) = Len(pairs)
      BY ExtraFieldsAre
    <2>2. Built(c, typed, pairs) = ExtraFields(pairs) \o f
      BY <1>6 DEF Built, StreamFields, f
    <2>3. /\ Built(c, typed, pairs) \in Seq(Field(c))
          /\ Len(Built(c, typed, pairs)) = Len(pairs) + Len(f)
      <3>1. /\ ExtraFields(pairs) \o f \in Seq(Field(c))
            /\ Len(ExtraFields(pairs) \o f) = Len(ExtraFields(pairs)) + Len(f)
        BY ONLY <1>1, <2>1, Joined
      <3> QED
        BY ONLY <2>1, <2>2, <3>1
    <2>4. Len(pairs) \in Nat
      OBVIOUS
    <2>5. Room(c, pairs) = Len(pairs) * 2 + 2 * Len(TypedKeys(c)) + 1
      <3>1. CASE c = "audd_streams_add"
        <4>1. Room(c, pairs) = Len(pairs) * 2 + 7
          BY <1>6, <3>1 DEF Room, StreamCapacity
        <4>2. Len(TypedKeys(c)) = 3
          BY <1>2, <3>1
        <4> QED
          BY ONLY <2>4, <4>1, <4>2
      <3>2. CASE c = "audd_streams_set_callback_url"
        <4>1. Room(c, pairs) = Len(pairs) * 2 + 3
          BY <1>6, <3>2 DEF Room, StreamCapacity
        <4>2. Len(TypedKeys(c)) = 1
          BY <1>2, <3>2
        <4> QED
          BY ONLY <2>4, <4>1, <4>2
      <3> QED
        BY <1>6, <3>1, <3>2 DEF Calls
    <2>6. Slots(Built(c, typed, pairs)) = 2 * (Len(pairs) + Len(f)) + 1
      BY <2>3 DEF Slots
    <2>7. 2 * (Len(pairs) + Len(f)) + 1
          <= Len(pairs) * 2 + 2 * Len(TypedKeys(c)) + 1
      BY ONLY <1>1, <1>3, <2>4
    <2> QED
      BY ONLY <2>3, <2>5, <2>6, <2>7
  <1> QED
    BY <1>5, <1>6

(* The indexes of a recognition's pairs up to the nth that are sent.       *)
Arriving(pairs, typed, n) == {i \in 1 .. n : pairs[i] \notin typed}

(* A list has each typed parameter once, and the extras that are not       *)
(* shadowed before them, in their order.                                   *)
HasAll(r, typed, pairs) ==
    /\ \A k \in typed : TypedWins(r, k)
    /\ \A i \in Arriving(pairs, typed, Len(pairs)) :
          r[Cardinality(Arriving(pairs, typed, i))] = Extra(pairs[i])
    /\ {i \in DOMAIN r : r[i].from = "extra"} =
       1 .. Cardinality(Arriving(pairs, typed, Len(pairs)))

(* A recognition's list does.                                              *)
LEMMA BuiltIsRight ==
    ASSUME NEW c \in Recognitions, NEW typed \in SUBSET Keys(c),
           NEW pairs \in Seq(ExtraKeys(c))
    PROVE  HasAll(Built(c, typed, pairs), typed, pairs)
  <1> DEFINE N == Len(pairs)
             open == {pairs[i] : i \in DOMAIN pairs} \ typed
             f == TypedFields(c, typed)
             kept == Chosen(pairs, open)
             e == ExtraFields(kept)
             r == Built(c, typed, pairs)
  <1>1. c \in Calls
    BY DEF Calls
  <1>2. /\ f \in Seq(Field(c)) /\ Len(f) \in Nat
        /\ \A m \in 1 .. Len(f) : f[m].from = "typed"
        /\ \A k \in typed \cap Keys(c) : \E m \in 1 .. Len(f) : f[m] = Typed(k)
        /\ \A m, n \in 1 .. Len(f) : f[m].key = f[n].key => m = n
    BY <1>1, TypedFieldsAre
  <1>3. kept \in Seq(ExtraKeys(c)) /\ HasChosen(kept, pairs, open, N)
    <2> HIDE DEF open
    <2> QED
      BY ChosenIsRight
  <1>4. r = e \o f
    BY NoExtraIsCut DEF Built, audd_build_recognize_fields, collect_typed_keys
  <1>5. \A n \in 0 .. N : Arriving(pairs, typed, n) = Places(pairs, open, n)
    BY DEF Arriving, Places
  <1>6. \A k \in open : k \notin typed
    OBVIOUS
  <1> HIDE DEF open, f, r, kept
  <1>7. /\ e \in Seq(Field(c)) /\ Len(e) = Len(kept) /\ Len(e) \in Nat
        /\ \A m \in 1 .. Len(e) : e[m] = Extra(kept[m])
    <2>1. Len(kept) \in Nat
      BY <1>3
    <2> QED
      BY <1>1, <1>3, <2>1, ExtraFieldsAre
  <1> HIDE DEF e
  <1>8. /\ Len(r) = Len(e) + Len(f) /\ r \in Seq(Field(c))
        /\ \A m \in 1 .. Len(e) : r[m] = e[m]
        /\ \A m \in 1 .. Len(f) : r[Len(e) + m] = f[m]
    <2>1. e \in Seq(Field(c)) /\ f \in Seq(Field(c))
      BY <1>2, <1>7
    <2>2. /\ e \o f \in Seq(Field(c)) /\ Len(e \o f) = Len(e) + Len(f)
          /\ \A m \in 1 .. Len(e) : (e \o f)[m] = e[m]
          /\ \A m \in 1 .. Len(f) : (e \o f)[Len(e) + m] = f[m]
      BY ONLY <2>1, Joined
    <2> QED
      BY ONLY <1>4, <2>2
  <1>9. DOMAIN r = 1 .. Len(e) + Len(f)
    BY <1>8
  <1>10. \A m \in 1 .. Len(e) :
            r[m] = Extra(kept[m]) /\ r[m].key = kept[m] /\ r[m].from = "extra"
    BY <1>7, <1>8 DEF Extra
  <1>11. \A m \in 1 .. Len(e) : kept[m] \notin typed
    <2>1. \A m \in 1 .. Len(e) : \E i \in Places(pairs, open, N) : kept[m] = pairs[i]
      BY <1>3, <1>7 DEF HasChosen
    <2> QED
      BY <1>6, <2>1 DEF Places
  <1>12. ASSUME NEW k \in typed PROVE TypedWins(r, k)
    <2>1. PICK m \in 1 .. Len(f) : f[m] = Typed(k)
      BY <1>2
    <2> DEFINE at == Len(e) + m
    <2>2. at \in DOMAIN r /\ r[at] = Typed(k)
      BY <1>2, <1>7, <1>8, <1>9, <2>1
    <2>3. ASSUME NEW j \in DOMAIN r, r[j].key = k PROVE j = at
      <3>1. CASE j \in 1 .. Len(e)
        BY <1>10, <1>11, <2>3, <3>1
      <3>2. CASE j \in Len(e) + 1 .. Len(e) + Len(f)
        <4>1. j - Len(e) \in 1 .. Len(f) /\ Len(e) + (j - Len(e)) = j
          BY <1>2, <1>7, <3>2
        <4>2. r[j] = f[j - Len(e)]
          BY <1>8, <4>1
        <4>3. f[j - Len(e)].key = f[m].key
          BY <2>1, <2>3, <4>2 DEF Typed
        <4>4. j - Len(e) = m
          BY <1>2, <4>1, <4>3
        <4> QED
          BY <1>7, <4>1, <4>4
      <3> QED
        BY <1>2, <1>7, <1>9, <3>1, <3>2
    <2> HIDE DEF at
    <2>4. {i \in DOMAIN r : r[i].key = k} = {at}
      BY <2>2, <2>3 DEF Typed
    <2> QED
      BY <2>2, <2>4, FS_Singleton DEF TypedWins
  <1>13. ASSUME NEW i \in Arriving(pairs, typed, N)
         PROVE  r[Cardinality(Arriving(pairs, typed, i))] = Extra(pairs[i])
    <2>1. i \in 0 .. N
      BY DEF Arriving
    <2>2. i \in Places(pairs, open, N)
      <3>1. N \in 0 .. N
        OBVIOUS
      <3> QED
        BY <1>5, <3>1
    <2>3. Place(pairs, open, i) \in 1 .. Len(kept)
          /\ kept[Place(pairs, open, i)] = pairs[i]
      BY <1>3, <2>2 DEF HasChosen
    <2>4. Cardinality(Arriving(pairs, typed, i)) = Place(pairs, open, i)
      BY <1>5, <2>1 DEF Place
    <2> QED
      BY <1>7, <1>10, <2>3, <2>4
  <1>14. {i \in DOMAIN r : r[i].from = "extra"}
         = 1 .. Cardinality(Arriving(pairs, typed, N))
    <2>1. Cardinality(Arriving(pairs, typed, N)) = Len(e)
      <3>1. N \in 0 .. N
        OBVIOUS
      <3> QED
        BY <1>3, <1>5, <1>7, <3>1 DEF Place, HasChosen
    <2>2. \A j \in Len(e) + 1 .. Len(e) + Len(f) : r[j].from = "typed"
      <3> SUFFICES ASSUME NEW j \in Len(e) + 1 .. Len(e) + Len(f)
                   PROVE  r[j].from = "typed"
        OBVIOUS
      <3>1. j - Len(e) \in 1 .. Len(f) /\ Len(e) + (j - Len(e)) = j
        BY <1>2, <1>7
      <3>2. r[j] = f[j - Len(e)]
        BY <1>8, <3>1
      <3> QED
        BY <1>2, <3>1, <3>2
    <2>3. {i \in DOMAIN r : r[i].from = "extra"} = 1 .. Len(e)
      BY <1>2, <1>7, <1>9, <1>10, <2>2
    <2> QED
      BY <2>1, <2>3
  <1> QED
    BY <1>12, <1>13, <1>14 DEF r, HasAll

-----------------------------------------------------------------------------
(* The inductive invariant: what is given and prepared has its type, a     *)
(* list is what is built from it, and requests do not outnumber attempts.  *)

InputInv ==
    /\ call \in Calls
    /\ RequiredKeys(call) \subseteq given
    /\ given \subseteq RequiredKeys(call) \cup OptionalKeys(call)
    /\ extras \in Seq(ExtraKeys(call)) /\ Len(extras) <= MaxExtras
    /\ raw_url \in Seq(Pieces)

ParamsInv ==
    /\ params \subseteq given
    /\ final_url \in Seq(Pieces)
    /\ pc \in {"start", "list", "attempt", "decide", "returned"}
    /\ err \in {"OK", "INVALID_ARGUMENT", "OUT_OF_MEMORY"}

ListInv ==
    /\ pc \in {"start", "list"} => fields = <<>>
    /\ pc = "list" => call \notin Recognitions
    /\ fields # <<>> => fields = Built(call, params, extras)

RequestsInv ==
    /\ attempt_n \in 1 .. MaxAttempts
    /\ requests \in Seq(Seq(Field(call)))
    /\ Len(requests) <= attempt_n
    /\ pc \in {"start", "list", "attempt"} => Len(requests) < attempt_n

IInv == InputInv /\ ParamsInv /\ ListInv /\ RequestsInv

(* The URLs a run starts with are sequences of pieces.                     *)
LEMMA UrlsAreTyped == UrlsUpTo(MaxPieces) \cup {<<>>} \subseteq Seq(Pieces)
  <1>1. ASSUME NEW m \in 0 .. MaxPieces, NEW u \in [1 .. m -> Pieces]
        PROVE  u \in Seq(Pieces)
    <2>1. m \in Nat
      BY BoundsAssumption DEF BoundsAssumption
    <2> QED
      BY <2>1, IsASeq
  <1>2. <<>> \in Seq(Pieces)
    OBVIOUS
  <1> QED
    BY <1>1, <1>2 DEF UrlsUpTo

(* Every call starts in it.                                                *)
LEMMA InitIInv == Init => IInv
  <1> SUFFICES ASSUME Init PROVE IInv
    OBVIOUS
  <1>1. extras \in Seq(ExtraKeys(call)) /\ Len(extras) <= MaxExtras
    <2>1. PICK n \in 0 .. MaxExtras : extras \in [1 .. n -> ExtraKeys(call)]
      BY DEF Init
    <2>2. n \in Nat
      BY <2>1, BoundsAssumption DEF BoundsAssumption
    <2>3. extras \in Seq(ExtraKeys(call))
      BY <2>1, <2>2, IsASeq
    <2>4. Len(extras) = n
      BY <2>1, <2>2, <2>3
    <2> QED
      BY <2>1, <2>3, <2>4
  <1>2. raw_url \in Seq(Pieces)
    BY UrlsAreTyped DEF Init
  <1>3. InputInv
    BY <1>1, <1>2 DEF Init, InputInv
  <1>4. ParamsInv
    <2>1. <<>> \in Seq(Pieces)
      OBVIOUS
    <2> QED
      BY <2>1 DEF Init, ParamsInv
  <1>5. ListInv
    BY DEF Init, ListInv
  <1>6. RequestsInv
    <2>1. <<>> \in Seq(Seq(Field(call))) /\ Len(<<>>) = 0
      OBVIOUS
    <2>2. 1 \in 1 .. MaxAttempts
      BY BoundsAssumption DEF BoundsAssumption
    <2> QED
      BY <2>1, <2>2 DEF Init, RequestsInv
  <1> QED
    BY <1>3, <1>4, <1>5, <1>6 DEF IInv

(* The list of an attempt has its type, and so has the history with it.    *)
LEMMA OneMoreRequest ==
    ASSUME IInv, pc = "attempt", NEW r \in Seq(Field(call))
    PROVE  /\ Append(requests, r) \in Seq(Seq(Field(call)))
           /\ Len(Append(requests, r)) <= attempt_n
           /\ requests \in Seq(Seq(Field(call))) /\ Len(requests) <= attempt_n
  <1>1. /\ requests \in Seq(Seq(Field(call))) /\ Len(requests) < attempt_n
        /\ attempt_n \in Nat
    BY DEF IInv, RequestsInv
  <1>2. Len(requests) \in Nat
    BY <1>1
  <1>3. Append(requests, r) \in Seq(Seq(Field(call)))
        /\ Len(Append(requests, r)) = Len(requests) + 1
    <2> DEFINE S == Seq(Field(call))
    <2>1. requests \in Seq(S) /\ r \in S
      BY <1>1
    <2> HIDE DEF S
    <2>2. Append(requests, r) \in Seq(S)
          /\ Len(Append(requests, r)) = Len(requests) + 1
      BY <2>1
    <2> QED
      BY <2>2 DEF S
  <1> QED
    BY <1>1, <1>2, <1>3

(* Every step keeps it.                                                    *)
LEMMA NextIInv == IInv /\ [Next]_vars => IInv'
  <1> SUFFICES ASSUME IInv, [Next]_vars PROVE IInv'
    OBVIOUS
  <1>1. ASSUME UNCHANGED inputs PROVE InputInv'
    BY <1>1 DEF inputs, IInv, InputInv
  <1>2. ASSUME UNCHANGED <<call, attempt_n, requests>>,
               pc' \in {"start", "list", "attempt"}
                  => pc \in {"start", "list", "attempt"}
        PROVE  RequestsInv'
    BY <1>2 DEF IInv, RequestsInv
  <1>3. ASSUME UNCHANGED <<call, params, extras, fields>>,
               pc' \notin {"start", "list"} \/ pc' = pc
        PROVE  ListInv'
    BY <1>3 DEF IInv, ListInv
  <1>4. CASE JoinReturn
    <2>1. InputInv' /\ RequestsInv'
      BY <1>1, <1>2, <1>4 DEF JoinReturn, inputs
    <2>2. ParamsInv'
      BY <1>4 DEF JoinReturn, inputs, IInv, ParamsInv
    <2>3. ListInv'
      BY <1>4 DEF JoinReturn, inputs, IInv, ListInv
    <2> QED
      BY <2>1, <2>2, <2>3 DEF IInv
  <1>5. CASE AppendReturn
    <2>1. InputInv' /\ RequestsInv'
      BY <1>1, <1>2, <1>5 DEF AppendReturn, inputs, Fail
    <2>2. ParamsInv'
      <3>1. raw_url \in Seq(Pieces) /\ WithReturn(raw_url) \in Seq(Pieces)
        BY DEF IInv, InputInv, WithReturn, Pieces
      <3>2. {"url"} \subseteq given
        BY <1>5 DEF AppendReturn, IInv, InputInv, RequiredKeys
      <3> QED
        BY <1>5, <3>1, <3>2 DEF AppendReturn, inputs, Fail, IInv, ParamsInv
    <2>3. ListInv'
      BY <1>5 DEF AppendReturn, inputs, Fail, IInv, ListInv, Recognitions
    <2> QED
      BY <2>1, <2>2, <2>3 DEF IInv
  <1>6. CASE AddStream
    <2>1. InputInv' /\ RequestsInv'
      BY <1>1, <1>2, <1>6 DEF AddStream, inputs
    <2>2. ParamsInv'
      BY <1>6 DEF AddStream, inputs, IInv, ParamsInv
    <2>3. ListInv'
      BY <1>6 DEF AddStream, inputs, IInv, ListInv, Recognitions
    <2> QED
      BY <2>1, <2>2, <2>3 DEF IInv
  <1>7. CASE BuildList
    <2>1. InputInv' /\ RequestsInv'
      BY <1>1, <1>2, <1>7 DEF BuildList, inputs, Fail
    <2>2. ParamsInv'
      BY <1>7 DEF BuildList, inputs, Fail, IInv, ParamsInv
    <2>3. ListInv'
      <3>1. /\ fields' \in {<<>>, StreamFields(call, params, extras)}
            /\ call \notin Recognitions
        BY <1>7 DEF BuildList, IInv, ListInv
      <3>2. Built(call, params, extras) = StreamFields(call, params, extras)
        BY <3>1 DEF Built
      <3>3. pc' \notin {"start", "list"} /\ UNCHANGED <<call, params, extras>>
        BY <1>7 DEF BuildList, inputs, Fail
      <3> QED
        BY <3>1, <3>2, <3>3 DEF ListInv
    <2> QED
      BY <2>1, <2>2, <2>3 DEF IInv
  <1>8. CASE streams_attempt
    <2>1. InputInv' /\ ListInv'
      BY <1>1, <1>3, <1>8 DEF streams_attempt, inputs
    <2>2. ParamsInv'
      BY <1>8 DEF streams_attempt, inputs, IInv, ParamsInv
    <2>3. RequestsInv'
      <3>1. fields \in Seq(Field(call))
        <4>1. CASE fields = <<>>
          BY <4>1
        <4>2. CASE fields # <<>>
          BY <4>2, BuiltFits DEF IInv, ListInv, InputInv
        <4> QED
          BY <4>1, <4>2
      <3>2. /\ requests' \in Seq(Seq(Field(call)))
            /\ Len(requests') <= attempt_n
        BY <1>8, <3>1, OneMoreRequest DEF streams_attempt
      <3>3. pc' = "decide" /\ UNCHANGED <<call, attempt_n>>
        BY <1>8 DEF streams_attempt, inputs
      <3>4. attempt_n \in 1 .. MaxAttempts
        BY DEF IInv, RequestsInv
      <3> QED
        BY <3>2, <3>3, <3>4 DEF RequestsInv
    <2> QED
      BY <2>1, <2>2, <2>3 DEF IInv
  <1>9. CASE recognize_attempt
    <2>1. InputInv'
      BY <1>1, <1>9 DEF recognize_attempt
    <2>2. ParamsInv'
      BY <1>9 DEF recognize_attempt, inputs, IInv, ParamsInv
    <2>3. /\ UNCHANGED <<fields, requests>>
          \/ /\ fields' = Built(call, params, extras)
             /\ requests' = Append(requests, fields')
      BY <1>9 DEF recognize_attempt, Built
    <2>4. pc = "attempt" /\ pc' = "decide"
          /\ UNCHANGED <<call, params, extras, attempt_n>>
      BY <1>9 DEF recognize_attempt, inputs
    <2>5. ListInv'
      BY <2>3, <2>4 DEF IInv, ListInv
    <2>6. RequestsInv'
      <3>1. Built(call, params, extras) \in Seq(Field(call))
        BY BuiltFits DEF IInv, InputInv
      <3>2. /\ requests' \in Seq(Seq(Field(call)))
            /\ Len(requests') <= attempt_n
        BY <2>3, <2>4, <3>1, OneMoreRequest
      <3>3. attempt_n \in 1 .. MaxAttempts
        BY DEF IInv, RequestsInv
      <3> QED
        BY <2>4, <3>2, <3>3 DEF RequestsInv
    <2> QED
      BY <2>1, <2>2, <2>5, <2>6 DEF IInv
  <1>10. CASE Retry
    <2>1. InputInv' /\ ListInv'
      BY <1>1, <1>3, <1>10 DEF Retry, inputs
    <2>2. ParamsInv'
      BY <1>10 DEF Retry, inputs, IInv, ParamsInv
    <2>3. RequestsInv'
      <3>1. /\ requests \in Seq(Seq(Field(call))) /\ Len(requests) <= attempt_n
            /\ attempt_n \in 1 .. MaxAttempts
        BY DEF IInv, RequestsInv
      <3>2. Len(requests) \in Nat
        BY <3>1
      <3>3. attempt_n < MaxAttempts /\ attempt_n' = attempt_n + 1
            /\ UNCHANGED <<call, requests>>
        BY <1>10 DEF Retry, inputs
      <3> HIDE DEF Field
      <3>4. attempt_n' \in 1 .. MaxAttempts /\ Len(requests) < attempt_n'
        BY <3>1, <3>2, <3>3, BoundsAssumption DEF BoundsAssumption
      <3> QED
        BY <3>1, <3>2, <3>3, <3>4 DEF RequestsInv
    <2> QED
      BY <2>1, <2>2, <2>3 DEF IInv
  <1>11. CASE Return
    <2>1. InputInv' /\ ListInv' /\ RequestsInv'
      BY <1>1, <1>2, <1>3, <1>11 DEF Return, inputs
    <2>2. ParamsInv'
      BY <1>11 DEF Return, inputs, IInv, ParamsInv
    <2> QED
      BY <2>1, <2>2 DEF IInv
  <1>12. CASE UNCHANGED vars
    <2>1. InputInv' /\ ListInv' /\ RequestsInv'
      BY <1>1, <1>2, <1>3, <1>12 DEF vars, inputs
    <2>2. ParamsInv'
      BY <1>12 DEF vars, IInv, ParamsInv
    <2> QED
      BY <2>1, <2>2 DEF IInv
  <1> QED
    BY <1>4, <1>5, <1>6, <1>7, <1>8, <1>9, <1>10, <1>11, <1>12 DEF Next

(* The invariant holds throughout every call.                              *)
THEOREM Invariance == Spec => []IInv
  BY InitIInv, NextIInv, PTL DEF Spec

(* Whatever the bounds, what a call is given, prepares and has sent has    *)
(* its type, and no call makes more requests than it has attempts.         *)
THEOREM TypeCorrect == Spec => []TypeOK
  <1>1. IInv => TypeOK
    <2> SUFFICES ASSUME IInv PROVE TypeOK
      OBVIOUS
    <2>1. fields \in Seq(Field(call))
      <3>1. CASE fields = <<>>
        BY <3>1
      <3>2. CASE fields # <<>>
        BY <3>2, BuiltFits DEF IInv, ListInv, InputInv
      <3> QED
        BY <3>1, <3>2
    <2> QED
      BY <2>1 DEF IInv, InputInv, ParamsInv, RequestsInv, TypeOK
  <1> QED
    BY <1>1, Invariance, PTL

(* However many extras there are, and whatever is set: the list that a     *)
(* call fills without looking at its capacity fits.                        *)
THEOREM ListsFit == Spec => []FieldsFit
  <1>1. IInv => FieldsFit
    <2> SUFFICES ASSUME IInv, fields # <<>> PROVE Slots(fields) <= Capacity
      BY DEF FieldsFit
    <2>1. Slots(fields) <= Room(call, extras)
      BY BuiltFits DEF IInv, ListInv, InputInv
    <2> QED
      BY <2>1 DEF Room, Capacity
  <1> QED
    BY <1>1, Invariance, PTL

-----------------------------------------------------------------------------
(* No action but the attempts makes a request, and what an attempt sends   *)
(* no other action changes.                                                *)
LEMMA QuestionKept == QuestionInv /\ [Next]_vars => QuestionInv'
  <1> SUFFICES ASSUME QuestionInv, [Next]_vars PROVE QuestionInv'
    OBVIOUS
  <1>1. ASSUME pc \in {"start", "list"}, requests' = requests
        PROVE  QuestionInv'
    <2>1. requests' = <<>>
      BY <1>1 DEF QuestionInv
    <2>2. <<>> \in Seq({Question'})
      OBVIOUS
    <2> QED
      BY <2>1, <2>2 DEF QuestionInv
  <1>2. ASSUME UNCHANGED <<call, params, extras>>,
               call \in Recognitions \/ fields' = fields
        PROVE  Question' = Question
    BY <1>2 DEF Question
  <1>3. CASE JoinReturn \/ AppendReturn \/ AddStream \/ BuildList
    BY <1>1, <1>3 DEF JoinReturn, AppendReturn, AddStream, BuildList
  <1>4. CASE streams_attempt
    <2>1. /\ Question' = Question /\ Question = fields /\ pc' = "decide"
          /\ requests' \in {requests, Append(requests, fields)}
      BY <1>2, <1>4 DEF streams_attempt, inputs, Question
    <2>2. requests' \in Seq({Question})
      BY <2>1 DEF QuestionInv
    <2> QED
      BY <2>1, <2>2 DEF QuestionInv
  <1>5. CASE recognize_attempt
    <2>1. Question' = Question /\ pc' = "decide"
      BY <1>2, <1>5 DEF recognize_attempt, inputs
    <2>2. requests' = requests \/ requests' = Append(requests, Question)
      BY <1>5 DEF recognize_attempt, Question
    <2>3. requests' \in Seq({Question})
      BY <2>2 DEF QuestionInv
    <2> QED
      BY <2>1, <2>3 DEF QuestionInv
  <1>6. CASE Retry \/ Return \/ (pc = "returned" /\ UNCHANGED vars)
                \/ UNCHANGED vars
    <2>1. /\ Question' = Question /\ requests' = requests
          /\ pc' \in {"start", "list"} => pc \in {"start", "list"}
      BY <1>2, <1>6 DEF Retry, Return, vars, inputs
    <2> QED
      BY <2>1 DEF QuestionInv
  <1> QED
    BY <1>3, <1>4, <1>5, <1>6 DEF Next

(* All requests of a call, first attempt or retry, have the same fields.   *)
THEOREM AsksTheSame == Spec => []SameRequestEveryAttempt
  <1>1. Init => QuestionInv
    BY DEF Init, QuestionInv
  <1>2. QuestionInv => SameRequestEveryAttempt
    <2> SUFFICES ASSUME QuestionInv PROVE Cardinality(Sent) <= 1
      BY DEF SameRequestEveryAttempt
    <2>1. Sent \subseteq {Question}
      BY DEF QuestionInv, Sent
    <2>2. IsFiniteSet({Question}) /\ Cardinality({Question}) = 1
      BY FS_Singleton
    <2>3. Cardinality(Sent) <= Cardinality({Question})
      BY <2>1, <2>2, FS_Subset
    <2> QED
      BY <2>2, <2>3
  <1> QED
    BY <1>1, <1>2, QuestionKept, PTL DEF Spec

(* However many extras a recognition has and wherever they collide: every  *)
(* typed parameter is in the request once, and of the extras all those and *)
(* only those that it does not shadow, in their order.                     *)
THEOREM RequestIsRight == Spec => []RecognizeRequestRight
  <1>1. Init => QuestionInv
    BY DEF Init, QuestionInv
  <1>2. IInv /\ QuestionInv => RecognizeRequestRight
    <2> SUFFICES ASSUME IInv, QuestionInv, call \in Recognitions, NEW r \in Sent
                 PROVE  /\ \A k \in params : TypedWins(r, k)
                        /\ \A i \in Unshadowed(Len(extras)) :
                              r[Cardinality(Unshadowed(i))] = Extra(extras[i])
                        /\ {i \in DOMAIN r : r[i].from = "extra"} =
                           1 .. Cardinality(Unshadowed(Len(extras)))
      BY DEF RecognizeRequestRight
    <2>1. r = Built(call, params, extras)
      BY DEF QuestionInv, Sent, Question, Built
    <2>2. params \in SUBSET Keys(call) /\ extras \in Seq(ExtraKeys(call))
      <3>1. RequiredKeys(call) = {} /\ OptionalKeys(call) = Keys(call)
        BY DEF Recognitions, RequiredKeys, OptionalKeys
      <3> QED
        BY <3>1 DEF IInv, InputInv, ParamsInv
    <2>3. \A n : Unshadowed(n) = Arriving(extras, params, n)
      BY DEF Unshadowed, Arriving
    <2>4. /\ \A k \in params : TypedWins(r, k)
          /\ \A i \in Arriving(extras, params, Len(extras)) :
                r[Cardinality(Arriving(extras, params, i))] = Extra(extras[i])
          /\ {i \in DOMAIN r : r[i].from = "extra"} =
             1 .. Cardinality(Arriving(extras, params, Len(extras)))
      <3>1. HasAll(r, params, extras)
        BY <2>1, <2>2, BuiltIsRight
      <3> QED
        BY <3>1 DEF HasAll
    <2> QED
      BY <2>3, <2>4
  <1> QED
    BY <1>1, <1>2, QuestionKept, Invariance, PTL DEF Spec

-----------------------------------------------------------------------------
(* The scan of the callback URL, for a URL of any length.                  *)

(* strchr finds the first question mark, if there is one.                  *)
LEMMA FirstMarkIs ==
    ASSUME NEW url \in Seq(Pieces)
    PROVE  /\ FirstMark(url) \in 0 .. Len(url)
           /\ FirstMark(url) = 0 => \A i \in DOMAIN url : url[i] # "?"
           /\ FirstMark(url) > 0 =>
                 /\ url[FirstMark(url)] = "?"
                 /\ \A j \in 1 .. FirstMark(url) - 1 : url[j] # "?"
  <1>1. CASE \A i \in DOMAIN url : url[i] # "?"
    BY <1>1 DEF FirstMark
  <1>2. CASE \E i \in DOMAIN url : url[i] = "?"
    <2> DEFINE T == {i \in DOMAIN url : url[i] = "?"}
               P(i) == url[i] = "?" /\ \A j \in 1 .. i - 1 : url[j] # "?"
    <2>1. PICK x \in T : \A y \in T : x <= y
      <3>1. T \subseteq Nat /\ T # {}
        BY <1>2
      <3> QED
        BY <3>1, Least
    <2>2. P(x) /\ x \in DOMAIN url
      BY <2>1
    <2>3. FirstMark(url) = CHOOSE i \in DOMAIN url : P(i)
      BY <1>2 DEF FirstMark
    <2>4. FirstMark(url) \in DOMAIN url /\ P(FirstMark(url))
      BY <2>2, <2>3
    <2> QED
      BY <2>4
  <1> QED
    BY <1>1, <1>2

(* The scan finds a return parameter exactly when a server would.          *)
LEMMA ScanIsRight ==
    ASSUME NEW url \in Seq(Pieces), ~HasFragment(url)
    PROVE  HasReturnParam(url) <=> ReturnParams(url) # {}
  <1> DEFINE q == FirstMark(url)
  <1>1. /\ q \in 0 .. Len(url)
        /\ q = 0 => \A i \in DOMAIN url : url[i] # "?"
        /\ q > 0 => /\ url[q] = "?"
                    /\ \A j \in 1 .. q - 1 : url[j] # "?"
    BY FirstMarkIs
  <1>2. \A i \in DOMAIN url : url[i] # "#"
    BY DEF HasFragment
  <1> HIDE DEF q
  <1>3. ASSUME HasReturnParam(url) PROVE ReturnParams(url) # {}
    <2>1. PICK s \in Scanned(url) : KeyIsReturn(url, s)
      BY <1>3 DEF HasReturnParam
    <2>2. q > 0
      BY <1>3 DEF HasReturnParam, q
    <2>3. s \in q + 1 .. Len(url) /\ (s = q + 1 \/ url[s - 1] = "&")
      BY <1>1, <2>1 DEF Scanned, Starts, q
    <2>4. s \in Query(url)
      BY <1>1, <1>2, <2>2, <2>3 DEF Query
    <2>5. EndsKey(url, s + 1)
      BY <1>1, <2>1, <2>2, <2>3 DEF KeyIsReturn, EndsKey
    <2>6. url[s - 1] = "&" \/ s - 1 = FirstMark(url)
      BY <1>1, <2>3 DEF q
    <2> QED
      BY <2>1, <2>4, <2>5, <2>6 DEF ReturnParams, KeyIsReturn
  <1>4. ASSUME ReturnParams(url) # {} PROVE HasReturnParam(url)
    <2>1. PICK i \in Query(url) :
             /\ url[i] = "return"
             /\ url[i - 1] = "&" \/ i - 1 = q
             /\ EndsKey(url, i + 1)
      BY <1>4 DEF ReturnParams, q
    <2>2. i \in DOMAIN url /\ q > 0 /\ q < i
      <3>1. i \in DOMAIN url
        BY <2>1 DEF Query
      <3>2. PICK m \in 1 .. i - 1 : url[m] = "?"
        BY <2>1 DEF Query
      <3> QED
        BY <1>1, <3>1, <3>2
    <2>3. i \in Starts(url)
      BY <1>1, <2>1, <2>2 DEF Starts, q
    <2>4. \A t \in Starts(url) : t <= i => t <= Len(url) /\ url[t] # "#"
      BY <1>1, <1>2, <2>2 DEF Starts, q
    <2>5. KeyIsReturn(url, i)
      BY <1>2, <2>1, <2>2 DEF KeyIsReturn, EndsKey
    <2> QED
      BY <2>2, <2>3, <2>4, <2>5 DEF HasReturnParam, Scanned, q
  <1> QED
    BY <1>3, <1>4

(* What is appended is the one return parameter a server sees.             *)
LEMMA AppendedIsRight ==
    ASSUME NEW url \in Seq(Pieces), ~HasFragment(url), ~HasReturnParam(url)
    PROVE  ReturnParams(WithReturn(url)) = {Len(url) + 2}
  <1> DEFINE q == FirstMark(url)
             n == Len(url)
             sep == IF q = 0 THEN "?" ELSE "&"
             w == WithReturn(url)
             p == FirstMark(w)
  <1>1. /\ q \in 0 .. n
        /\ q = 0 => \A i \in DOMAIN url : url[i] # "?"
        /\ q > 0 => /\ url[q] = "?"
                    /\ \A j \in 1 .. q - 1 : url[j] # "?"
    BY FirstMarkIs
  <1>2. \A i \in DOMAIN url : url[i] # "#"
    BY DEF HasFragment
  <1>3. ReturnParams(url) = {}
    BY ScanIsRight
  <1>4. /\ w \in Seq(Pieces) /\ Len(w) = n + 4 /\ n \in Nat
        /\ \A i \in 1 .. n : w[i] = url[i]
        /\ w[n + 1] = sep /\ w[n + 2] = "return" /\ w[n + 3] = "="
        /\ w[n + 4] = "word"
    <2>1. w = url \o <<sep, "return", "=", "word">>
      BY DEF WithReturn
    <2>2. <<sep, "return", "=", "word">> \in Seq(Pieces)
      BY DEF Pieces
    <2> QED
      BY <2>1, <2>2
  <1>5. /\ p \in 0 .. Len(w)
        /\ p = 0 => \A i \in DOMAIN w : w[i] # "?"
        /\ p > 0 => /\ w[p] = "?"
                    /\ \A j \in 1 .. p - 1 : w[j] # "?"
    BY <1>4, FirstMarkIs
  <1> HIDE DEF q, n, w, p
  <1>6. p = IF q = 0 THEN n + 1 ELSE q
    <2>1. CASE q = 0
      <3>1. w[n + 1] = "?" /\ \A i \in 1 .. n : w[i] # "?"
        BY <1>1, <1>4, <2>1 DEF n
      <3> QED
        BY <1>4, <1>5, <2>1, <3>1
    <2>2. CASE q > 0
      <3>1. w[q] = "?" /\ \A i \in 1 .. q - 1 : w[i] # "?"
        BY <1>1, <1>4, <2>2 DEF n
      <3> QED
        BY <1>1, <1>4, <1>5, <2>2, <3>1
    <2> QED
      BY <1>1, <2>1, <2>2
  <1>7. n + 2 \in ReturnParams(w)
    <2>1. n + 2 \in Query(w)
      <3>1. w[p] = "?" /\ p \in 1 .. n + 1
        BY <1>1, <1>4, <1>5, <1>6
      <3>2. \A j \in 1 .. n + 2 : w[j] # "#"
        BY <1>2, <1>4 DEF n
      <3> QED
        BY <1>4, <3>1, <3>2 DEF Query
    <2>2. w[n + 1] = "&" \/ n + 1 = p
      BY <1>1, <1>4, <1>6
    <2>3. EndsKey(w, n + 3)
      BY <1>4 DEF EndsKey
    <2> QED
      BY <1>4, <2>1, <2>2, <2>3 DEF ReturnParams, p
  <1>8. ASSUME NEW i \in ReturnParams(w) PROVE i = n + 2
    <2>1. /\ i \in 1 .. n + 4 /\ w[i] = "return"
          /\ w[i - 1] = "&" \/ i - 1 = p
          /\ EndsKey(w, i + 1)
          /\ \E m \in 1 .. i - 1 : w[m] = "?"
      BY <1>4 DEF ReturnParams, Query, p
    <2>2. CASE i \in 1 .. n
      <3>1. PICK m \in 1 .. i - 1 : url[m] = "?"
        BY <1>4, <2>1, <2>2
      <3>2. q > 0 /\ p = q
        BY <1>1, <1>4, <1>6, <2>2, <3>1 DEF n
      <3>3. i \in Query(url)
        BY <1>2, <2>2, <3>1 DEF Query, n
      <3>4. url[i] = "return" /\ (url[i - 1] = "&" \/ i - 1 = q)
        BY <1>4, <2>1, <2>2, <3>1, <3>2
      <3>5. EndsKey(url, i + 1)
        BY <1>4, <2>1, <2>2 DEF EndsKey, n
      <3>6. i \in ReturnParams(url)
        BY <3>3, <3>4, <3>5 DEF ReturnParams, q
      <3> QED
        BY <1>3, <3>6
    <2>3. CASE i \in n + 1 .. n + 4
      BY <1>4, <2>1, <2>3
    <2> QED
      BY <1>4, <2>1, <2>2, <2>3
  <1> QED
    BY <1>7, <1>8 DEF n, w

(* What set_callback_url does with the URL it is given, step by step.      *)
UrlInv ==
    /\ raw_url \in Seq(Pieces)
    /\ call = "audd_streams_set_callback_url" =>
          /\ pc = "start" => err = "OK" /\ requests = <<>>
          /\ err = "INVALID_ARGUMENT" => HasReturnParam(raw_url)
          /\ "return" \in given /\ (pc \notin {"start", "returned"} \/ requests # <<>>)
                => ~HasReturnParam(raw_url) /\ final_url = WithReturn(raw_url)

(* Only AppendReturn looks at the URL; the list and the attempts keep it.  *)
LEMMA UrlKept == UrlInv /\ [Next]_vars => UrlInv'
  <1> SUFFICES ASSUME UrlInv, [Next]_vars PROVE UrlInv'
    OBVIOUS
  <1>1. CASE JoinReturn
    BY <1>1 DEF JoinReturn, inputs, UrlInv, Recognitions
  <1>2. CASE AppendReturn
    BY <1>2 DEF AppendReturn, inputs, UrlInv, Fail
  <1>3. CASE AddStream
    BY <1>3 DEF AddStream, inputs, UrlInv
  <1>4. CASE BuildList
    BY <1>4 DEF BuildList, inputs, UrlInv, Fail
  <1>5. CASE streams_attempt
    BY <1>5 DEF streams_attempt, inputs, UrlInv
  <1>6. CASE recognize_attempt
    BY <1>6 DEF recognize_attempt, inputs, UrlInv, Recognitions
  <1>7. CASE Retry
    BY <1>7 DEF Retry, inputs, UrlInv
  <1>8. CASE Return
    BY <1>8 DEF Return, inputs, UrlInv
  <1>9. CASE UNCHANGED vars
    BY <1>9 DEF vars, UrlInv
  <1> QED
    BY <1>1, <1>2, <1>3, <1>4, <1>5, <1>6, <1>7, <1>8, <1>9 DEF Next

(* For a URL of any length: it is rejected only if it asks for the return  *)
(* parameter already, and otherwise asks for it exactly once when it is    *)
(* registered (a URL with a fragment left out).                            *)
THEOREM AsksOnce == Spec => []CallbackUrlAsksOnce
  <1>1. Init => UrlInv
    BY UrlsAreTyped DEF Init, UrlInv
  <1>2. UrlInv => CallbackUrlAsksOnce
    <2> SUFFICES ASSUME UrlInv, call = "audd_streams_set_callback_url",
                        ~HasFragment(raw_url)
                 PROVE  /\ err = "INVALID_ARGUMENT" => ReturnParams(raw_url) # {}
                        /\ Sent # {} /\ "return" \in given =>
                              Cardinality(ReturnParams(final_url)) = 1
      BY DEF CallbackUrlAsksOnce
    <2>1. err = "INVALID_ARGUMENT" => ReturnParams(raw_url) # {}
      BY ScanIsRight DEF UrlInv
    <2>2. ASSUME Sent # {}, "return" \in given
          PROVE  Cardinality(ReturnParams(final_url)) = 1
      <3>1. requests # <<>>
        BY <2>2 DEF Sent
      <3>2. ~HasReturnParam(raw_url) /\ final_url = WithReturn(raw_url)
        BY <2>2, <3>1 DEF UrlInv
      <3>3. ReturnParams(final_url) = {Len(raw_url) + 2}
        BY <3>2, AppendedIsRight DEF UrlInv
      <3> QED
        BY <3>3, FS_Singleton
    <2> QED
      BY <2>1, <2>2
  <1> QED
    BY <1>1, <1>2, UrlKept, PTL DEF Spec

=============================================================================
