---------------------------- MODULE CASClientProofs ----------------------------
(***************************************************************************)
(* Proofs about the wire: documents survive encoding, storing, listing and *)
(* decoding, so the list stays decodable, the parameters are registered as *)
(* given, and the calls implement CASBackend.                              *)
(***************************************************************************)
EXTENDS CASClient, FiniteSetTheorems, WellFoundedInduction, TLAPS

\* None and Error are neither records nor sequences.
AtomsApart == \A a \in {None, Error} : a # [x \in DOMAIN a |-> a[x]]

-------------------------------------------------------------------------------
(***************************************************************************)
(* Sets and sequences                                                      *)
(***************************************************************************)

\* SetToSeq lists every element of a finite set once.
LEMMA SetToSeqLists ==
  ASSUME NEW S, IsFiniteSet(S)
  PROVE  /\ Cardinality(S) \in Nat
         /\ SetToSeq(S) \in [1..Cardinality(S) -> S]
         /\ \A x \in S : \E i \in 1..Cardinality(S) : SetToSeq(S)[i] = x
         /\ \A i, k \in 1..Cardinality(S) : SetToSeq(S)[i] = SetToSeq(S)[k] => i = k
  <1>1. Cardinality(S) \in Nat /\ ExistsBijection(1..Cardinality(S), S)
    BY FS_CardinalityType
  <1>2. \E f \in [1..Cardinality(S) -> S] : IsInjective(f)
    BY <1>1 DEF ExistsBijection, Bijection, Injection, IsInjective
  <1>3. SetToSeq(S) \in [1..Cardinality(S) -> S] /\ IsInjective(SetToSeq(S))
    BY <1>2 DEF SetToSeq
  <1>4. SetToSeq(S) \in Injection(1..Cardinality(S), S)
    BY <1>3 DEF Injection
  <1>5. IsFiniteSet(1..Cardinality(S)) /\ Cardinality(1..Cardinality(S)) = Cardinality(S)
    BY <1>1, FS_Interval
  <1>6. SetToSeq(S) \in Surjection(1..Cardinality(S), S)
    BY <1>4, <1>5, FS_Injection
  <1> QED BY <1>1, <1>3, <1>6 DEF Surjection, IsInjective

\* So does its reverse.
Lists(seq, S) ==
    \E n \in Nat :
        /\ seq \in [1..n -> S] /\ Len(seq) = n
        /\ \A x \in S : \E i \in 1..n : seq[i] = x
        /\ \A i, k \in 1..n : seq[i] = seq[k] => i = k

\* Either order of a finite set lists it.
LEMMA EitherOrderLists ==
  ASSUME NEW S, IsFiniteSet(S)
  PROVE  Lists(SetToSeq(S), S) /\ Lists(Reverse(SetToSeq(S)), S)
  <1> DEFINE seq == SetToSeq(S)
             n   == Cardinality(S)
  <1>1. /\ n \in Nat /\ seq \in [1..n -> S]
        /\ \A x \in S : \E i \in 1..n : seq[i] = x
        /\ \A i, k \in 1..n : seq[i] = seq[k] => i = k
    BY SetToSeqLists
  <1> HIDE DEF seq, n
  <1>2. Len(seq) = n
    BY <1>1
  <1>3. /\ Reverse(seq) \in [1..n -> S]
        /\ \A i \in 1..n : Reverse(seq)[i] = seq[n - i + 1] /\ n - i + 1 \in 1..n
    BY <1>1, <1>2 DEF Reverse
  <1>4. Len(Reverse(seq)) = n
    BY <1>1, <1>3
  <1>5. ASSUME NEW x \in S PROVE \E i \in 1..n : Reverse(seq)[i] = x
    <2>1. PICK i \in 1..n : seq[i] = x
      BY <1>1
    <2>2. n - i + 1 \in 1..n /\ n - (n - i + 1) + 1 = i
      BY <1>1
    <2> QED BY <1>3, <2>1, <2>2
  <1>6. ASSUME NEW i \in 1..n, NEW k \in 1..n, Reverse(seq)[i] = Reverse(seq)[k] PROVE i = k
    <2>1. n - i + 1 = n - k + 1
      BY <1>1, <1>3, <1>6
    <2> QED BY <1>1, <2>1
  <1>7. Lists(seq, S) /\ Lists(Reverse(seq), S)
    BY <1>1, <1>2, <1>3, <1>4, <1>5, <1>6 DEF Lists
  <1> QED BY <1>7 DEF seq

\* The elements of a sequence are finitely many.
LEMMA ElementsFinite ==
  ASSUME NEW T, NEW seq \in Seq(T)
  PROVE  IsFiniteSet(ToSet(seq))
  <1>1. Len(seq) \in Nat /\ DOMAIN seq = 1..Len(seq)
    OBVIOUS
  <1>2. seq \in Surjection(1..Len(seq), ToSet(seq))
    BY <1>1 DEF Surjection, ToSet
  <1>3. IsFiniteSet(1..Len(seq))
    BY <1>1, FS_Interval
  <1> QED BY <1>2, <1>3, FS_Surjection

\* Every set of natural numbers that is not empty has a least element.
Less == {pair \in Nat \X Nat : pair[1] < pair[2]}

\* This stands in for induction over the rounds of a loop.
LEMMA LeastElement ==
  ASSUME NEW Q \in SUBSET Nat, Q # {}
  PROVE  \E n \in Q : \A m \in Q : n <= m
  <1>1. IsWellFoundedOn(Less, Nat)
    BY NatLessThanWellFounded, Zenon DEF OpToRel, Less
  <1>2. PICK n \in Q : \A m \in Q : ~(<<m, n>> \in Less)
    BY <1>1, WFMin
  <1>3. ASSUME NEW m \in Q PROVE n <= m
    <2>1. ~(m < n)
      BY <1>2 DEF Less
    <2> QED BY <2>1
  <1> QED BY <1>3

\* Append adds an element.
LEMMA AppendAdds ==
  ASSUME NEW T, NEW seq \in Seq(T), NEW x \in T
  PROVE  Append(seq, x) \in Seq(T) /\ ToSet(Append(seq, x)) = ToSet(seq) \union {x}
  <1> DEFINE new == Append(seq, x)
             n   == Len(seq)
  <1>1. /\ n \in Nat /\ new \in Seq(T) /\ DOMAIN seq = 1..n /\ DOMAIN new = 1..(n + 1)
        /\ \A i \in 1..n : new[i] = seq[i]
        /\ new[n + 1] = x
    OBVIOUS
  <1>2. 1..(n + 1) = 1..n \union {n + 1}
    BY <1>1
  <1> HIDE DEF new, n
  <1>3. ToSet(seq) = {new[i] : i \in 1..n} /\ ToSet(new) = {new[i] : i \in 1..(n + 1)}
    BY <1>1, Zenon DEF ToSet
  <1>4. ToSet(new) = ToSet(seq) \union {x}
    BY <1>1, <1>2, <1>3
  <1> QED BY <1>1, <1>4 DEF new

-------------------------------------------------------------------------------
(***************************************************************************)
(* newSetParam                                                             *)
(***************************************************************************)

\* One round of the loop.
Collect(values, part) == IF part = Blank THEN values ELSE Append(values, part)

Loop(f, parts, N) ==
    f = [n \in 0..N |-> IF n = 0 THEN <<>> ELSE Collect(f[n - 1], parts[n])]

\* The loop runs: what it has collected after each round exists.
LEMMA LoopRuns ==
  ASSUME NEW parts, NEW N \in Nat
  PROVE  \E f : Loop(f, parts, N)
  <1> DEFINE stuck == {n \in Nat : ~\E f : Loop(f, parts, n)}
  <1> SUFFICES ASSUME stuck # {} PROVE FALSE
    OBVIOUS
  <1>1. PICK n \in stuck : \A m \in stuck : n <= m
    BY LeastElement
  <1>2. n # 0
    <2>1. Loop([m \in 0..0 |-> <<>>], parts, 0)
      BY DEF Loop
    <2> QED BY <2>1
  <1>3. n \in Nat /\ n - 1 \in Nat /\ n - 1 \notin stuck
    BY <1>1, <1>2
  <1>4. PICK f : Loop(f, parts, n - 1)
    BY <1>3
  <1> DEFINE g == [m \in 0..n |-> IF m = n THEN Collect(f[n - 1], parts[n]) ELSE f[m]]
  <1>5. \A m \in 0..(n - 1) : g[m] = f[m]
    BY <1>3
  <1>6. \A m \in 0..n : g[m] = IF m = 0 THEN <<>> ELSE Collect(g[m - 1], parts[m])
    <2> SUFFICES ASSUME NEW m \in 0..n
                 PROVE  g[m] = IF m = 0 THEN <<>> ELSE Collect(g[m - 1], parts[m])
      OBVIOUS
    <2>1. CASE m = n
      BY <1>2, <1>3, <1>5, <2>1
    <2>2. CASE m # n
      <3>1. m \in 0..(n - 1) /\ (m # 0 => m - 1 \in 0..(n - 1))
        BY <1>3, <2>2
      <3>2. f[m] = IF m = 0 THEN <<>> ELSE Collect(f[m - 1], parts[m])
        BY <1>4, <3>1 DEF Loop
      <3> QED BY <1>5, <3>1, <3>2
    <2> QED BY <2>1, <2>2
  <1>7. Loop(g, parts, n)
    BY <1>6, Zenon DEF Loop
  <1> QED BY <1>1, <1>7

\* It collects the parts that are not blank.
LEMMA LoopCollects ==
  ASSUME NEW T, NEW parts \in Seq(T), NEW f, Loop(f, parts, Len(parts))
  PROVE  /\ f[Len(parts)] \in Seq(T)
         /\ ToSet(f[Len(parts)]) = ToSet(parts) \ {Blank}
  <1> DEFINE N    == Len(parts)
             Sofar(n) == {parts[i] : i \in 1..n} \ {Blank}
             Good(n)  == f[n] \in Seq(T) /\ ToSet(f[n]) = Sofar(n)
             bad  == {n \in Nat : n <= N /\ ~Good(n)}
  <1>0. N \in Nat /\ DOMAIN parts = 1..N /\ \A i \in 1..N : parts[i] \in T
    OBVIOUS
  <1>a. Sofar(N) = ToSet(parts) \ {Blank}
    BY <1>0, Zenon DEF ToSet
  <1>b. N \notin bad => Good(N)
    BY <1>0
  <1> HIDE DEF Good, Sofar
  <1> SUFFICES ASSUME bad # {} PROVE FALSE
    BY <1>a, <1>b DEF Good
  <1>1. PICK n \in bad : \A m \in bad : n <= m
    BY LeastElement
  <1>2. n \in 0..N /\ f[n] = IF n = 0 THEN <<>> ELSE Collect(f[n - 1], parts[n])
    BY <1>0, <1>1 DEF Loop
  <1>3. CASE n = 0
    <2>1. f[n] = <<>> /\ Sofar(n) = {}
      BY <1>2, <1>3 DEF Sofar
    <2>2. Good(n)
      BY <2>1 DEF ToSet, Good
    <2> QED BY <1>1, <2>2
  <1>4. CASE n # 0
    <2>1. n - 1 \in Nat /\ n - 1 <= N /\ Good(n - 1)
      BY <1>0, <1>1, <1>4
    <2>2. Sofar(n) = Sofar(n - 1) \union ({parts[n]} \ {Blank})
      <3>1. n \in Nat /\ 1..n = 1..(n - 1) \union {n}
        BY <1>1, <1>4
      <3> QED BY <3>1, Zenon DEF Sofar
    <2>3. n \in 1..N /\ parts[n] \in T
      BY <1>0, <1>2, <1>4
    <2>4. CASE parts[n] = Blank
      BY <1>1, <1>2, <1>4, <2>1, <2>2, <2>4 DEF Collect, Good
    <2>5. CASE parts[n] # Blank
      <3> DEFINE old == f[n - 1]
      <3>1. f[n] = Append(old, parts[n]) /\ old \in Seq(T)
        BY <1>2, <1>4, <2>1, <2>5 DEF Collect, Good
      <3> HIDE DEF old
      <3>2. f[n] \in Seq(T) /\ ToSet(f[n]) = ToSet(old) \union {parts[n]}
        BY <2>3, <3>1, AppendAdds
      <3> QED BY <1>1, <2>1, <2>2, <2>5, <3>2 DEF old, Good
    <2> QED BY <2>4, <2>5
  <1> QED BY <1>3, <1>4

\* A set parameter is nil when every part is blank, else it has the other parts.
LEMMA NewSetParamKeeps ==
  ASSUME NEW T, NEW parts \in Seq(T), parts # None
  PROVE  /\ ToSet(parts) \ {Blank} = {} => newSetParam(parts) = None
         /\ ToSet(parts) \ {Blank} # {} =>
                \E v \in Seq(T) :
                    /\ newSetParam(parts) = [class |-> hashSetClass, values |-> v]
                    /\ ToSet(v) = ToSet(parts) \ {Blank}
  <1> DEFINE f == CHOOSE g : Loop(g, parts, Len(parts))
             v == f[Len(parts)]
  <1>1. Loop(f, parts, Len(parts))
    <2>1. Len(parts) \in Nat
      OBVIOUS
    <2>2. \E g : Loop(g, parts, Len(parts))
      BY <2>1, LoopRuns
    <2> QED BY <2>2
  <1>2. newSetParam(parts) = IF v = <<>> THEN None ELSE NewStringCollection(hashSetClass, v)
    BY Zenon DEF newSetParam, Loop, Collect
  <1> HIDE DEF f
  <1>3. v \in Seq(T) /\ ToSet(v) = ToSet(parts) \ {Blank}
    BY <1>1, LoopCollects
  <1> HIDE DEF v
  <1>4. v = <<>> <=> ToSet(v) = {}
    <2>1. v # <<>> => 1 \in DOMAIN v
      BY <1>3
    <2>2. v # <<>> => ToSet(v) # {}
      BY <2>1 DEF ToSet
    <2>3. v = <<>> => ToSet(v) = {}
      BY DEF ToSet
    <2> QED BY <2>2, <2>3
  <1> QED BY <1>2, <1>3, <1>4 DEF NewStringCollection

-------------------------------------------------------------------------------
(***************************************************************************)
(* The codec                                                               *)
(***************************************************************************)

\* The kinds of JSON values are told apart, and scalars are decoded as encoded.
LEMMA Kinds ==
  /\ Is("null", Null) /\ ~Is("str", Null) /\ ~Is("arr", Null)
  /\ StringOf(Null) = None /\ IdOf(Null) = None
  /\ \A x : /\ Is("str", Str(x)) /\ ~Is("null", Str(x)) /\ ~Is("arr", Str(x))
           /\ Str(x).str = x /\ StringOf(Str(x)) = x /\ Str(x) # Null
  /\ \A x : /\ Is("num", Num(x)) /\ ~Is("null", Num(x)) /\ Num(x).num = x
           /\ IdOf(Num(x)) = x /\ Num(x) # Null
  /\ \A x : /\ Is("arr", Arr(x)) /\ ~Is("null", Arr(x)) /\ ~Is("str", Arr(x))
           /\ ~Is("obj", Arr(x)) /\ Arr(x).arr = x /\ Arr(x) # Null
           /\ StringOf(Arr(x)) = Error
  /\ \A x : /\ Is("obj", Obj(x)) /\ ~Is("null", Obj(x)) /\ ~Is("str", Obj(x))
           /\ ~Is("arr", Obj(x)) /\ Obj(x).obj = x /\ Obj(x) # Null
           /\ StringOf(Obj(x)) = Error
  <1>1. /\ Is("null", Null) /\ ~Is("str", Null) /\ ~Is("arr", Null)
        /\ StringOf(Null) = None /\ IdOf(Null) = None
    BY DEF Is, Null, StringOf, IdOf
  <1>2. ASSUME NEW x
        PROVE  /\ Is("str", Str(x)) /\ ~Is("null", Str(x)) /\ ~Is("arr", Str(x))
               /\ Str(x).str = x /\ StringOf(Str(x)) = x /\ Str(x) # Null
    BY DEF Is, Null, Str, StringOf
  <1>3. ASSUME NEW x
        PROVE  /\ Is("num", Num(x)) /\ ~Is("null", Num(x)) /\ Num(x).num = x
               /\ IdOf(Num(x)) = x /\ Num(x) # Null
    BY DEF Is, Null, Num, IdOf
  <1>4. ASSUME NEW x
        PROVE  /\ Is("arr", Arr(x)) /\ ~Is("null", Arr(x)) /\ ~Is("str", Arr(x))
               /\ ~Is("obj", Arr(x)) /\ Arr(x).arr = x /\ Arr(x) # Null
               /\ StringOf(Arr(x)) = Error
    BY DEF Is, Null, Arr, StringOf
  <1>5. ASSUME NEW x
        PROVE  /\ Is("obj", Obj(x)) /\ ~Is("null", Obj(x)) /\ ~Is("str", Obj(x))
               /\ ~Is("arr", Obj(x)) /\ Obj(x).obj = x /\ Obj(x) # Null
               /\ StringOf(Obj(x)) = Error
    BY DEF Is, Null, Obj, StringOf
  <1> QED BY <1>1, <1>2, <1>3, <1>4, <1>5

\* What a listed document has under each key.
LEMMA DocumentFields ==
  ASSUME NEW d, NEW r, NEW k
  PROVE  /\ Is("obj", Document(d, r))
         /\ DOMAIN Document(d, r).obj = DOMAIN d.obj
         /\ Field(Document(d, r), k) =
                IF k \in collectionFields THEN Listed(Field(d, k), r) ELSE Field(d, k)
  <1> DEFINE fields == [l \in DOMAIN d.obj |->
                IF l \in collectionFields THEN Listed(d.obj[l], r) ELSE d.obj[l]]
  <1>1. Document(d, r) = Obj(fields)
    BY DEF Document
  <1>2. Is("obj", Document(d, r)) /\ Document(d, r).obj = fields
    BY <1>1, Kinds
  <1>3. Listed(Null, r) = Null
    BY Kinds DEF Listed, IsJavaCollection
  <1>4. CASE k \in DOMAIN d.obj
    BY <1>2, <1>4 DEF Field
  <1>5. CASE k \notin DOMAIN d.obj
    BY <1>2, <1>3, <1>5 DEF Field
  <1> QED BY <1>2, <1>4, <1>5

\* What a stored document has under each key.
LEMMA StoredFields ==
  ASSUME NEW j, NEW id, NEW k
  PROVE  /\ Is("obj", Stored(j, id))
         /\ DOMAIN Stored(j, id).obj = DOMAIN j.obj \union {"id"}
         /\ Id(Stored(j, id)) = id
         /\ Field(Stored(j, id), k) =
                IF k = "id" THEN Num(id)
                ELSE IF k \in collectionFields THEN Listed(Field(j, k), FALSE) ELSE Field(j, k)
  <1> DEFINE fields == [l \in DOMAIN j.obj \union {"id"} |->
                IF l = "id" THEN Num(id) ELSE Document(j, FALSE).obj[l]]
  <1>1. Stored(j, id) = Obj(fields)
    BY DEF Stored
  <1>2. Is("obj", Stored(j, id)) /\ Stored(j, id).obj = fields
    BY <1>1, Kinds
  <1>3. Id(Stored(j, id)) = id
    BY <1>2, Kinds DEF Id
  <1>4. Field(Stored(j, id), "id") = Num(id)
    BY <1>2 DEF Field
  <1>5. ASSUME k # "id" PROVE Field(Stored(j, id), k) = Field(Document(j, FALSE), k)
    <2>1. DOMAIN Document(j, FALSE).obj = DOMAIN j.obj
      BY DocumentFields
    <2>2. CASE k \in DOMAIN j.obj
      BY <1>2, <1>5, <2>1, <2>2 DEF Field
    <2>3. CASE k \notin DOMAIN j.obj
      BY <1>2, <1>5, <2>1, <2>3 DEF Field
    <2> QED BY <2>2, <2>3
  <1> QED BY <1>2, <1>3, <1>4, <1>5, DocumentFields

\* What an encoded service has under each key: nothing, when the value is null.
Encoded(s, key) ==
    CASE key = "@class"       -> Str(s.class)
      [] key = "id"           -> IF s.id = None THEN Null ELSE Num(s.id)
      [] key = "serviceId"    -> IF s.serviceID = None THEN Null ELSE Str(s.serviceID)
      [] key = "properties"   -> MarshalProperties(s.properties)
      [] key = "clientId"     -> IF s.clientID = None THEN Null ELSE Str(s.clientID)
      [] key = "clientSecret" -> IF s.clientSecret = None THEN Null ELSE Str(s.clientSecret)
      [] key = "scopes"       -> IF s.scopes = None THEN Null ELSE MarshalStringCollection(s.scopes)
      [] key = "audience"     -> IF s.audience = None THEN Null
                                 ELSE MarshalStringCollection(s.audience)

\* A field whose value is null is left out, which reads the same.
LEMMA MarshalFields ==
  ASSUME NEW s
  PROVE  /\ Is("obj", MarshalService(s))
         /\ DOMAIN MarshalService(s).obj = {k \in serviceKeys : ~Is("null", Encoded(s, k))}
         /\ \A k \in serviceKeys : Field(MarshalService(s), k) = Encoded(s, k)
  <1> DEFINE fields == [k \in {key \in serviceKeys : ~Is("null", Encoded(s, key))} |-> Encoded(s, k)]
  <1>1. MarshalService(s) = Obj(fields)
    BY Zenon DEF MarshalService, Encoded
  <1>2. Is("obj", MarshalService(s)) /\ MarshalService(s).obj = fields
    BY <1>1, Kinds
  <1>3. ASSUME NEW k \in serviceKeys, Is("null", Encoded(s, k)) PROVE Encoded(s, k) = Null
    <2>1. ~Is("null", MarshalProperties(s.properties))
      BY Kinds DEF MarshalProperties
    <2>2. \A c : ~Is("null", MarshalStringCollection(c))
      BY Kinds DEF MarshalStringCollection
    <2> QED BY <1>3, <2>1, <2>2, Kinds DEF Encoded, serviceKeys
  <1> QED BY <1>2, <1>3 DEF Field

\* j is a HashSet of the strings in S.
JavaSet(j, S) ==
    \E v \in Seq({Str(x) : x \in S}) :
        j = Arr(<<Str(hashSetClass), Arr(v)>>) /\ ToSet(v) = {Str(x) : x \in S}

\* Such a set is what CAS takes for a Java collection.
LEMMA JavaSetKinds ==
  ASSUME NEW j, NEW S, JavaSet(j, S)
  PROVE  /\ IsJavaCollection(j) /\ ~Is("null", j) /\ j # Null
         /\ ToSet(j.arr[2].arr) = {Str(x) : x \in S}
  <1> DEFINE Strs == {Str(x) : x \in S}
  <1>1. PICK v \in Seq(Strs) : j = Arr(<<Str(hashSetClass), Arr(v)>>) /\ ToSet(v) = Strs
    BY DEF JavaSet
  <1>2. \A i \in DOMAIN v : Is("str", v[i])
    BY Kinds
  <1> HIDE DEF Strs
  <1>3. j.arr = <<Str(hashSetClass), Arr(v)>> /\ Is("arr", j) /\ ~Is("null", j) /\ j # Null
    BY <1>1, Kinds
  <1>4. Len(j.arr) = 2 /\ j.arr[1] = Str(hashSetClass) /\ j.arr[2] = Arr(v) /\ j.arr[2].arr = v
    BY <1>3, Kinds
  <1> QED BY <1>1, <1>2, <1>3, <1>4, Kinds DEF IsJavaCollection, Strs

\* CAS lists the members of a set, in any order.
LEMMA JavaSetListed ==
  ASSUME NEW j, NEW S, NEW r, JavaSet(j, S)
  PROVE  JavaSet(Listed(j, r), S)
  <1> DEFINE Strs == {Str(x) : x \in S}
             w == IF r THEN Reverse(SetToSeq(Strs)) ELSE SetToSeq(Strs)
  <1>1. PICK v \in Seq(Strs) : j = Arr(<<Str(hashSetClass), Arr(v)>>) /\ ToSet(v) = Strs
    BY DEF JavaSet
  <1>2. IsFiniteSet(Strs)
    <2> HIDE DEF Strs
    <2> QED BY <1>1, ElementsFinite
  <1>3. IsJavaCollection(j)
    BY JavaSetKinds
  <1> HIDE DEF Strs
  <1>4. Lists(w, Strs)
    BY <1>2, EitherOrderLists
  <1> HIDE DEF w
  <1>5. w \in Seq(Strs) /\ ToSet(w) = Strs
    BY <1>4 DEF Lists, ToSet
  <1>6. j.arr[1] = Str(hashSetClass) /\ j.arr[2].arr = v
    BY <1>1, Kinds
  <1>7. {j.arr[2].arr[i] : i \in DOMAIN j.arr[2].arr} = Strs
    BY <1>1, <1>6, Zenon DEF ToSet
  <1>8. Listed(j, r) = Arr(<<j.arr[1], Arr(w)>>)
    BY <1>3, <1>7, Zenon DEF Listed, w
  <1> QED BY <1>5, <1>6, <1>8, Zenon DEF JavaSet, Strs

\* A set is decoded.
LEMMA JavaSetDecoded ==
  ASSUME AtomsApart, NEW j, NEW S, Error \notin S, JavaSet(j, S)
  PROVE  UnmarshalOptional(j) # Error
  <1> DEFINE Strs == {Str(x) : x \in S}
  <1>1. PICK v \in Seq(Strs) : j = Arr(<<Str(hashSetClass), Arr(v)>>) /\ ToSet(v) = Strs
    BY DEF JavaSet
  <1>2. \A i \in DOMAIN v : StringOf(v[i]) # Error
    BY Kinds
  <1> HIDE DEF Strs
  <1>3. ~Is("null", j) /\ IsWrapper(j) /\ j.arr[2] = Arr(v)
    <2>1. hashSetClass # Error
      BY ErrorAssumption
    <2> QED BY <1>1, <2>1, Kinds DEF IsWrapper
  <1> DEFINE values == [i \in DOMAIN v |-> StringOf(v[i])]
  <1>4. SliceOf(Arr(v), StringOf) = values
    <2>1. ~Is("null", Arr(v)) /\ Is("arr", Arr(v)) /\ Arr(v).arr = v
      BY Kinds
    <2> QED BY <1>2, <2>1, Zenon DEF SliceOf
  <1>5. values # Error
    BY Zenon DEF AtomsApart
  <1>6. UnmarshalOptional(j) = NewStringCollection(StringOf(j.arr[1]), values)
    BY <1>3, <1>4, <1>5, Zenon DEF UnmarshalOptional, UnmarshalStringCollection
  <1> QED BY <1>6 DEF NewStringCollection, AtomsApart

\* A set is encoded as what it holds.
LEMMA JavaSetEncoded ==
  ASSUME NEW T, NEW v \in Seq(T), NEW S, ToSet(v) = S
  PROVE  JavaSet(MarshalStringCollection([class |-> hashSetClass, values |-> v]), S)
  <1> DEFINE c == [class |-> hashSetClass, values |-> v]
             w == [i \in DOMAIN v |-> Str(v[i])]
             Strs == {Str(x) : x \in S}
  <1>1. MarshalStringCollection(c) = Arr(<<Str(hashSetClass), Arr(w)>>)
    <2>1. c.values = v /\ c.class = hashSetClass
      OBVIOUS
    <2> HIDE DEF c
    <2> QED BY <2>1, Zenon DEF MarshalStringCollection
  <1>2. \A i \in DOMAIN v : v[i] \in S
    BY DEF ToSet
  <1>3. w \in Seq(Strs)
    BY <1>2
  <1>4. ToSet(w) = Strs
    BY <1>2 DEF ToSet
  <1> QED BY <1>1, <1>3, <1>4 DEF JavaSet

\* The name of a service is decoded as it was encoded, and CAS accepts it.
LEMMA NameDecoded ==
  ASSUME AtomsApart, NEW c, c # Error
  PROVE  LET j == MarshalProperties([ServiceName |-> <<c>>])
         IN  /\ UnmarshalProperties(j) # Error
             /\ GetFirstValue(UnmarshalProperties(j), "ServiceName") = c
             /\ \A p \in DOMAIN j.obj \ {"@class"} : IsJavaCollection(j.obj[p].obj["values"])
  <1> DEFINE names == [ServiceName |-> <<c>>]
             j == MarshalProperties(names)
             set == MarshalStringCollection(NewStringCollection(linkedHashSetClass, <<c>>))
             fields == [f \in {"@class", "values"} |->
                IF f = "values" THEN set ELSE Str("DefaultRegisteredServiceProperty")]
  <1>1. PICK class \in {hashSetClass, linkedHashSetClass} : set = Arr(<<Str(class), Arr(<<Str(c)>>)>>)
    <2> DEFINE sc == NewStringCollection(linkedHashSetClass, <<c>>)
               class == IF sc.class = None THEN hashSetClass ELSE sc.class
    <2>1. sc.class = linkedHashSetClass /\ sc.values = <<c>>
      BY DEF NewStringCollection
    <2>2. class \in {hashSetClass, linkedHashSetClass}
      BY <2>1
    <2>3. [i \in DOMAIN sc.values |-> Str(sc.values[i])] = <<Str(c)>>
      BY <2>1
    <2>4. set = Arr(<<Str(class), Arr(<<Str(c)>>)>>)
      BY <2>3 DEF MarshalStringCollection
    <2> QED BY <2>2, <2>4
  <1>2. Is("obj", j) /\ DOMAIN j.obj = {"ServiceName", "@class"}
        /\ j.obj["ServiceName"] = Obj(fields) /\ j.obj["@class"] = Str("HashMap")
    <2> HIDE DEF set
    <2>1. DOMAIN names = {"ServiceName"} /\ names["ServiceName"] = <<c>>
      OBVIOUS
    <2> HIDE DEF names
    <2> DEFINE whole == [k \in {"ServiceName"} \union {"@class"} |->
                IF k = "@class" THEN Str("HashMap")
                ELSE Obj([f \in {"@class", "values"} |->
                          IF f = "values"
                          THEN MarshalStringCollection(NewStringCollection(linkedHashSetClass, names[k]))
                          ELSE Str("DefaultRegisteredServiceProperty")])]
    <2>2. j = Obj(whole)
      BY <2>1, Zenon DEF MarshalProperties
    <2>3. Is("obj", j) /\ j.obj = whole
      BY <2>2, Kinds
    <2>4. whole["ServiceName"] = Obj(fields) /\ whole["@class"] = Str("HashMap")
      BY <2>1 DEF set
    <2> QED BY <2>3, <2>4
  <1> HIDE DEF j, names
  <1>3. /\ Is("arr", set) /\ ~Is("null", set) /\ set.arr = <<Str(class), Arr(<<Str(c)>>)>>
        /\ Len(set.arr) = 2 /\ set.arr[1] = Str(class) /\ set.arr[2] = Arr(<<Str(c)>>)
        /\ set.arr[2].arr = <<Str(c)>>
    BY <1>1, Kinds
  <1>4. IsJavaCollection(set) /\ IsWrapper(set)
    <2>1. class # Error
      BY ErrorAssumption
    <2> QED BY <1>3, <2>1, Kinds DEF IsJavaCollection, IsWrapper
  <1> DEFINE slice == [i \in DOMAIN <<Str(c)>> |-> StringOf(<<Str(c)>>[i])]
  <1>5. slice = <<c>> /\ slice # Error /\ slice # None
    <2>1. slice = <<c>>
      BY Kinds
    <2>2. slice # Error /\ slice # None
      BY Zenon DEF AtomsApart
    <2> QED BY <2>1, <2>2
  <1>6. SliceOf(Arr(<<Str(c)>>), StringOf) = <<c>>
    <2> DEFINE a == <<Str(c)>>
    <2>1. ~Is("null", Arr(a)) /\ Is("arr", Arr(a)) /\ Arr(a).arr = a
      BY Kinds
    <2>2. \A i \in DOMAIN a : [l \in DOMAIN a |-> StringOf(a[l])][i] # Error
      BY Kinds
    <2>3. SliceOf(Arr(a), StringOf) = slice
      <3> HIDE DEF a
      <3>1. SliceOf(Arr(a), StringOf) = [l \in DOMAIN a |-> StringOf(a[l])]
        BY <2>1, <2>2, Zenon DEF SliceOf
      <3> QED BY <3>1, Zenon DEF a
    <2> QED BY <1>5, <2>3
  <1> HIDE DEF set, slice
  <1>7. UnmarshalStringCollection(set) = NewStringCollection(StringOf(set.arr[1]), <<c>>)
    BY <1>3, <1>4, <1>5, <1>6, Zenon DEF UnmarshalStringCollection
  <1>8. UnmarshalStringCollection(set) # Error /\ UnmarshalStringCollection(set).values = <<c>>
    BY <1>7 DEF NewStringCollection, AtomsApart
  <1>9. UnmarshalProperty(Obj(fields)) = <<c>>
    <2>1. Field(Obj(fields), "values") = set
          /\ Field(Obj(fields), "@class") = Str("DefaultRegisteredServiceProperty")
      BY Kinds DEF Field
    <2>2. StringOf(Field(Obj(fields), "@class")) # Error
      BY <2>1, Kinds, ErrorAssumption
    <2>3. ~Is("null", Obj(fields)) /\ Is("obj", Obj(fields))
      BY Kinds
    <2> HIDE DEF fields
    <2> QED BY <1>8, <2>1, <2>2, <2>3 DEF UnmarshalProperty
  <1> DEFINE entries == [k \in DOMAIN j.obj \ {"@class"} |-> UnmarshalProperty(j.obj[k])]
  <1>10. UnmarshalProperties(j) = entries
    <2>1. Field(j, "@class") = Str("HashMap")
      BY <1>2 DEF Field
    <2>2. StringOf(Field(j, "@class")) # Error /\ ~Is("null", j)
      BY <1>2, <2>1, Kinds, ErrorAssumption DEF Is
    <2>3. \A k \in DOMAIN entries : entries[k] # Error
      BY <1>2, <1>5, <1>9
    <2> QED BY <1>2, <2>2, <2>3, Zenon DEF UnmarshalProperties
  <1>11. entries # Error /\ entries # None
    BY Zenon DEF AtomsApart
  <1>12. "ServiceName" \in DOMAIN entries /\ entries["ServiceName"] = <<c>>
    BY <1>2, <1>9
  <1> HIDE DEF entries
  <1>13. GetFirstValue(entries, "ServiceName") = c
    BY <1>11, <1>12 DEF GetFirstValue
  <1>14. \A p \in DOMAIN j.obj \ {"@class"} : IsJavaCollection(j.obj[p].obj["values"])
    <2>1. Obj(fields).obj["values"] = set
      BY Kinds
    <2> HIDE DEF fields
    <2> QED BY <1>2, <1>4, <2>1
  <1> QED BY <1>10, <1>11, <1>13, <1>14 DEF j, names

-------------------------------------------------------------------------------
(***************************************************************************)
(* The operator's documents                                                *)
(***************************************************************************)

\* A service as the mapper builds it.
IsPayload(s) ==
    /\ s.class \in {serviceClass[p] : p \in Protocols}
    /\ s.id \in ServiceIds \union {None}
    /\ \E f \in Fqdns : \E c \in Consumers :
            s.serviceID = <<f, c>> /\ s.properties = [ServiceName |-> <<c>>]
    /\ s.clientID \in Consumers \union ClientIds \union {None}
    /\ s.clientSecret \in Hashes \union {None}
    /\ \A k \in collectionFields : s[k] # None =>
            \E T : \E v \in Seq(T) :
                Error \notin ToSet(v) /\ s[k] = [class |-> hashSetClass, values |-> v]

\* A document in the registry that the operator has written.
OwnDoc(d) ==
    /\ Is("obj", d)
    /\ \A k \in serviceKeys : k \in DOMAIN d.obj <=> Field(d, k) # Null
    /\ Field(d, "@class") \in {Str(serviceClass[p]) : p \in Protocols}
    /\ Field(d, "id") \in {Num(i) : i \in ServiceIds}
    /\ \E f \in Fqdns : \E c \in Consumers :
            /\ Field(d, "serviceId") = Str(<<f, c>>)
            /\ Field(d, "properties") = MarshalProperties([ServiceName |-> <<c>>])
    /\ Field(d, "clientId") \in {Null} \union {Str(x) : x \in Consumers \union ClientIds}
    /\ Field(d, "clientSecret") \in {Null} \union {Str(h) : h \in Hashes}
    /\ \A k \in collectionFields : Field(d, k) # Null =>
            \E S : Error \notin S /\ JavaSet(Field(d, k), S)

\* The values of an own document, read through its fields.
LEMMA OwnValues ==
  ASSUME NEW d, OwnDoc(d)
  PROVE  /\ Field(d, "@class") = Str(d.obj["@class"].str)
         /\ d.obj["@class"].str \in {serviceClass[p] : p \in Protocols}
         /\ Field(d, "id") = Num(Id(d)) /\ Id(d) \in ServiceIds
         /\ Field(d, "serviceId") = Str(d.obj["serviceId"].str)
         /\ \E f \in Fqdns : \E c \in Consumers :
                /\ d.obj["serviceId"].str = <<f, c>>
                /\ Field(d, "properties") = MarshalProperties([ServiceName |-> <<c>>])
  <1>1. PICK p \in Protocols : Field(d, "@class") = Str(serviceClass[p])
    BY Zenon DEF OwnDoc
  <1>2. PICK i \in ServiceIds : Field(d, "id") = Num(i)
    BY Zenon DEF OwnDoc
  <1>3. PICK f \in Fqdns, c \in Consumers :
            /\ Field(d, "serviceId") = Str(<<f, c>>)
            /\ Field(d, "properties") = MarshalProperties([ServiceName |-> <<c>>])
    BY Zenon DEF OwnDoc
  <1>4. /\ d.obj["@class"] = Field(d, "@class") /\ d.obj["id"] = Field(d, "id")
        /\ d.obj["serviceId"] = Field(d, "serviceId")
    <2>1. Field(d, "@class") # Null /\ Field(d, "id") # Null /\ Field(d, "serviceId") # Null
      BY <1>1, <1>2, <1>3, Kinds
    <2>2. "@class" \in DOMAIN d.obj /\ "id" \in DOMAIN d.obj /\ "serviceId" \in DOMAIN d.obj
      BY <2>1 DEF OwnDoc, serviceKeys
    <2> QED BY <2>2 DEF Field
  <1>5. d.obj["@class"].str = serviceClass[p] /\ d.obj["serviceId"].str = <<f, c>>
    BY <1>1, <1>3, <1>4, Kinds
  <1>6. Id(d) = i
    BY <1>2, <1>4, Kinds DEF Id
  <1> QED BY <1>1, <1>2, <1>3, <1>5, <1>6

\* What the operator writes is accepted and becomes such a document.
LEMMA PayloadStored ==
  ASSUME AtomsApart, NEW s, IsPayload(s), NEW id
  PROVE  LET d == Stored(MarshalService(s), id)
         IN  /\ id \in ServiceIds => OwnDoc(d)
             /\ Accepts(MarshalService(s)) /\ Id(d) = id
             /\ d.obj["@class"].str = s.class /\ d.obj["serviceId"].str = s.serviceID
             /\ StringOf(Field(d, "clientId")) = s.clientID
             /\ StringOf(Field(d, "clientSecret")) = s.clientSecret
             /\ \A k \in collectionFields :
                    /\ s[k] = None => k \notin DOMAIN d.obj
                    /\ \A T : \A v \in Seq(T) :
                        s[k] = [class |-> hashSetClass, values |-> v] =>
                            JavaSet(d.obj[k], ToSet(v))
  <1> DEFINE j == MarshalService(s)
             d == Stored(j, id)
  <1>1. /\ Is("obj", j) /\ DOMAIN j.obj = {k \in serviceKeys : ~Is("null", Encoded(s, k))}
        /\ \A k \in serviceKeys : Field(j, k) = Encoded(s, k)
    BY MarshalFields
  <1>2. PICK f \in Fqdns, c \in Consumers :
            s.serviceID = <<f, c>> /\ s.properties = [ServiceName |-> <<c>>]
    BY DEF IsPayload
  <1>3. s.serviceID # None
    BY <1>2 DEF AtomsApart
  <1>4. /\ Encoded(s, "@class") = Str(s.class)
        /\ Encoded(s, "serviceId") = Str(s.serviceID)
        /\ Encoded(s, "properties") = MarshalProperties([ServiceName |-> <<c>>])
        /\ Encoded(s, "clientId") = IF s.clientID = None THEN Null ELSE Str(s.clientID)
        /\ Encoded(s, "clientSecret") = IF s.clientSecret = None THEN Null ELSE Str(s.clientSecret)
        /\ \A k \in collectionFields :
            Encoded(s, k) = IF s[k] = None THEN Null ELSE MarshalStringCollection(s[k])
    BY <1>2, <1>3 DEF Encoded, collectionFields
  <1>5. ASSUME NEW k \in collectionFields, NEW T, NEW v \in Seq(T),
               s[k] = [class |-> hashSetClass, values |-> v]
        PROVE  s[k] # None /\ JavaSet(Encoded(s, k), ToSet(v))
    <2>1. s[k] # None
      BY <1>5 DEF AtomsApart
    <2> QED BY <1>4, <1>5, <2>1, JavaSetEncoded
  <1>6. ASSUME NEW k \in serviceKeys, Encoded(s, k) # Null
        PROVE  ~Is("null", Encoded(s, k)) /\ k \in DOMAIN j.obj
    <2>1. ~Is("null", MarshalProperties(s.properties))
      BY Kinds DEF MarshalProperties
    <2>2. \A x : ~Is("null", MarshalStringCollection(x))
      BY Kinds DEF MarshalStringCollection
    <2>3. ~Is("null", Encoded(s, k))
      BY <1>6, <2>1, <2>2, Kinds DEF Encoded, serviceKeys
    <2> QED BY <1>1, <2>3
  <1>7. ASSUME NEW k \in serviceKeys, Encoded(s, k) = Null PROVE k \notin DOMAIN j.obj
    BY <1>1, <1>7, Kinds
  <1> HIDE DEF j, d
  <1>8. /\ Is("obj", d) /\ DOMAIN d.obj = DOMAIN j.obj \union {"id"} /\ Id(d) = id
        /\ Field(d, "id") = Num(id)
        /\ \A k \in serviceKeys \ {"id"} : Field(d, k) =
                IF k \in collectionFields THEN Listed(Encoded(s, k), FALSE) ELSE Encoded(s, k)
    <2>1. Is("obj", d) /\ DOMAIN d.obj = DOMAIN j.obj \union {"id"} /\ Id(d) = id
          /\ Field(d, "id") = Num(id)
      BY StoredFields DEF d
    <2>2. ASSUME NEW k \in serviceKeys \ {"id"}
          PROVE  Field(d, k) =
                IF k \in collectionFields THEN Listed(Encoded(s, k), FALSE) ELSE Encoded(s, k)
      BY <1>1, <2>2, StoredFields DEF d
    <2> QED BY <2>1, <2>2
  <1>9. /\ collectionFields \subseteq serviceKeys \ {"id"}
        /\ {"@class", "serviceId", "properties", "clientId", "clientSecret"}
                \subseteq (serviceKeys \ {"id"}) \ collectionFields
    BY DEF serviceKeys, collectionFields
  <1>10. Listed(Null, FALSE) = Null
    BY Kinds DEF Listed, IsJavaCollection
  <1>11. \A k \in collectionFields : s[k] # None =>
            \E S : Error \notin S /\ JavaSet(Encoded(s, k), S) /\ JavaSet(Field(d, k), S)
    <2> SUFFICES ASSUME NEW k \in collectionFields, s[k] # None
                 PROVE  \E S : Error \notin S /\ JavaSet(Encoded(s, k), S) /\ JavaSet(Field(d, k), S)
      OBVIOUS
    <2>1. PICK T : \E v \in Seq(T) :
                Error \notin ToSet(v) /\ s[k] = [class |-> hashSetClass, values |-> v]
      BY DEF IsPayload
    <2>2. PICK v \in Seq(T) : Error \notin ToSet(v) /\ s[k] = [class |-> hashSetClass, values |-> v]
      BY <2>1
    <2>3. JavaSet(Encoded(s, k), ToSet(v))
      BY <1>5, <2>2
    <2>4. JavaSet(Field(d, k), ToSet(v))
      BY <1>8, <1>9, <2>3, JavaSetListed
    <2> QED BY <2>2, <2>3, <2>4
  <1>12. \A k \in serviceKeys : k \in DOMAIN d.obj <=> Field(d, k) # Null
    <2> SUFFICES ASSUME NEW k \in serviceKeys PROVE k \in DOMAIN d.obj <=> Field(d, k) # Null
      OBVIOUS
    <2>1. CASE k = "id"
      BY <1>8, <2>1, Kinds
    <2>2. CASE k \in collectionFields
      <3>1. CASE s[k] = None
        BY <1>4, <1>7, <1>8, <1>9, <1>10, <2>2, <3>1
      <3>2. CASE s[k] # None
        <4>1. PICK S : JavaSet(Encoded(s, k), S) /\ JavaSet(Field(d, k), S)
          BY <1>11, <2>2, <3>2
        <4>2. Encoded(s, k) # Null /\ Field(d, k) # Null
          BY <4>1, JavaSetKinds
        <4> QED BY <1>6, <1>8, <4>2
      <3> QED BY <3>1, <3>2
    <2>3. CASE k \notin collectionFields /\ k # "id"
      BY <1>6, <1>7, <1>8, <2>3
    <2> QED BY <2>1, <2>2, <2>3
  <1>13. /\ Field(d, "@class") = Str(s.class) /\ Field(d, "serviceId") = Str(<<f, c>>)
         /\ Field(d, "properties") = MarshalProperties([ServiceName |-> <<c>>])
         /\ Field(d, "clientId") = IF s.clientID = None THEN Null ELSE Str(s.clientID)
         /\ Field(d, "clientSecret") = IF s.clientSecret = None THEN Null ELSE Str(s.clientSecret)
    BY <1>2, <1>4, <1>8, <1>9
  <1>14. ASSUME id \in ServiceIds PROVE OwnDoc(d)
    <2>1. Field(d, "@class") \in {Str(serviceClass[p]) : p \in Protocols}
      BY <1>13 DEF IsPayload
    <2>2. Field(d, "id") \in {Num(i) : i \in ServiceIds}
      BY <1>8, <1>14
    <2>3. Field(d, "clientId") \in {Null} \union {Str(x) : x \in Consumers \union ClientIds}
      BY <1>13 DEF IsPayload
    <2>4. Field(d, "clientSecret") \in {Null} \union {Str(h) : h \in Hashes}
      BY <1>13 DEF IsPayload
    <2>5. \A k \in collectionFields : Field(d, k) # Null =>
            \E S : Error \notin S /\ JavaSet(Field(d, k), S)
      <3> SUFFICES ASSUME NEW k \in collectionFields, Field(d, k) # Null
                   PROVE  \E S : Error \notin S /\ JavaSet(Field(d, k), S)
        OBVIOUS
      <3>1. s[k] # None
        BY <1>4, <1>8, <1>9, <1>10
      <3> QED BY <1>11, <3>1
    <2> QED BY <1>8, <1>12, <1>13, <2>1, <2>2, <2>3, <2>4, <2>5, Zenon DEF OwnDoc
  <1>15. d.obj["@class"].str = s.class /\ d.obj["serviceId"].str = s.serviceID
    <2>1. Field(d, "@class").str = s.class /\ Field(d, "serviceId").str = s.serviceID
      BY <1>2, <1>13, Kinds
    <2>2. Field(d, "@class") # Null /\ Field(d, "serviceId") # Null
      BY <1>13, Kinds
    <2>3. "@class" \in DOMAIN d.obj /\ "serviceId" \in DOMAIN d.obj
      BY <1>9, <1>12, <2>2
    <2> QED BY <2>1, <2>3 DEF Field
  <1>16. StringOf(Field(d, "clientId")) = s.clientID /\ StringOf(Field(d, "clientSecret")) = s.clientSecret
    BY <1>13, Kinds
  <1>17. ASSUME NEW k \in collectionFields
         PROVE  /\ s[k] = None => k \notin DOMAIN d.obj
                /\ \A T : \A v \in Seq(T) :
                    s[k] = [class |-> hashSetClass, values |-> v] => JavaSet(d.obj[k], ToSet(v))
    <2>1. s[k] = None => k \notin DOMAIN d.obj
      BY <1>4, <1>8, <1>9, <1>10, <1>12
    <2>2. ASSUME NEW T, NEW v \in Seq(T), s[k] = [class |-> hashSetClass, values |-> v]
          PROVE  JavaSet(d.obj[k], ToSet(v))
      <3>1. JavaSet(Encoded(s, k), ToSet(v))
        BY <1>5, <2>2
      <3>2. JavaSet(Field(d, k), ToSet(v))
        BY <1>8, <1>9, <3>1, JavaSetListed
      <3>3. Field(d, k) # Null
        BY <3>2, JavaSetKinds
      <3>4. k \in DOMAIN d.obj
        BY <1>9, <1>12, <3>3
      <3> QED BY <3>2, <3>4 DEF Field
    <2> QED BY <2>1, <2>2
  <1>18. Accepts(j)
    <2>1. Is("str", Field(j, "@class"))
      BY <1>1, <1>4, <1>9, Kinds
    <2>2. ASSUME NEW k \in collectionFields \intersect DOMAIN j.obj PROVE IsJavaCollection(j.obj[k])
      <3>1. Field(j, k) = Encoded(s, k) /\ j.obj[k] = Field(j, k)
        BY <1>1, <1>9 DEF Field
      <3>2. s[k] # None
        BY <1>4, <1>7, <1>9
      <3>3. PICK S : JavaSet(Encoded(s, k), S)
        BY <1>11, <3>2
      <3> QED BY <3>1, <3>3, JavaSetKinds
    <2>3. j.obj["properties"] = MarshalProperties([ServiceName |-> <<c>>])
      <3>1. Encoded(s, "properties") # Null
        BY <1>4, Kinds DEF MarshalProperties
      <3>2. "properties" \in DOMAIN j.obj
        BY <1>6, <1>9, <3>1
      <3> QED BY <1>1, <1>4, <1>9, <3>2 DEF Field
    <2>4. c # Error
      BY ErrorAssumption
    <2>5. \A p \in DOMAIN j.obj["properties"].obj \ {"@class"} :
            IsJavaCollection(j.obj["properties"].obj[p].obj["values"])
      BY <2>3, <2>4, NameDecoded
    <2> QED BY <2>1, <2>2, <2>5 DEF Accepts
  <1> QED BY <1>8, <1>14, <1>15, <1>16, <1>17, <1>18 DEF d, j

-------------------------------------------------------------------------------
(***************************************************************************)
(* Decoding a document                                                     *)
(***************************************************************************)

\* A Java collection is decoded exactly when its class and its members are.
LEMMA CollectionDecoded ==
  ASSUME AtomsApart, NEW j, IsJavaCollection(j), 1 \in DOMAIN j.arr
  PROVE  UnmarshalOptional(j) # Error <=>
            /\ StringOf(j.arr[1]) # Error
            /\ \A x \in ToSet(j.arr[2].arr) : StringOf(x) # Error
  <1> DEFINE v == j.arr[2].arr
             values == [i \in DOMAIN v |-> StringOf(v[i])]
  <1>1. /\ Is("arr", j) /\ ~Is("null", j) /\ Len(j.arr) = 2
        /\ Is("arr", j.arr[2]) /\ ~Is("null", j.arr[2])
    BY DEF IsJavaCollection, Is
  <1>2. values # Error
    BY Zenon DEF AtomsApart
  <1>3. (\A x \in ToSet(v) : StringOf(x) # Error) <=> \A i \in DOMAIN v : values[i] # Error
    BY DEF ToSet
  <1>4. SliceOf(j.arr[2], StringOf) =
            IF \A i \in DOMAIN v : values[i] # Error THEN values ELSE Error
    BY <1>1, Zenon DEF SliceOf
  <1> HIDE DEF v, values
  <1>5. CASE StringOf(j.arr[1]) # Error
    <2>1. IsWrapper(j)
      BY <1>1, <1>5 DEF IsWrapper
    <2>2. CASE \A i \in DOMAIN v : values[i] # Error
      <3>1. SliceOf(j.arr[2], StringOf) = values
        BY <1>4, <2>2
      <3>2. UnmarshalOptional(j) = NewStringCollection(StringOf(j.arr[1]), values)
        BY <1>1, <1>2, <2>1, <3>1, Zenon DEF UnmarshalOptional, UnmarshalStringCollection
      <3>3. UnmarshalOptional(j) # Error
        BY <3>2 DEF NewStringCollection, AtomsApart
      <3> QED BY <1>3, <1>5, <2>2, <3>3 DEF v
    <2>3. CASE ~\A i \in DOMAIN v : values[i] # Error
      <3>1. SliceOf(j.arr[2], StringOf) = Error
        BY <1>4, <2>3
      <3>2. UnmarshalOptional(j) = Error
        BY <1>1, <2>1, <3>1, Zenon DEF UnmarshalOptional, UnmarshalStringCollection
      <3> QED BY <1>3, <2>3, <3>2 DEF v
    <2> QED BY <2>2, <2>3
  <1>6. CASE StringOf(j.arr[1]) = Error
    <2>1. ~IsWrapper(j)
      BY <1>6 DEF IsWrapper
    <2>2. SliceOf(j, StringOf) = Error
      BY <1>1, <1>6 DEF SliceOf
    <2>3. UnmarshalOptional(j) = Error
      BY <1>1, <2>1, <2>2, Zenon DEF UnmarshalOptional, UnmarshalStringCollection
    <2> QED BY <1>6, <2>3
  <1> QED BY <1>5, <1>6

\* So it makes no difference to the decoder in which order CAS lists it.
LEMMA ListedDecoded ==
  ASSUME AtomsApart, NEW j, NEW r,
         IsJavaCollection(j) =>
            \A values \in {j.arr, j.arr[2].arr} : values \in Seq(ToSet(values))
  PROVE  UnmarshalOptional(Listed(j, r)) # Error <=> UnmarshalOptional(j) # Error
  <1>1. CASE ~IsJavaCollection(j)
    BY <1>1 DEF Listed
  <1>2. CASE IsJavaCollection(j)
    <2> DEFINE v == j.arr[2].arr
               members == {v[i] : i \in DOMAIN v}
               w == IF r THEN Reverse(SetToSeq(members)) ELSE SetToSeq(members)
               l == Listed(j, r)
    <2>1. members = ToSet(v) /\ IsFiniteSet(members)
      <3>1. v \in Seq(ToSet(v))
        BY <1>2
      <3>2. members = ToSet(v)
        BY Zenon DEF ToSet
      <3> QED BY <3>1, <3>2, ElementsFinite
    <2>2. /\ Len(j.arr) = 2 /\ Is("str", j.arr[1]) /\ \A i \in DOMAIN v : Is("str", v[i])
          /\ 1 \in DOMAIN j.arr
      BY <1>2 DEF IsJavaCollection
    <2>3. l = Arr(<<j.arr[1], Arr(w)>>)
      BY <1>2, Zenon DEF Listed
    <2>4. Lists(w, members)
      <3> HIDE DEF members
      <3> QED BY <2>1, EitherOrderLists
    <2>5. \A x \in members : Is("str", x)
      BY <2>2
    <2> HIDE DEF members, w, l, v
    <2>6. ToSet(w) = members /\ \A i \in DOMAIN w : Is("str", w[i])
      BY <2>4, <2>5 DEF Lists, ToSet
    <2>7. /\ Is("arr", l) /\ Len(l.arr) = 2 /\ l.arr[1] = j.arr[1] /\ l.arr[2] = Arr(w)
          /\ l.arr[2].arr = w /\ Is("arr", l.arr[2]) /\ 1 \in DOMAIN l.arr
      BY <2>3, Kinds
    <2>8. IsJavaCollection(l)
      BY <2>2, <2>6, <2>7 DEF IsJavaCollection
    <2>9. ToSet(l.arr[2].arr) = ToSet(j.arr[2].arr)
      BY <2>1, <2>6, <2>7 DEF v
    <2> QED BY <1>2, <2>2, <2>7, <2>8, <2>9, CollectionDecoded DEF l
  <1> QED BY <1>1, <1>2

\* What the decoder reads from a document, if it can.
Decoded(j) ==
    [class        |-> StringOf(Field(j, "@class")),
     id           |-> IdOf(Field(j, "id")),
     serviceID    |-> StringOf(Field(j, "serviceId")),
     properties   |-> UnmarshalProperties(Field(j, "properties")),
     clientID     |-> StringOf(Field(j, "clientId")),
     clientSecret |-> StringOf(Field(j, "clientSecret")),
     scopes       |-> UnmarshalOptional(Field(j, "scopes")),
     audience     |-> UnmarshalOptional(Field(j, "audience"))]

\* A document is decoded exactly when each of its fields is.
LEMMA DecodedFields ==
  ASSUME AtomsApart, NEW j, Is("obj", j)
  PROVE  /\ Decoded(j) \notin {None, Error}
         /\ UnmarshalService(j) # Error => UnmarshalService(j) = Decoded(j)
         /\ UnmarshalService(j) # Error <=>
                Error \notin {StringOf(Field(j, "@class")), IdOf(Field(j, "id")),
                    StringOf(Field(j, "serviceId")), UnmarshalProperties(Field(j, "properties")),
                    StringOf(Field(j, "clientId")), StringOf(Field(j, "clientSecret")),
                    UnmarshalOptional(Field(j, "scopes")), UnmarshalOptional(Field(j, "audience"))}
  <1>1. Decoded(j) \notin {None, Error}
    BY DEF Decoded, AtomsApart
  <1>2. ~Is("null", j)
    BY DEF Is
  <1>3. UnmarshalService(j) =
            IF \A f \in DOMAIN Decoded(j) : Decoded(j)[f] # Error THEN Decoded(j) ELSE Error
    BY <1>2, Zenon DEF UnmarshalService, Decoded
  <1>4. (\A f \in DOMAIN Decoded(j) : Decoded(j)[f] # Error) <=>
                Error \notin {StringOf(Field(j, "@class")), IdOf(Field(j, "id")),
                    StringOf(Field(j, "serviceId")), UnmarshalProperties(Field(j, "properties")),
                    StringOf(Field(j, "clientId")), StringOf(Field(j, "clientSecret")),
                    UnmarshalOptional(Field(j, "scopes")), UnmarshalOptional(Field(j, "audience"))}
    BY DEF Decoded
  <1> QED BY <1>1, <1>3, <1>4

\* A document of the operator is decoded as it was written.
LEMMA OwnDecoded ==
  ASSUME AtomsApart, NEW d, OwnDoc(d), NEW r
  PROVE  LET s == UnmarshalService(Document(d, r))
         IN  /\ s \notin {None, Error}
             /\ s.id = Id(d) /\ s.class = d.obj["@class"].str
             /\ s.serviceID = d.obj["serviceId"].str
             /\ s.clientID = StringOf(Field(d, "clientId"))
             /\ s.clientSecret = StringOf(Field(d, "clientSecret"))
             /\ GetFirstValue(s.properties, "ServiceName") = s.serviceID[2]
             /\ s.clientID \in Consumers \union ClientIds \union {None}
  <1> DEFINE j == Document(d, r)
             s == UnmarshalService(j)
  <1>1. /\ Is("obj", j)
        /\ \A k \in {"@class", "id", "serviceId", "properties", "clientId", "clientSecret"} :
                Field(j, k) = Field(d, k)
        /\ \A k \in collectionFields : Field(j, k) = Listed(Field(d, k), r)
    BY DocumentFields DEF collectionFields
  <1> HIDE DEF j
  <1>2. /\ Field(d, "@class") = Str(d.obj["@class"].str)
        /\ d.obj["@class"].str \in {serviceClass[p] : p \in Protocols}
        /\ Field(d, "id") = Num(Id(d)) /\ Id(d) \in ServiceIds
        /\ Field(d, "serviceId") = Str(d.obj["serviceId"].str)
    BY OwnValues
  <1>3. PICK f \in Fqdns, c \in Consumers :
            /\ d.obj["serviceId"].str = <<f, c>>
            /\ Field(d, "properties") = MarshalProperties([ServiceName |-> <<c>>])
    BY OwnValues
  <1>4. c # Error
    BY ErrorAssumption
  <1>5. /\ UnmarshalProperties(Field(d, "properties")) # Error
        /\ GetFirstValue(UnmarshalProperties(Field(d, "properties")), "ServiceName") = c
    BY <1>3, <1>4, NameDecoded
  <1>6. StringOf(Field(d, "@class")) = d.obj["@class"].str /\ d.obj["@class"].str # Error
    BY <1>2, Kinds, ErrorAssumption
  <1>7. IdOf(Field(d, "id")) = Id(d) /\ Id(d) # Error
    BY <1>2, Kinds, ErrorAssumption
  <1>8. StringOf(Field(d, "serviceId")) = d.obj["serviceId"].str /\ d.obj["serviceId"].str # Error
    BY <1>2, <1>3, Kinds DEF AtomsApart
  <1>9. /\ StringOf(Field(d, "clientId")) \in Consumers \union ClientIds \union {None}
        /\ StringOf(Field(d, "clientId")) # Error
    BY Kinds, ErrorAssumption DEF OwnDoc
  <1>10. StringOf(Field(d, "clientSecret")) # Error
    <2>1. \A h \in Hashes : h # Error
      BY DEF Hashes, hashClientSecret, AtomsApart
    <2> QED BY <2>1, Kinds, ErrorAssumption DEF OwnDoc
  <1>11. ASSUME NEW k \in collectionFields PROVE UnmarshalOptional(Field(j, k)) # Error
    <2>1. CASE Field(d, k) = Null
      <3>1. Field(j, k) = Null
        BY <1>1, <2>1, Kinds DEF Listed, IsJavaCollection
      <3> QED BY <3>1, Kinds, ErrorAssumption DEF UnmarshalOptional
    <2>2. CASE Field(d, k) # Null
      <3>1. PICK S : Error \notin S /\ JavaSet(Field(d, k), S)
        BY <2>2 DEF OwnDoc
      <3>2. JavaSet(Field(j, k), S)
        BY <1>1, <3>1, JavaSetListed
      <3> QED BY <3>1, <3>2, JavaSetDecoded
    <2> QED BY <2>1, <2>2
  <1>12. UnmarshalService(j) # Error
    BY <1>1, <1>5, <1>6, <1>7, <1>8, <1>9, <1>10, <1>11, DecodedFields DEF collectionFields
  <1>13. UnmarshalService(j) = Decoded(j) /\ Decoded(j) # None
    BY <1>1, <1>12, DecodedFields
  <1>14. /\ Decoded(j).id = Id(d) /\ Decoded(j).class = d.obj["@class"].str
         /\ Decoded(j).serviceID = d.obj["serviceId"].str
         /\ Decoded(j).clientID = StringOf(Field(d, "clientId"))
         /\ Decoded(j).clientSecret = StringOf(Field(d, "clientSecret"))
         /\ Decoded(j).properties = UnmarshalProperties(Field(d, "properties"))
    BY <1>1, <1>6, <1>7, <1>8 DEF Decoded
  <1>15. Decoded(j).serviceID[2] = c
    BY <1>3, <1>14
  <1> QED BY <1>5, <1>9, <1>12, <1>13, <1>14, <1>15 DEF j

\* So is a document of others, if it can be decoded at all.
LEMMA ForeignDecoded ==
  ASSUME AtomsApart, NEW d \in ForeignServices, NEW r
  PROVE  LET s == UnmarshalService(Document(d, r))
         IN  /\ s # Error <=> UnmarshalService(d) # Error
             /\ s # Error => GetFirstValue(s.properties, "ServiceName") \notin Consumers
  <1> DEFINE j == Document(d, r)
  <1>1. /\ Is("obj", j)
        /\ \A k \in {"@class", "id", "serviceId", "properties", "clientId", "clientSecret"} :
                Field(j, k) = Field(d, k)
        /\ \A k \in collectionFields : Field(j, k) = Listed(Field(d, k), r)
    BY DocumentFields DEF collectionFields
  <1> HIDE DEF j
  <1>2. ASSUME NEW k \in collectionFields
        PROVE  UnmarshalOptional(Field(j, k)) # Error <=> UnmarshalOptional(Field(d, k)) # Error
    BY <1>1, ForeignAssumption, ListedDecoded
  <1>3. Is("obj", d)
    BY ForeignAssumption
  <1>4. UnmarshalService(j) # Error <=> UnmarshalService(d) # Error
    BY <1>1, <1>2, <1>3, DecodedFields DEF collectionFields
  <1>5. ASSUME UnmarshalService(j) # Error
        PROVE  UnmarshalService(j).properties = UnmarshalService(d).properties
    <2>1. UnmarshalService(j) = Decoded(j) /\ UnmarshalService(d) = Decoded(d)
      BY <1>1, <1>3, <1>4, <1>5, DecodedFields
    <2> QED BY <1>1, <2>1 DEF Decoded
  <1> QED BY <1>4, <1>5, ForeignAssumption DEF j

-------------------------------------------------------------------------------
(***************************************************************************)
(* Decoding a list and searching it                                        *)
(***************************************************************************)

\* An array of services is decoded exactly when each of them is.
LEMMA SliceDecoded ==
  ASSUME NEW w
  PROVE  SliceOf(Arr(w), UnmarshalService) =
            IF \A i \in DOMAIN w : UnmarshalService(w[i]) # Error
            THEN [i \in DOMAIN w |-> UnmarshalService(w[i])] ELSE Error
  <1>1. ~Is("null", Arr(w)) /\ Is("arr", Arr(w)) /\ Arr(w).arr = w
    BY Kinds
  <1>2. (\A i \in DOMAIN w : [k \in DOMAIN w |-> UnmarshalService(w[k])][i] # Error)
            <=> \A i \in DOMAIN w : UnmarshalService(w[i]) # Error
    OBVIOUS
  <1> QED BY <1>1, <1>2, Zenon DEF SliceOf

\* list is what the documents docs are decoded to.
DecodedAs(list, docs) ==
    /\ \A i \in DOMAIN docs : UnmarshalService(docs[i]) # Error
    /\ list = [i \in DOMAIN docs |-> UnmarshalService(docs[i])]

\* In each of its forms a list is decoded exactly when its documents are, and to
\* the same services.
LEMMA ListDecoded ==
  ASSUME AtomsApart, IsFiniteSet(registry), NEW form \in ListForms, NEW r \in BOOLEAN
  PROVE  LET list == UnmarshalServices(ListBody(form, r))
         IN  /\ (\A d \in registry : UnmarshalService(Document(d, r)) # Error) => list # Error
             /\ list # Error =>
                    \E w : Lists(w, {Document(d, r) : d \in registry}) /\ DecodedAs(list, w)
  <1> DEFINE D == {Document(d, r) : d \in registry}
             docs == SetToSeq(D)
             w == IF r THEN Reverse(docs) ELSE docs
             body == ListBody(form, r)
             good == \A i \in DOMAIN w : UnmarshalService(w[i]) # Error
             services == [i \in DOMAIN w |-> UnmarshalService(w[i])]
  <1>1. IsFiniteSet(D)
    <2> DEFINE f == [d \in registry |-> Document(d, r)]
    <2>1. f \in Surjection(registry, D)
      BY DEF Surjection
    <2> HIDE DEF D, f
    <2> QED BY <2>1, FS_Surjection
  <1>2. \A x \in D : Is("obj", x) /\ ~Is("str", x) /\ ~Is("null", x)
    <2>1. \A x : Is("obj", x) => ~Is("str", x) /\ ~Is("null", x)
      BY DEF Is
    <2> QED BY <2>1, DocumentFields
  <1>3. (\A x \in D : UnmarshalService(x) # Error)
            <=> \A d \in registry : UnmarshalService(Document(d, r)) # Error
    OBVIOUS
  <1>4. registry = {} => D = {}
    OBVIOUS
  <1>5. body = CASE form = "collection" -> Arr(<<Str("ArrayList"), Arr(w)>>)
                 [] form = "object"     -> Obj([services |-> Arr(w)])
                 [] form = "array"      -> Arr(w)
                 [] form = "null"       -> IF registry = {} THEN Null ELSE Arr(w)
    BY Zenon DEF ListBody
  <1> HIDE DEF D, body
  <1>6. Lists(w, D)
    BY <1>1, EitherOrderLists
  <1> HIDE DEF w
  <1>7. /\ \A i \in DOMAIN w : w[i] \in D
        /\ \A x \in D : \E i \in DOMAIN w : w[i] = x
        /\ \E n \in Nat : DOMAIN w = 1..n /\ Len(w) = n
    BY <1>6 DEF Lists
  <1>8. good <=> \A x \in D : UnmarshalService(x) # Error
    BY <1>7
  <1> HIDE DEF good, services
  <1>9. services # Error
    BY Zenon DEF AtomsApart, services
  <1>10. SliceOf(Arr(w), UnmarshalService) = IF good THEN services ELSE Error
    BY SliceDecoded, Zenon DEF good, services
  <1>11. ~IsWrapper(Arr(w)) /\ ~Is("null", Arr(w)) /\ ~Is("obj", Arr(w))
    <2>1. ASSUME Len(w) = 2 PROVE StringOf(w[1]) = Error
      <3>1. 1 \in DOMAIN w
        BY <1>7, <2>1
      <3>2. ~Is("str", w[1]) /\ ~Is("null", w[1])
        BY <1>2, <1>7, <3>1
      <3> QED BY <3>2 DEF StringOf
    <2> QED BY <2>1, Kinds DEF IsWrapper
  <1>12. UnmarshalServices(body) = IF good THEN services ELSE Error
    <2>1. CASE form = "collection"
      <3> DEFINE pair == <<Str("ArrayList"), Arr(w)>>
      <3>1. body = Arr(pair)
        BY <1>5, <2>1
      <3>2. Len(pair) = 2 /\ pair[1] = Str("ArrayList") /\ pair[2] = Arr(w)
        OBVIOUS
      <3> HIDE DEF pair
      <3>3. ~Is("null", body) /\ ~Is("obj", body) /\ Is("arr", body) /\ body.arr = pair
        BY <3>1, Kinds
      <3>4. IsWrapper(body) /\ body.arr[2] = Arr(w)
        BY <3>2, <3>3, Kinds, ErrorAssumption DEF IsWrapper
      <3>5. UnmarshalServices(body) = SliceOf(Arr(w), UnmarshalService)
        BY <3>3, <3>4, Zenon DEF UnmarshalServices
      <3> QED BY <1>10, <3>5
    <2>2. CASE form = "object"
      <3>1. body = Obj([services |-> Arr(w)])
        BY <1>5, <2>2
      <3>2. ~Is("null", body) /\ ~Is("arr", body) /\ Is("obj", body) /\ Field(body, "services") = Arr(w)
        BY <3>1, Kinds DEF Field
      <3>3. ~IsWrapper(body) /\ ~Is("null", Field(body, "services"))
        BY <3>2, Kinds DEF IsWrapper
      <3>4. SliceOf(body, UnmarshalService) = Error
        BY <3>2 DEF SliceOf
      <3>5. CASE good
        BY <1>9, <1>10, <3>2, <3>3, <3>5, Zenon DEF UnmarshalServices
      <3>6. CASE ~good
        <4>1. SliceOf(Field(body, "services"), UnmarshalService) = Error
          BY <1>10, <3>2, <3>6
        <4> QED BY <3>2, <3>3, <3>4, <3>6, <4>1, Zenon DEF UnmarshalServices
      <3> QED BY <3>5, <3>6
    <2>3. CASE body = Arr(w)
      <3>1. UnmarshalServices(body) = SliceOf(Arr(w), UnmarshalService)
        BY <1>11, <2>3, Zenon DEF UnmarshalServices
      <3> QED BY <1>10, <3>1
    <2>4. CASE body = Null /\ registry = {}
      <3>1. UnmarshalServices(body) = <<>>
        BY <2>4 DEF UnmarshalServices, IsWrapper, Is, Null
      <3>2. DOMAIN w = {}
        BY <1>4, <1>7, <2>4
      <3>3. services = <<>> /\ good
        BY <3>2 DEF services, good
      <3> QED BY <3>1, <3>3
    <2> QED BY <1>5, <2>1, <2>2, <2>3, <2>4 DEF ListForms
  <1>13. UnmarshalServices(body) # Error <=> good
    BY <1>9, <1>12
  <1>14. good => DecodedAs(UnmarshalServices(body), w)
    BY <1>12 DEF DecodedAs, good, services
  <1> QED BY <1>3, <1>6, <1>8, <1>13, <1>14 DEF body, D

\* The registry: finitely many documents, the operator's among them, of which
\* no two have a consumer or an id in common.
Consumer(d) == d.obj["serviceId"].str[2]

RegistryInv ==
    /\ IsFiniteSet(registry)
    /\ \A d \in Own : OwnDoc(d)
    /\ \A d, e \in Own : Consumer(d) = Consumer(e) \/ Id(d) = Id(e) => d = e

\* A consumer's search in a list finds the consumer's document and no other.
LEMMA SearchFinds ==
  ASSUME AtomsApart, RegistryInv, NEW form \in ListForms, NEW r \in BOOLEAN,
         NEW consumer \in Consumers, UnmarshalServices(ListBody(form, r)) # Error
  PROVE  LET list     == UnmarshalServices(ListBody(form, r))
             existing == findServiceByConsumer(list, consumer)
         IN  /\ ~Ambiguous(list, consumer)
             /\ existing = None => \A d \in Own : Consumer(d) # consumer
             /\ existing # None =>
                    \E d \in Own : /\ Consumer(d) = consumer
                                  /\ existing = UnmarshalService(Document(d, r))
  <1> DEFINE list == UnmarshalServices(ListBody(form, r))
             name(s) == GetFirstValue(s.properties, "ServiceName")
             dec(d) == UnmarshalService(Document(d, r))
  <1>1. PICK w : Lists(w, {Document(d, r) : d \in registry}) /\ DecodedAs(list, w)
    BY ListDecoded DEF RegistryInv
  <1> HIDE DEF list
  <1>2. /\ DOMAIN list = DOMAIN w
        /\ \A i \in DOMAIN w : list[i] = UnmarshalService(w[i]) /\ list[i] # Error
    BY <1>1 DEF DecodedAs
  <1>3. \A d \in Own : dec(d) \notin {None, Error} /\ name(dec(d)) = Consumer(d)
    BY OwnDecoded DEF RegistryInv, Consumer
  <1>4. \A d \in ForeignServices : dec(d) # Error => name(dec(d)) \notin Consumers
    BY ForeignDecoded
  <1> HIDE DEF name, dec
  <1>5. \A i \in DOMAIN w : \E d \in registry : w[i] = Document(d, r)
    BY <1>1 DEF Lists
  <1>6. ASSUME NEW i \in DOMAIN list, name(list[i]) = consumer
        PROVE  \E d \in Own : w[i] = Document(d, r) /\ list[i] = dec(d) /\ Consumer(d) = consumer
    <2>1. PICK d \in registry : w[i] = Document(d, r)
      BY <1>2, <1>5
    <2>2. list[i] = dec(d) /\ dec(d) # Error
      BY <1>2, <2>1 DEF dec
    <2>3. d \in Own
      BY <1>4, <1>6, <2>2 DEF Own
    <2> QED BY <1>3, <1>6, <2>1, <2>2, <2>3
  <1>7. Matching(list, consumer) = {i \in DOMAIN list : name(list[i]) = consumer}
    BY DEF Matching, name
  <1>8. ASSUME NEW i \in Matching(list, consumer), NEW k \in Matching(list, consumer)
        PROVE  i = k
    <2>1. PICK d \in Own : w[i] = Document(d, r) /\ Consumer(d) = consumer
      BY <1>6, <1>7
    <2>2. PICK e \in Own : w[k] = Document(e, r) /\ Consumer(e) = consumer
      BY <1>6, <1>7
    <2>3. d = e
      BY <2>1, <2>2 DEF RegistryInv
    <2>4. w[i] = w[k] /\ i \in DOMAIN w /\ k \in DOMAIN w
      BY <1>2, <1>7, <2>1, <2>2, <2>3
    <2> QED BY <1>1, <2>4 DEF Lists
  <1>9. ~Ambiguous(list, consumer)
    BY <1>8 DEF Ambiguous
  <1> DEFINE existing == findServiceByConsumer(list, consumer)
  <1>10. CASE Matching(list, consumer) = {}
    <2>1. existing = None
      BY <1>10 DEF findServiceByConsumer
    <2>2. ASSUME NEW d \in Own, Consumer(d) = consumer PROVE FALSE
      <3>1. PICK i \in DOMAIN w : w[i] = Document(d, r)
        BY <1>1 DEF Lists, Own
      <3>2. name(list[i]) = consumer
        BY <1>2, <1>3, <2>2, <3>1 DEF dec
      <3> QED BY <1>2, <1>7, <1>10, <3>2
    <2> QED BY <1>9, <2>1, <2>2 DEF list
  <1>11. CASE Matching(list, consumer) # {}
    <2>1. PICK i \in Matching(list, consumer) : existing = list[i]
      BY <1>11 DEF findServiceByConsumer
    <2>2. PICK d \in Own : list[i] = dec(d) /\ Consumer(d) = consumer
      BY <1>6, <1>7, <2>1
    <2>3. existing # None
      BY <1>3, <2>1, <2>2
    <2> QED BY <1>9, <2>1, <2>2, <2>3 DEF dec, list
  <1> QED BY <1>10, <1>11

-------------------------------------------------------------------------------
(***************************************************************************)
(* The payload                                                             *)
(***************************************************************************)

\* Has a service of the registration's protocol the set k?
Carries(reg, k) == reg.protocol # "CAS" /\ (k = "audience" => reg.protocol = "OAUTH")

\* The members the parameters name for the set k.
Named(reg, k) ==
    IF ~Carries(reg, k) \/ reg.params[k] = None THEN {} ELSE ToSet(reg.params[k]) \ {Blank}

\* The sets of a service, and of a document, are those.
CarriesNamed(s, reg) ==
    \A k \in collectionFields :
        IF Named(reg, k) = {} THEN s[k] = None
        ELSE \E T : \E v \in Seq(T) :
                s[k] = [class |-> hashSetClass, values |-> v] /\ ToSet(v) = Named(reg, k)

StoresNamed(d, reg) ==
    \A k \in collectionFields :
        IF Named(reg, k) = {} THEN k \notin DOMAIN d.obj
        ELSE ToSet(d.obj[k].arr[2].arr) = {Str(x) : x \in Named(reg, k)}

\* newSetParam builds the set of the members that are named.
LEMMA SetParamNames ==
  ASSUME NEW reg \in Requests, NEW k \in collectionFields, Carries(reg, k)
  PROVE  /\ Error \notin Named(reg, k)
         /\ IF Named(reg, k) = {} THEN newSetParam(reg.params[k]) = None
            ELSE \E T : \E v \in Seq(T) :
                    /\ newSetParam(reg.params[k]) = [class |-> hashSetClass, values |-> v]
                    /\ ToSet(v) = Named(reg, k)
  <1>1. CASE reg.params[k] = None
    <2>1. newSetParam(reg.params[k]) = None
      BY <1>1, Zenon DEF newSetParam
    <2> QED BY <1>1, <2>1 DEF Named
  <1>2. CASE reg.params[k] # None
    <2> DEFINE parts == reg.params[k]
    <2>1. parts \in Seq(ToSet(parts)) /\ Error \notin ToSet(parts)
      <3>1. parts \in {reg.params.scopes, reg.params.audience} \ {None}
        BY <1>2 DEF collectionFields
      <3> QED BY <3>1, RequestAssumption
    <2>2. Named(reg, k) = ToSet(parts) \ {Blank}
      BY <1>2 DEF Named
    <2> HIDE DEF parts
    <2>3. /\ ToSet(parts) \ {Blank} = {} => newSetParam(parts) = None
          /\ ToSet(parts) \ {Blank} # {} =>
                \E v \in Seq(ToSet(parts)) :
                    /\ newSetParam(parts) = [class |-> hashSetClass, values |-> v]
                    /\ ToSet(v) = ToSet(parts) \ {Blank}
      BY <1>2, <2>1, NewSetParamKeeps DEF parts
    <2> QED BY <2>1, <2>2, <2>3 DEF parts
  <1> QED BY <1>1, <1>2

\* What the mapper builds.
LEMMA PayloadBuilt ==
  ASSUME AtomsApart, NEW reg \in Requests, ValidRegistration(reg),
         NEW existing,
         existing # None => /\ existing.id \in ServiceIds
                            /\ existing.clientID \in Consumers \union ClientIds \union {None},
         NEW secret, reg.protocol # "CAS" => secret \in ClientSecrets,
         NEW f \in Fqdns
  PROVE  LET s == NewRegisteredService(reg, existing, secret, f)
         IN  /\ IsPayload(s) /\ s \notin {None, Error}
             /\ s.id = IF existing = None THEN None ELSE existing.id
             /\ s.serviceID = <<f, reg.consumer>> /\ s.class = serviceClass[reg.protocol]
             /\ s.clientID = IF reg.protocol = "CAS" THEN None ELSE resolveClientID(reg, existing)
             /\ s.clientSecret = IF reg.protocol = "CAS" THEN None ELSE hashClientSecret(secret)
             /\ CarriesNamed(s, reg)
  <1> DEFINE s == NewRegisteredService(reg, existing, secret, f)
             eid == IF existing = None THEN None ELSE existing.id
  <1>1. /\ reg.protocol \in Protocols /\ reg.consumer \in Consumers
        /\ reg.clientId \in ClientIds \union {None}
    BY RequestAssumption DEF ValidRegistration, Registrations
  <1>2. s = [class |-> serviceClass[reg.protocol], id |-> eid, serviceID |-> <<f, reg.consumer>>,
             properties |-> [ServiceName |-> <<reg.consumer>>],
             clientID |-> IF reg.protocol = "CAS" THEN None ELSE resolveClientID(reg, existing),
             clientSecret |-> IF reg.protocol = "CAS" THEN None ELSE hashClientSecret(secret),
             scopes |-> IF reg.protocol = "CAS" THEN None ELSE newSetParam(reg.params.scopes),
             audience |-> IF reg.protocol = "OAUTH" THEN newSetParam(reg.params.audience) ELSE None]
    <2> HIDE DEF eid
    <2>1. CASE reg.protocol = "CAS"
      BY <2>1 DEF NewRegisteredService, EmptyService, eid
    <2>2. CASE reg.protocol = "OIDC"
      BY <2>2 DEF NewRegisteredService, EmptyService, eid, addOIDCFields
    <2>3. CASE reg.protocol = "OAUTH"
      BY <2>3 DEF NewRegisteredService, EmptyService, eid, addOIDCFields, addOAuthFields
    <2> QED BY <1>1, <2>1, <2>2, <2>3 DEF Protocols
  <1>3. /\ s.class = serviceClass[reg.protocol] /\ s.id = eid /\ s.serviceID = <<f, reg.consumer>>
        /\ s.properties = [ServiceName |-> <<reg.consumer>>]
        /\ s.clientID = IF reg.protocol = "CAS" THEN None ELSE resolveClientID(reg, existing)
        /\ s.clientSecret = IF reg.protocol = "CAS" THEN None ELSE hashClientSecret(secret)
        /\ \A k \in collectionFields :
                s[k] = IF Carries(reg, k) THEN newSetParam(reg.params[k]) ELSE None
        /\ s \notin {None, Error}
    <2> HIDE DEF s, eid
    <2>1. /\ s.class = serviceClass[reg.protocol] /\ s.id = eid /\ s.serviceID = <<f, reg.consumer>>
          /\ s.properties = [ServiceName |-> <<reg.consumer>>]
          /\ s.clientID = IF reg.protocol = "CAS" THEN None ELSE resolveClientID(reg, existing)
          /\ s.clientSecret = IF reg.protocol = "CAS" THEN None ELSE hashClientSecret(secret)
      BY <1>2
    <2>2. s["scopes"] = IF Carries(reg, "scopes") THEN newSetParam(reg.params["scopes"]) ELSE None
      BY <1>2 DEF Carries
    <2>3. s["audience"] = IF Carries(reg, "audience") THEN newSetParam(reg.params["audience"]) ELSE None
      BY <1>2 DEF Carries
    <2>4. s \notin {None, Error}
      BY <1>2 DEF AtomsApart
    <2> QED BY <2>1, <2>2, <2>3, <2>4 DEF collectionFields
  <1> HIDE DEF s
  <1>4. CarriesNamed(s, reg)
    <2> SUFFICES ASSUME NEW k \in collectionFields
                 PROVE  IF Named(reg, k) = {} THEN s[k] = None
                        ELSE \E T : \E v \in Seq(T) :
                                /\ s[k] = [class |-> hashSetClass, values |-> v]
                                /\ ToSet(v) = Named(reg, k)
      BY DEF CarriesNamed
    <2>1. CASE Carries(reg, k)
      BY <1>3, <2>1, SetParamNames
    <2>2. CASE ~Carries(reg, k)
      BY <1>3, <2>2 DEF Named
    <2> QED BY <2>1, <2>2
  <1>5. IsPayload(s)
    <2>1. s.id \in ServiceIds \union {None}
      BY <1>3
    <2>2. s.clientID \in Consumers \union ClientIds \union {None}
      BY <1>1, <1>3 DEF resolveClientID
    <2>3. s.clientSecret \in Hashes \union {None}
      BY <1>3 DEF Hashes
    <2>4. \A k \in collectionFields : s[k] # None =>
            \E T : \E v \in Seq(T) :
                Error \notin ToSet(v) /\ s[k] = [class |-> hashSetClass, values |-> v]
      <3> SUFFICES ASSUME NEW k \in collectionFields, s[k] # None
                   PROVE  \E T : \E v \in Seq(T) :
                            /\ Error \notin ToSet(v)
                            /\ s[k] = [class |-> hashSetClass, values |-> v]
        OBVIOUS
      <3>1. Carries(reg, k)
        BY <1>3
      <3>2. Error \notin Named(reg, k) /\ Named(reg, k) # {}
        BY <1>4, <3>1, SetParamNames DEF CarriesNamed
      <3> QED BY <1>4, <3>2 DEF CarriesNamed
    <2>5. \E g \in Fqdns : \E c \in Consumers :
            s.serviceID = <<g, c>> /\ s.properties = [ServiceName |-> <<c>>]
      BY <1>1, <1>3
    <2>6. s.class \in {serviceClass[p] : p \in Protocols}
      BY <1>1, <1>3
    <2> QED BY <2>1, <2>2, <2>3, <2>4, <2>5, <2>6, Zenon DEF IsPayload
  <1> QED BY <1>3, <1>4, <1>5 DEF s

\* What is saved carries what the parameters name.
LEMMA NamedStored ==
  ASSUME AtomsApart, NEW s, IsPayload(s), NEW reg, CarriesNamed(s, reg), NEW id \in ServiceIds
  PROVE  StoresNamed(Stored(MarshalService(s), id), reg)
  <1> DEFINE d == Stored(MarshalService(s), id)
  <1>1. \A k \in collectionFields :
            /\ s[k] = None => k \notin DOMAIN d.obj
            /\ \A T : \A v \in Seq(T) :
                s[k] = [class |-> hashSetClass, values |-> v] => JavaSet(d.obj[k], ToSet(v))
    BY PayloadStored
  <1> HIDE DEF d
  <1> SUFFICES ASSUME NEW k \in collectionFields
               PROVE  IF Named(reg, k) = {} THEN k \notin DOMAIN d.obj
                      ELSE ToSet(d.obj[k].arr[2].arr) = {Str(x) : x \in Named(reg, k)}
    BY DEF StoresNamed, d
  <1>2. CASE Named(reg, k) = {}
    BY <1>1, <1>2 DEF CarriesNamed
  <1>3. CASE Named(reg, k) # {}
    <2>1. PICK T : \E v \in Seq(T) :
                s[k] = [class |-> hashSetClass, values |-> v] /\ ToSet(v) = Named(reg, k)
      BY <1>3 DEF CarriesNamed
    <2>2. PICK v \in Seq(T) :
                s[k] = [class |-> hashSetClass, values |-> v] /\ ToSet(v) = Named(reg, k)
      BY <2>1
    <2>3. JavaSet(d.obj[k], Named(reg, k))
      BY <1>1, <2>2
    <2> QED BY <1>3, <2>3, JavaSetKinds
  <1> QED BY <1>2, <1>3

-------------------------------------------------------------------------------
(***************************************************************************)
(* The inductive invariant                                                 *)
(***************************************************************************)

Registered(reg) == \A d \in Own : Consumer(d) = reg.consumer => StoresNamed(d, reg)

\* d is what service s was saved as.
SavedAs(d, s) ==
    /\ d.obj["@class"].str = s.class /\ d.obj["serviceId"].str = s.serviceID
    /\ StringOf(Field(d, "clientId")) = s.clientID
    /\ StringOf(Field(d, "clientSecret")) = s.clientSecret

\* The payload to write addresses the consumer's document, if there is one.
ReadyToWrite ==
    /\ call.reg \in Requests /\ ValidRegistration(call.reg)
    /\ IsPayload(call.service) /\ call.service \notin {None, Error}
    /\ call.service.serviceID[2] = call.reg.consumer
    /\ CarriesNamed(call.service, call.reg)
    /\ call.service.id = None => \A d \in Own : Consumer(d) # call.reg.consumer
    /\ call.service.id # None =>
            \E d \in Own : Id(d) = call.service.id /\ Consumer(d) = call.reg.consumer

Written ==
    /\ call.reg \in Requests /\ ValidRegistration(call.reg)
    /\ call.service # None
    /\ \E d \in Own : SavedAs(d, call.service) /\ Consumer(d) = call.reg.consumer
    /\ Registered(call.reg)

Stages == {"idle", "upsert", "write", "result", "delete", "remove", "ok", "failed"}

CallInv ==
    /\ call = [at |-> call.at, reg |-> call.reg, known |-> call.known, service |-> call.service,
               secret |-> call.secret, result |-> call.result]
    /\ call.at \in Stages
    /\ call.at \in {"upsert", "delete", "ok", "remove"} => call.reg \in Requests
    /\ call.at \in {"upsert", "delete"} =>
            call.known \in ClientSecrets \union {None} /\ call.service = None
    /\ call.at = "write" => ReadyToWrite
    /\ call.at = "result" => Written
    /\ call.at = "remove" => call.service # None /\ call.service.id \in ServiceIds
    /\ call.at = "ok" /\ call.result # None => Registered(call.reg)

ClientInv ==
    /\ RegistryInv
    /\ fqdn \in Fqdns
    /\ CallInv

\* The invariant holds at the start: nothing is registered.
LEMMA ClientInit ==
  ASSUME Init
  PROVE  ClientInv
  <1>1. IsFiniteSet({})
    BY FS_EmptySet
  <1>2. RegistryInv
    BY <1>1 DEF Init, RegistryInv, Own
  <1>3. CallInv
    BY DEF Init, CallInv, NoCall, Stages
  <1> QED BY <1>2, <1>3 DEF Init, ClientInv

\* A step that leaves the operator's documents alone.
LEMMA RegistryKept ==
  ASSUME RegistryInv, Own' = Own, IsFiniteSet(registry')
  PROVE  RegistryInv'
  BY DEF RegistryInv

\* A failed call is nothing to worry about.
LEMMA FailsInv ==
  ASSUME Fails
  PROVE  CallInv'
  <1>1. call' = [at |-> "failed", reg |-> None, known |-> None, service |-> None,
                 secret |-> None, result |-> None]
    BY DEF Fails, NoCall
  <1> QED BY <1>1 DEF CallInv, Stages

\* A numeric id the operator addresses belongs to the operator's documents.
LEMMA WithoutOwn ==
  ASSUME RegistryInv, NEW id \in ServiceIds
  PROVE  /\ Without(id) \ ForeignServices = {d \in Own : Id(d) # id}
         /\ IsFiniteSet(Without(id))
         /\ \A d \in registry : Id(d) = id => d \in Own
  <1>1. Without(id) \ ForeignServices = {d \in Own : Id(d) # id}
    BY DEF Without, Own
  <1>2. IsFiniteSet(Without(id))
    BY FS_Subset DEF RegistryInv, Without
  <1>3. \A d \in registry : Id(d) = id => d \in Own
    BY ForeignAssumption DEF Own
  <1> QED BY <1>1, <1>2, <1>3

\* A document that is saved replaces its consumer's, and no other.
LEMMA SaveReplaces ==
  ASSUME AtomsApart, RegistryInv, ReadyToWrite,
         NEW id \in AssignedIds(call.service),
         registry' = Without(id) \union {Stored(MarshalService(call.service), id)}
  PROVE  LET saved == Stored(MarshalService(call.service), id)
         IN  /\ id \in ServiceIds /\ OwnDoc(saved) /\ SavedAs(saved, call.service)
             /\ Id(saved) = id /\ Consumer(saved) = call.reg.consumer
             /\ StoresNamed(saved, call.reg)
             /\ Own' = {d \in Own : Id(d) # id} \union {saved}
             /\ \A d \in Own : Id(d) = id <=> Consumer(d) = call.reg.consumer
             /\ RegistryInv'
  <1> DEFINE saved == Stored(MarshalService(call.service), id)
  <1>1. IsPayload(call.service)
    BY DEF ReadyToWrite
  <1>2. id \in ServiceIds
    <2>1. call.service.id \in ServiceIds \union {None}
      BY <1>1 DEF IsPayload
    <2> QED BY <2>1 DEF AssignedIds
  <1>3. /\ OwnDoc(saved) /\ Id(saved) = id /\ SavedAs(saved, call.service)
    BY <1>1, <1>2, PayloadStored DEF SavedAs
  <1>4. StoresNamed(saved, call.reg)
    BY <1>1, <1>2, NamedStored DEF ReadyToWrite
  <1>5. Consumer(saved) = call.reg.consumer
    BY <1>3 DEF Consumer, SavedAs, ReadyToWrite
  <1> HIDE DEF saved
  <1>6. saved \notin ForeignServices
    BY <1>2, <1>3, ForeignAssumption
  <1>7. Own' = {d \in Own : Id(d) # id} \union {saved}
    <2>1. Without(id) \ ForeignServices = {d \in Own : Id(d) # id}
      BY <1>2, WithoutOwn
    <2>2. registry' = Without(id) \union {saved}
      BY DEF saved
    <2>3. Own' = registry' \ ForeignServices
      BY DEF Own
    <2> QED BY <1>6, <2>1, <2>2, <2>3
  <1>8. ASSUME NEW d \in Own PROVE Id(d) = id <=> Consumer(d) = call.reg.consumer
    <2>1. CASE call.service.id = None
      <3>1. id \notin {Id(e) : e \in registry}
        BY <2>1 DEF AssignedIds
      <3>2. Id(d) # id
        BY <3>1 DEF Own
      <3> QED BY <2>1, <3>2 DEF ReadyToWrite
    <2>2. CASE call.service.id # None
      <3>1. id = call.service.id
        BY <2>2 DEF AssignedIds
      <3>2. PICK e \in Own : Id(e) = id /\ Consumer(e) = call.reg.consumer
        BY <2>2, <3>1 DEF ReadyToWrite
      <3> QED BY <3>2 DEF RegistryInv
    <2> QED BY <2>1, <2>2
  <1>9. RegistryInv'
    <2>1. IsFiniteSet(registry')
      <3>1. IsFiniteSet(Without(id))
        BY <1>2, WithoutOwn
      <3> QED BY <3>1, FS_AddElement DEF saved
    <2>2. \A d \in Own' : OwnDoc(d)
      BY <1>3, <1>7 DEF RegistryInv
    <2>3. \A d, e \in Own' : Consumer(d) = Consumer(e) \/ Id(d) = Id(e) => d = e
      BY <1>3, <1>5, <1>7, <1>8 DEF RegistryInv
    <2> QED BY <2>1, <2>2, <2>3 DEF RegistryInv
  <1> QED BY <1>2, <1>3, <1>4, <1>5, <1>7, <1>8, <1>9 DEF saved

\* Either answer to a write describes the saved document.
LEMMA AnswersDescribe ==
  ASSUME AtomsApart, NEW d, NEW s, NEW r, OwnDoc(d), SavedAs(d, s), s # None
  PROVE  LET a == UnmarshalService(Document(d, r))
         IN  a \notin {None, Error} /\ SavedAs(d, a)
  BY OwnDecoded DEF SavedAs

\* existing is what a search for the consumer should find.
Found(existing, consumer) ==
    /\ existing = None => \A d \in Own : Consumer(d) # consumer
    /\ existing # None => \E d \in Own :
            /\ Consumer(d) = consumer /\ existing.id = Id(d) /\ SavedAs(d, existing)

\* A list request, whatever the form of its answer: the call fails, or goes on
\* with the consumer's service.
LEMMA ListStep ==
  ASSUME AtomsApart, ClientInv, NEW form \in ListForms, NEW r \in BOOLEAN, NEW drawn,
         ListServices(form, r, drawn)
  PROVE  /\ call.at \in {"upsert", "delete"}
         /\ UNCHANGED <<registry, fqdn>>
         /\ \/ ~Accepted(call.at, call.reg) /\ Fails /\ UNCHANGED faults
            \/ Fault /\ Fails
            \/ /\ Accepted(call.at, call.reg) /\ UNCHANGED faults
               /\ \E existing :
                    LET secret == CASE call.reg.protocol = "CAS" -> None
                                    [] call.reg.protocol # "CAS" /\ call.known # None -> call.known
                                    [] OTHER -> drawn
                    IN  /\ Found(existing, call.reg.consumer)
                        /\ call.at = "upsert" =>
                            call' = [call EXCEPT !.at = "write", !.known = None, !.secret = secret,
                                !.service = NewRegisteredService(call.reg, existing, secret, fqdn)]
                        /\ call.at = "delete" =>
                            call' = IF existing = None THEN [NoCall EXCEPT !.at = "ok", !.reg = call.reg]
                                    ELSE [call EXCEPT !.at = "remove", !.service = existing]
  <1> DEFINE list == UnmarshalServices(ListBody(form, r))
             existing == findServiceByConsumer(list, call.reg.consumer)
             secret == CASE call.reg.protocol = "CAS" -> None
                         [] call.reg.protocol # "CAS" /\ call.known # None -> call.known
                         [] OTHER -> drawn
  <1>1. call.at \in {"upsert", "delete"} /\ UNCHANGED <<registry, fqdn>>
    BY DEF ListServices
  <1>2. call.reg \in Requests
    BY <1>1 DEF ClientInv, CallInv
  <1>3. ASSUME Accepted(call.at, call.reg) PROVE call.reg.consumer \in Consumers
    <2>1. call.reg.consumer \in Consumers \union {Blank}
      BY <1>2, RequestAssumption DEF Registrations
    <2>2. call.reg.consumer # Blank
      BY <1>1, <1>3 DEF Accepted, ValidRegistration
    <2> QED BY <2>1, <2>2
  <1>4. ASSUME Accepted(call.at, call.reg), list # Error
        PROVE  ~Ambiguous(list, call.reg.consumer) /\ Found(existing, call.reg.consumer)
    <2>1. /\ ~Ambiguous(list, call.reg.consumer)
          /\ existing = None => \A d \in Own : Consumer(d) # call.reg.consumer
          /\ existing # None =>
                \E d \in Own : /\ Consumer(d) = call.reg.consumer
                              /\ existing = UnmarshalService(Document(d, r))
      BY <1>3, <1>4, SearchFinds DEF ClientInv
    <2> HIDE DEF existing
    <2>2. ASSUME existing # None
          PROVE  \E d \in Own : /\ Consumer(d) = call.reg.consumer
                               /\ existing.id = Id(d) /\ SavedAs(d, existing)
      <3>1. PICK d \in Own : Consumer(d) = call.reg.consumer
                            /\ existing = UnmarshalService(Document(d, r))
        BY <2>1, <2>2
      <3>2. OwnDoc(d)
        BY DEF ClientInv, RegistryInv
      <3>3. existing.id = Id(d) /\ SavedAs(d, existing)
        BY <3>1, <3>2, OwnDecoded DEF SavedAs
      <3> QED BY <3>1, <3>3
    <2> QED BY <2>1, <2>2 DEF Found
  <1>5. ASSUME NEW e, e # None, Found(e, call.reg.consumer) PROVE e.id # None
    <2>1. PICK d \in Own : e.id = Id(d)
      BY <1>5 DEF Found
    <2>2. Id(d) \in ServiceIds
      BY OwnValues DEF ClientInv, RegistryInv
    <2> QED BY <2>1, <2>2, AbsentAssumption
  <1>6. \/ ~Accepted(call.at, call.reg) /\ Fails /\ UNCHANGED faults
        \/ Fault /\ Fails
        \/ /\ Accepted(call.at, call.reg) /\ list # Error
           /\ Ambiguous(list, call.reg.consumer)
        \/ /\ Accepted(call.at, call.reg) /\ list # Error
           /\ UNCHANGED faults
           /\ call' =
                CASE call.at = "upsert" ->
                        [call EXCEPT !.at = "write", !.known = None, !.secret = secret,
                            !.service = NewRegisteredService(call.reg, existing, secret, fqdn)]
                  [] call.at = "delete" /\ existing = None ->
                        [NoCall EXCEPT !.at = "ok", !.reg = call.reg]
                  [] call.at = "delete" /\ existing # None /\ existing.id = None ->
                        [NoCall EXCEPT !.at = "failed"]
                  [] OTHER -> [call EXCEPT !.at = "remove", !.service = existing]
    BY Zenon DEF ListServices
  <1> HIDE DEF list, existing, secret
  <1>7. CASE ~Accepted(call.at, call.reg) /\ Fails /\ UNCHANGED faults
    BY <1>1, <1>7
  <1>8. CASE Fault /\ Fails
    BY <1>1, <1>8
  <1>9. CASE /\ Accepted(call.at, call.reg) /\ list # Error
             /\ UNCHANGED faults
             /\ call' =
                CASE call.at = "upsert" ->
                        [call EXCEPT !.at = "write", !.known = None, !.secret = secret,
                            !.service = NewRegisteredService(call.reg, existing, secret, fqdn)]
                  [] call.at = "delete" /\ existing = None ->
                        [NoCall EXCEPT !.at = "ok", !.reg = call.reg]
                  [] call.at = "delete" /\ existing # None /\ existing.id = None ->
                        [NoCall EXCEPT !.at = "failed"]
                  [] OTHER -> [call EXCEPT !.at = "remove", !.service = existing]
    <2>1. Found(existing, call.reg.consumer)
      BY <1>4, <1>9
    <2>2. existing # None => existing.id # None
      BY <1>5, <2>1
    <2>3. call.at = "upsert" =>
                call' = [call EXCEPT !.at = "write", !.known = None, !.secret = secret,
                            !.service = NewRegisteredService(call.reg, existing, secret, fqdn)]
      BY <1>9
    <2>4. call.at = "delete" =>
                call' = IF existing = None THEN [NoCall EXCEPT !.at = "ok", !.reg = call.reg]
                        ELSE [call EXCEPT !.at = "remove", !.service = existing]
      BY <1>9, <2>2
    <2>5. /\ Accepted(call.at, call.reg) /\ UNCHANGED faults
          /\ \E e :
              /\ Found(e, call.reg.consumer)
              /\ call.at = "upsert" =>
                    call' = [call EXCEPT !.at = "write", !.known = None, !.secret = secret,
                                !.service = NewRegisteredService(call.reg, e, secret, fqdn)]
              /\ call.at = "delete" =>
                    call' = IF e = None THEN [NoCall EXCEPT !.at = "ok", !.reg = call.reg]
                            ELSE [call EXCEPT !.at = "remove", !.service = e]
      BY <1>9, <2>1, <2>3, <2>4, Zenon
    <2> QED BY <1>1, <2>5, Zenon DEF secret
  <1> QED BY <1>4, <1>6, <1>7, <1>8, <1>9

\* A write request: CAS takes the document, and either answer describes it.
LEMMA WriteStep ==
  ASSUME AtomsApart, ClientInv, NEW r \in BOOLEAN, WriteService(r)
  PROVE  LET saved(id)   == Stored(MarshalService(call.service), id)
             written(id) == Without(id) \union {saved(id)}
         IN  /\ call.at = "write" /\ UNCHANGED fqdn
             /\ \/ \E id \in AssignedIds(call.service) :
                    /\ registry' = written(id) /\ UNCHANGED faults
                    /\ \E s : /\ s # None /\ SavedAs(saved(id), s)
                             /\ call' = [call EXCEPT !.at = "result", !.service = s]
                \/ /\ Fault /\ Fails
                   /\ \/ UNCHANGED registry
                      \/ \E id \in AssignedIds(call.service) : registry' = written(id)
  <1> DEFINE payload == MarshalService(call.service)
             saved(id) == Stored(payload, id)
             written(id) == Without(id) \union {saved(id)}
  <1>1. call.at = "write" /\ UNCHANGED fqdn
    BY DEF WriteService
  <1>2. ReadyToWrite
    BY <1>1 DEF ClientInv, CallInv
  <1>3. IsPayload(call.service) /\ call.service \notin {None, Error}
    BY <1>2 DEF ReadyToWrite
  <1>4. Accepts(payload)
    BY <1>3, PayloadStored
  <1>5. ASSUME NEW id \in AssignedIds(call.service)
        PROVE  id \in ServiceIds /\ OwnDoc(saved(id)) /\ SavedAs(saved(id), call.service)
    <2>1. id \in ServiceIds
      BY <1>3 DEF AssignedIds, IsPayload
    <2> QED BY <1>3, <2>1, PayloadStored DEF SavedAs
  <1>6. ASSUME NEW id \in AssignedIds(call.service),
               NEW s \in {call.service, UnmarshalService(Document(saved(id), r))}
        PROVE  s \notin {None, Error} /\ SavedAs(saved(id), s)
    BY <1>3, <1>5, AnswersDescribe
  <1>7. \/ ~Accepts(payload)
        \/ /\ \E id \in AssignedIds(call.service) :
                /\ registry' = written(id)
                /\ \E s \in {call.service, UnmarshalService(Document(saved(id), r))} :
                        IF s = Error THEN Fails
                        ELSE call' = [call EXCEPT !.at = "result", !.service = s]
           /\ UNCHANGED faults
        \/ /\ Fault /\ Fails
           /\ \/ UNCHANGED registry
              \/ \E id \in AssignedIds(call.service) : registry' = written(id)
    BY Zenon DEF WriteService
  <1> HIDE DEF payload
  <1>8. ASSUME NEW id \in AssignedIds(call.service), registry' = written(id),
               NEW s \in {call.service, UnmarshalService(Document(saved(id), r))},
               IF s = Error THEN Fails ELSE call' = [call EXCEPT !.at = "result", !.service = s]
        PROVE  /\ registry' = written(id) /\ s # None /\ SavedAs(saved(id), s)
               /\ call' = [call EXCEPT !.at = "result", !.service = s]
    BY <1>6, <1>8
  <1> HIDE DEF saved, written
  <1>9. \/ \E id \in AssignedIds(call.service) :
            /\ registry' = written(id) /\ UNCHANGED faults
            /\ \E s : /\ s # None /\ SavedAs(saved(id), s)
                     /\ call' = [call EXCEPT !.at = "result", !.service = s]
        \/ /\ Fault /\ Fails
           /\ \/ UNCHANGED registry
              \/ \E id \in AssignedIds(call.service) : registry' = written(id)
    BY <1>4, <1>7, <1>8, Zenon
  <1> QED BY <1>1, <1>9, Zenon DEF payload, saved, written

\* The invariant is inductive.
LEMMA ClientStep ==
  ASSUME AtomsApart, ClientInv, [Next]_vars
  PROVE  ClientInv'
  <1>1. RegistryInv /\ CallInv /\ fqdn \in Fqdns
    BY DEF ClientInv
  <1>2. ASSUME UNCHANGED registry PROVE RegistryInv' /\ Own' = Own
    <2>1. Own' = Own
      BY <1>2 DEF Own
    <2> QED BY <1>1, <1>2, <2>1, RegistryKept DEF RegistryInv
  <1>3. ASSUME Own' = Own, UNCHANGED call PROVE CallInv'
    BY <1>1, <1>3 DEF CallInv, ReadyToWrite, Written, Registered
  <1>4. CASE UNCHANGED vars
    BY <1>1, <1>2, <1>3, <1>4 DEF vars, ClientInv
  <1>5. ASSUME NEW reg \in Requests, NEW known \in ClientSecrets \union {None}, CallUpsert(reg, known)
        PROVE  ClientInv'
    <2>1. call' = [at |-> "upsert", reg |-> reg, known |-> known, service |-> None,
                   secret |-> None, result |-> None]
      BY <1>5 DEF CallUpsert, NoCall
    <2>2. CallInv'
      BY <2>1 DEF CallInv, Stages
    <2> QED BY <1>1, <1>2, <1>5, <2>2 DEF CallUpsert, ClientInv
  <1>6. ASSUME NEW reg \in Requests, CallDelete(reg)
        PROVE  ClientInv'
    <2>1. call' = [at |-> "delete", reg |-> reg, known |-> None, service |-> None,
                   secret |-> None, result |-> None]
      BY <1>6 DEF CallDelete, NoCall
    <2>2. CallInv'
      BY <2>1 DEF CallInv, Stages
    <2> QED BY <1>1, <1>2, <1>6, <2>2 DEF CallDelete, ClientInv
  <1>7. ASSUME NEW form \in ListForms, NEW r \in BOOLEAN, NEW drawn \in ClientSecrets,
               ListServices(form, r, drawn)
        PROVE  ClientInv'
    <2> DEFINE reg == call.reg
               secret == CASE reg.protocol = "CAS" -> None
                           [] reg.protocol # "CAS" /\ call.known # None -> call.known
                           [] OTHER -> drawn
    <2>1. /\ call.at \in {"upsert", "delete"} /\ UNCHANGED <<registry, fqdn>>
          /\ \/ Fails
             \/ /\ Accepted(call.at, reg)
                /\ \E existing :
                    /\ Found(existing, reg.consumer)
                    /\ call.at = "upsert" =>
                        call' = [call EXCEPT !.at = "write", !.known = None, !.secret = secret,
                            !.service = NewRegisteredService(reg, existing, secret, fqdn)]
                    /\ call.at = "delete" =>
                        call' = IF existing = None THEN [NoCall EXCEPT !.at = "ok", !.reg = reg]
                                ELSE [call EXCEPT !.at = "remove", !.service = existing]
      BY <1>7, ListStep, Zenon
    <2>2. RegistryInv' /\ Own' = Own /\ (fqdn \in Fqdns)'
      BY <1>1, <1>2, <2>1
    <2>3. reg \in Requests /\ call.known \in ClientSecrets \union {None}
      BY <1>1, <2>1 DEF CallInv
    <2>4. CASE Fails
      BY <2>2, <2>4, FailsInv DEF ClientInv
    <2>5. ASSUME Accepted(call.at, reg), NEW existing, Found(existing, reg.consumer),
                 call.at = "upsert",
                 call' = [call EXCEPT !.at = "write", !.known = None, !.secret = secret,
                            !.service = NewRegisteredService(reg, existing, secret, fqdn)]
          PROVE  CallInv'
      <3> DEFINE s == NewRegisteredService(reg, existing, secret, fqdn)
      <3>1. ValidRegistration(reg)
        BY <2>5 DEF Accepted
      <3>2. reg.protocol # "CAS" => secret \in ClientSecrets
        BY <2>3
      <3>3. ASSUME existing # None
            PROVE  /\ existing.id \in ServiceIds
                   /\ existing.clientID \in Consumers \union ClientIds \union {None}
                   /\ \E d \in Own : Id(d) = existing.id /\ Consumer(d) = reg.consumer
        <4>1. PICK d \in Own : /\ Consumer(d) = reg.consumer /\ existing.id = Id(d)
                               /\ SavedAs(d, existing)
          BY <2>5, <3>3 DEF Found
        <4>2. OwnDoc(d)
          BY <1>1 DEF RegistryInv
        <4>3. Id(d) \in ServiceIds
          BY <4>2, OwnValues
        <4>4. StringOf(Field(d, "clientId")) \in Consumers \union ClientIds \union {None}
          BY <4>2, Kinds DEF OwnDoc
        <4> QED BY <4>1, <4>3, <4>4 DEF SavedAs
      <3> HIDE DEF secret, reg
      <3>4. /\ IsPayload(s) /\ s \notin {None, Error}
            /\ s.id = IF existing = None THEN None ELSE existing.id
            /\ s.serviceID = <<fqdn, reg.consumer>>
            /\ CarriesNamed(s, reg)
        BY <1>1, <2>3, <3>1, <3>2, <3>3, PayloadBuilt
      <3> HIDE DEF s
      <3>5. call' = [at |-> "write", reg |-> reg, known |-> None, service |-> s,
                     secret |-> secret, result |-> call.result]
        <4>1. call = [at |-> call.at, reg |-> call.reg, known |-> call.known, service |-> call.service,
                      secret |-> call.secret, result |-> call.result]
          BY <1>1 DEF CallInv
        <4>2. call' = [call EXCEPT !.at = "write", !.known = None, !.secret = secret, !.service = s]
          BY <2>5 DEF s
        <4> QED BY <4>1, <4>2 DEF reg
      <3>6. call'.at = "write" /\ call'.reg = reg /\ call'.service = s
        BY <3>5
      <3>7. ReadyToWrite'
        <4>1. s.id = None => \A d \in Own : Consumer(d) # reg.consumer
          BY <2>5, <3>3, <3>4, AbsentAssumption DEF Found
        <4>2. s.id # None => \E d \in Own : Id(d) = s.id /\ Consumer(d) = reg.consumer
          BY <3>3, <3>4
        <4>3. s.serviceID[2] = reg.consumer
          BY <3>4
        <4> QED BY <2>2, <2>3, <3>1, <3>4, <3>6, <4>1, <4>2, <4>3 DEF ReadyToWrite
      <3> QED BY <3>5, <3>6, <3>7 DEF CallInv, Stages
    <2>6. ASSUME NEW existing, Found(existing, reg.consumer), call.at = "delete",
                 call' = IF existing = None THEN [NoCall EXCEPT !.at = "ok", !.reg = reg]
                         ELSE [call EXCEPT !.at = "remove", !.service = existing]
          PROVE  CallInv'
      <3>1. CASE existing = None
        <4>1. call' = [at |-> "ok", reg |-> reg, known |-> None, service |-> None,
                       secret |-> None, result |-> None]
          BY <2>6, <3>1 DEF NoCall
        <4> QED BY <2>3, <4>1 DEF CallInv, Stages
      <3>2. CASE existing # None
        <4>1. PICK d \in Own : existing.id = Id(d)
          BY <2>6, <3>2 DEF Found
        <4>2. existing.id \in ServiceIds
          BY <1>1, <4>1, OwnValues DEF RegistryInv
        <4>3. call' = [at |-> "remove", reg |-> reg, known |-> call.known, service |-> existing,
                       secret |-> call.secret, result |-> call.result]
          BY <1>1, <2>6, <3>2 DEF CallInv
        <4> QED BY <2>3, <3>2, <4>2, <4>3 DEF CallInv, Stages
      <3> QED BY <3>1, <3>2
    <2>7. CallInv'
      <3> HIDE DEF reg, secret
      <3> QED BY <2>1, <2>4, <2>5, <2>6, FailsInv, Zenon
    <2> QED BY <2>2, <2>7 DEF ClientInv
  <1>8. ASSUME NEW r \in BOOLEAN, WriteService(r)
        PROVE  ClientInv'
    <2> DEFINE saved(id) == Stored(MarshalService(call.service), id)
               written(id) == Without(id) \union {saved(id)}
    <2>1. /\ call.at = "write" /\ UNCHANGED fqdn
          /\ \/ \E id \in AssignedIds(call.service) :
                /\ registry' = written(id)
                /\ \E s : /\ s # None /\ SavedAs(saved(id), s)
                         /\ call' = [call EXCEPT !.at = "result", !.service = s]
             \/ /\ Fails
                /\ \/ UNCHANGED registry
                   \/ \E id \in AssignedIds(call.service) : registry' = written(id)
      BY <1>8, WriteStep, Zenon
    <2>2. ReadyToWrite
      BY <1>1, <2>1 DEF CallInv
    <2>3. ASSUME NEW id \in AssignedIds(call.service), registry' = written(id)
          PROVE  /\ RegistryInv'
                 /\ Own' = {d \in Own : Id(d) # id} \union {saved(id)}
                 /\ \A d \in Own : Id(d) = id <=> Consumer(d) = call.reg.consumer
                 /\ Consumer(saved(id)) = call.reg.consumer /\ StoresNamed(saved(id), call.reg)
      BY <1>1, <2>2, <2>3, SaveReplaces
    <2> HIDE DEF saved, written
    <2>4. ASSUME NEW id \in AssignedIds(call.service), registry' = written(id),
                 NEW s, s # None, SavedAs(saved(id), s),
                 call' = [call EXCEPT !.at = "result", !.service = s]
          PROVE  CallInv'
      <3>1. call' = [at |-> "result", reg |-> call.reg, known |-> call.known, service |-> s,
                     secret |-> call.secret, result |-> call.result]
        BY <1>1, <2>4 DEF CallInv
      <3>2. call'.at = "result" /\ call'.reg = call.reg /\ call'.service = s
        BY <3>1
      <3>3. /\ Own' = {d \in Own : Id(d) # id} \union {saved(id)}
            /\ \A d \in Own : Id(d) = id <=> Consumer(d) = call.reg.consumer
            /\ Consumer(saved(id)) = call.reg.consumer /\ StoresNamed(saved(id), call.reg)
        BY <2>3, <2>4
      <3>4. \A d \in Own' : Consumer(d) = call.reg.consumer => d = saved(id)
        BY <3>3
      <3>5. Registered(call.reg)'
        BY <3>2, <3>3, <3>4 DEF Registered
      <3>6. Written'
        BY <2>2, <2>4, <3>2, <3>3, <3>5 DEF Written, ReadyToWrite
      <3> QED BY <3>1, <3>2, <3>6 DEF CallInv, Stages
    <2>5. CallInv'
      BY <2>1, <2>4, FailsInv, Zenon
    <2>6. RegistryInv'
      BY <1>2, <2>1, <2>3, Zenon
    <2> QED BY <1>1, <2>1, <2>5, <2>6 DEF ClientInv
  <1>9. CASE UpsertResult
    <2>1. call.at = "result" /\ UNCHANGED <<registry, fqdn>>
      BY <1>9 DEF UpsertResult
    <2>2. Written /\ RegistryInv' /\ Own' = Own
      BY <1>1, <1>2, <2>1 DEF CallInv
    <2>3. CASE Fails
      BY <1>1, <2>1, <2>2, <2>3, FailsInv DEF ClientInv
    <2>4. CASE ~Fails
      <3>1. PICK result : call' = [NoCall EXCEPT !.at = "ok", !.reg = call.reg, !.result = result]
        BY <1>9, <2>4 DEF UpsertResult
      <3>2. call' = [at |-> "ok", reg |-> call.reg, known |-> None, service |-> None,
                     secret |-> None, result |-> result]
        BY <3>1 DEF NoCall
      <3>3. call'.at = "ok" /\ call'.reg = call.reg
        BY <3>2
      <3>4. call.reg \in Requests /\ Registered(call.reg)'
        BY <2>2, <3>3 DEF Written, Registered
      <3>5. CallInv'
        BY <3>2, <3>3, <3>4 DEF CallInv, Stages, Registered
      <3> QED BY <1>1, <2>1, <2>2, <3>5 DEF ClientInv
    <2> QED BY <2>3, <2>4
  <1>10. CASE DeleteService
    <2>1. /\ call.at = "remove" /\ UNCHANGED fqdn
          /\ registry' \in {registry, Without(call.service.id)}
          /\ \/ Fails
             \/ call' = [NoCall EXCEPT !.at = "ok", !.reg = call.reg]
      BY <1>10 DEF DeleteService
    <2>2. call.service.id \in ServiceIds /\ call.reg \in Requests
      BY <1>1, <2>1 DEF CallInv
    <2>3. RegistryInv'
      <3>1. CASE registry' = registry
        BY <1>2, <3>1
      <3>2. CASE registry' = Without(call.service.id)
        <4> DEFINE id == call.service.id
        <4>1. Own' = {d \in Own : Id(d) # id} /\ IsFiniteSet(registry')
          <5>1. Own' = registry' \ ForeignServices
            BY DEF Own
          <5> QED BY <1>1, <2>2, <3>2, <5>1, WithoutOwn
        <4> QED BY <1>1, <4>1 DEF RegistryInv
      <3> QED BY <2>1, <3>1, <3>2
    <2>4. CASE Fails
      BY <1>1, <2>1, <2>3, <2>4, FailsInv DEF ClientInv
    <2>5. CASE call' = [NoCall EXCEPT !.at = "ok", !.reg = call.reg]
      <3>1. call' = [at |-> "ok", reg |-> call.reg, known |-> None, service |-> None,
                     secret |-> None, result |-> None]
        BY <2>5 DEF NoCall
      <3>2. CallInv'
        BY <2>2, <3>1 DEF CallInv, Stages
      <3> QED BY <1>1, <2>1, <2>3, <3>2 DEF ClientInv
    <2> QED BY <2>1, <2>4, <2>5
  <1>11. CASE Return
    <2>1. call' = NoCall /\ UNCHANGED <<registry, fqdn>>
      BY <1>11 DEF Return
    <2>2. CallInv'
      BY <2>1 DEF CallInv, NoCall, Stages
    <2> QED BY <1>1, <1>2, <2>1, <2>2 DEF ClientInv
  <1>12. ASSUME NEW d \in ForeignServices, ForeignWrite(d)
         PROVE  ClientInv'
    <2>1. /\ registry' \in {registry \union {d}, registry \ {d}}
          /\ UNCHANGED <<call, fqdn>>
      BY <1>12 DEF ForeignWrite
    <2>2. Own' = Own
      BY <2>1 DEF Own
    <2>3. IsFiniteSet(registry')
      BY <1>1, <2>1, FS_AddElement, FS_RemoveElement DEF RegistryInv
    <2>4. RegistryInv'
      BY <1>1, <2>2, <2>3, RegistryKept
    <2>5. CallInv'
      BY <1>3, <2>1, <2>2
    <2> QED BY <1>1, <2>1, <2>4, <2>5 DEF ClientInv
  <1> QED BY <1>4, <1>5, <1>6, <1>7, <1>8, <1>9, <1>10, <1>11, <1>12 DEF Next

\* The invariant holds in every reachable state.
LEMMA ClientInvariant ==
  ASSUME AtomsApart
  PROVE  Spec => []ClientInv
  <1>1. Init => ClientInv
    BY ClientInit
  <1>2. ClientInv /\ [Next]_vars => ClientInv'
    BY ClientStep
  <1> QED BY <1>1, <1>2, PTL DEF Spec

-------------------------------------------------------------------------------
(***************************************************************************)
(* Theorems                                                                *)
(***************************************************************************)

\* No sequence of upserts and deletes, whether their requests succeed, fail or
\* lose their answers, leaves CAS with a list that ListServices cannot decode:
\* whatever others have registered, the documents of the operator are decoded in
\* every form and order CAS gives them.
THEOREM ListsStayDecodable ==
  ASSUME AtomsApart
  PROVE  Spec => []ListDecodable
  <1>1. ASSUME ClientInv PROVE ListDecodable
    <2> SUFFICES ASSUME \A d \in registry \intersect ForeignServices : UnmarshalService(d) # Error,
                        NEW form \in ListForms, NEW r \in BOOLEAN
                 PROVE  UnmarshalServices(ListBody(form, r)) # Error
      BY DEF ListDecodable
    <2>1. RegistryInv /\ IsFiniteSet(registry)
      BY <1>1 DEF ClientInv, RegistryInv
    <2>2. ASSUME NEW d \in registry PROVE UnmarshalService(Document(d, r)) # Error
      <3>1. CASE d \in ForeignServices
        BY <3>1, ForeignDecoded
      <3>2. CASE d \notin ForeignServices
        <4>1. OwnDoc(d)
          BY <2>1, <3>2 DEF RegistryInv, Own
        <4> QED BY <4>1, OwnDecoded
      <3> QED BY <3>1, <3>2
    <2> QED BY <2>1, <2>2, ListDecoded
  <1> QED BY <1>1, ClientInvariant, PTL

\* After a successful Upsert the consumer's document allows exactly the scopes
\* and audiences the parameters name, whatever the document it replaced allowed,
\* for parameters of any number of parts.
THEOREM ParametersRegistered ==
  ASSUME AtomsApart
  PROVE  Spec => []ParamsRegistered
  <1>1. ASSUME ClientInv PROVE ParamsRegistered
    <2> SUFFICES ASSUME call.at = "ok", call.result # None,
                        NEW d \in Own, Consumer(d) = call.reg.consumer,
                        NEW k \in collectionFields
                 PROVE  IF Named(call.reg, k) = {} THEN k \notin DOMAIN d.obj
                        ELSE ToSet(d.obj[k].arr[2].arr) = {Str(x) : x \in Named(call.reg, k)}
      <3>1. \A k \in collectionFields : Named(call.reg, k) =
                IF call.reg.protocol = "CAS" \/ call.reg.params[k] = None
                    \/ (k = "audience" /\ call.reg.protocol # "OAUTH")
                THEN {} ELSE ToSet(call.reg.params[k]) \ {Blank}
        BY DEF Named, Carries
      <3> QED BY <3>1, Zenon DEF ParamsRegistered, Consumer
    <2>1. Registered(call.reg)
      BY <1>1 DEF ClientInv, CallInv
    <2> QED BY <2>1 DEF Registered, StoresNamed
  <1> QED BY <1>1, ClientInvariant, PTL

-------------------------------------------------------------------------------
(***************************************************************************)
(* Refinement of CASBackend                                                *)
(***************************************************************************)

\* A registration without the parameters that only reach the document, and the
\* service a call carries, as the backend's specification sees them.
RegIn(reg) ==
    IF reg = None THEN None
    ELSE [protocol |-> reg.protocol, consumer |-> reg.consumer, clientId |-> reg.clientId]

ServiceOf ==
    IF call.service = None THEN None
    ELSE AsService(IF call.at = "result" THEN SavedId(call.service.serviceID) ELSE call.service.id,
                   call.service.class, call.service.serviceID, call.service.clientID,
                   call.service.clientSecret)

\* The call as the backend's specification sees it, field by field.
LEMMA BackendCallFields ==
  /\ CallInv => BackendCall =
        [at |-> call.at, reg |-> RegIn(call.reg), known |-> call.known,
         service |-> ServiceOf, secret |-> call.secret, result |-> call.result]
  /\ CallInv' => BackendCall' =
        [at |-> call'.at, reg |-> RegIn(call'.reg), known |-> call'.known,
         service |-> ServiceOf', secret |-> call'.secret, result |-> call'.result]
  <1>1. BackendCall = [call EXCEPT !.reg = RegIn(call.reg), !.service = ServiceOf]
    BY Zenon DEF BackendCall, RegIn, ServiceOf
  <1>2. BackendCall' = [call' EXCEPT !.reg = RegIn(call'.reg), !.service = ServiceOf']
    BY Zenon DEF BackendCall, RegIn, ServiceOf
  <1>3. ASSUME NEW c, NEW reg, NEW s, NEW x,
               c = [at |-> c.at, reg |-> c.reg, known |-> c.known, service |-> c.service,
                    secret |-> c.secret, result |-> c.result],
               x = [c EXCEPT !.reg = reg, !.service = s]
        PROVE  x = [at |-> c.at, reg |-> reg, known |-> c.known, service |-> s,
                    secret |-> c.secret, result |-> c.result]
    BY <1>3
  <1> QED BY <1>1, <1>2, <1>3, Zenon DEF CallInv

\* A failed call is a failed call of the backend's specification.
LEMMA FailsMapped ==
  ASSUME Fails
  PROVE  Backend!Fails(Worker)
  <1>1. call' = [at |-> "failed", reg |-> None, known |-> None, service |-> None,
                 secret |-> None, result |-> None]
    BY DEF Fails, NoCall
  <1>2. BackendCall' = call'
    BY <1>1 DEF BackendCall
  <1> QED BY <1>1, <1>2 DEF Backend!Fails, Backend!NoCall

\* The calls of the reconciler are its calls.
LEMMA CallUpsertMapped ==
  ASSUME CallInv, CallInv', NEW reg \in Requests, NEW known \in ClientSecrets \union {None},
         CallUpsert(reg, known)
  PROVE  RegIn(reg) \in Registrations /\ Backend!CallUpsert(Worker, RegIn(reg), known)
  <1>1. call' = [at |-> "upsert", reg |-> reg, known |-> known, service |-> None,
                 secret |-> None, result |-> None] /\ call.at = "idle"
    BY DEF CallUpsert, NoCall
  <1>2. BackendCall' = [at |-> "upsert", reg |-> RegIn(reg), known |-> known, service |-> None,
                 secret |-> None, result |-> None]
    BY <1>1, BackendCallFields DEF ServiceOf
  <1>3. BackendCall.at = "idle"
    BY <1>1, BackendCallFields
  <1>4. RegIn(reg) \in Registrations
    BY RequestAssumption DEF RegIn
  <1>5. UNCHANGED {ServiceIn(d) : d \in Own} /\ UNCHANGED <<fqdn, faults>>
    BY DEF CallUpsert, ServiceIn, Own
  <1> QED BY <1>2, <1>3, <1>4, <1>5 DEF Backend!CallUpsert, Backend!NoCall

\* The same for Delete.
LEMMA CallDeleteMapped ==
  ASSUME CallInv, CallInv', NEW reg \in Requests, CallDelete(reg)
  PROVE  RegIn(reg) \in Registrations /\ Backend!CallDelete(Worker, RegIn(reg))
  <1>1. call' = [at |-> "delete", reg |-> reg, known |-> None, service |-> None,
                 secret |-> None, result |-> None] /\ call.at = "idle"
    BY DEF CallDelete, NoCall
  <1>2. BackendCall' = [at |-> "delete", reg |-> RegIn(reg), known |-> None, service |-> None,
                 secret |-> None, result |-> None]
    BY <1>1, BackendCallFields DEF ServiceOf
  <1>3. BackendCall.at = "idle"
    BY <1>1, BackendCallFields
  <1>4. RegIn(reg) \in Registrations
    BY RequestAssumption DEF RegIn
  <1>5. UNCHANGED {ServiceIn(d) : d \in Own} /\ UNCHANGED <<fqdn, faults>>
    BY DEF CallDelete, ServiceIn, Own
  <1> QED BY <1>2, <1>3, <1>4, <1>5 DEF Backend!CallDelete, Backend!NoCall

\* A class names one protocol.
LEMMA ClassNames ==
  ASSUME NEW p \in Protocols
  PROVE  (CHOOSE q \in Protocols : serviceClass[q] = serviceClass[p]) = p
  <1>1. \A q \in Protocols : serviceClass[q] = serviceClass[p] => q = p
    BY DEF serviceClass, Protocols
  <1> QED BY <1>1

\* The fields of a service seen this way.
LEMMA AsServiceFields ==
  ASSUME AtomsApart, NEW id, NEW class, NEW serviceID, NEW clientID, NEW hash
  PROVE  LET s == AsService(id, class, serviceID, clientID, hash)
         IN  /\ s # None /\ s.id = id /\ s.name = serviceID[2] /\ s.fqdn = serviceID[1]
             /\ s.clientID = clientID /\ s.hash = hash
             /\ \A new : [s EXCEPT !.id = new] = AsService(new, class, serviceID, clientID, hash)
  <1> DEFINE p == CHOOSE q \in Protocols : serviceClass[q] = class
  <1>1. ASSUME NEW new
        PROVE  AsService(new, class, serviceID, clientID, hash) =
                [id |-> new, name |-> serviceID[2], clientID |-> clientID, hash |-> hash,
                 fqdn |-> serviceID[1], protocol |-> p]
    BY DEF AsService
  <1> HIDE DEF p
  <1>2. ASSUME NEW s, NEW new, NEW x,
               s = AsService(id, class, serviceID, clientID, hash), x = [s EXCEPT !.id = new]
        PROVE  x = AsService(new, class, serviceID, clientID, hash)
    BY <1>1, <1>2
  <1> QED BY <1>1, <1>2 DEF AtomsApart

\* The search for a consumer's service in the registry of the backend's
\* specification finds the service that was found in the list.
AsFound(existing) ==
    IF existing = None THEN None
    ELSE AsService(existing.id, existing.class, existing.serviceID, existing.clientID,
                   existing.clientSecret)

\* Its search finds no second service, and this one.
LEMMA SearchMapped ==
  ASSUME AtomsApart, RegistryInv, NEW consumer, NEW existing, Found(existing, consumer)
  PROVE  ~Backend!Ambiguous(consumer) /\ Backend!Existing(consumer) = AsFound(existing)
  <1>1. ASSUME NEW d PROVE ServiceIn(d).name = Consumer(d)
    BY AsServiceFields DEF ServiceIn, Consumer
  <1>2. Backend!Matches(consumer) = {ServiceIn(d) : d \in {e \in Own : Consumer(e) = consumer}}
    BY <1>1 DEF Backend!Matches
  <1>3. CASE existing = None
    <2>1. Backend!Matches(consumer) = {}
      BY <1>2, <1>3 DEF Found
    <2> QED BY <1>3, <2>1 DEF Backend!Ambiguous, Backend!Existing, AsFound
  <1>4. CASE existing # None
    <2>1. PICK d \in Own : Consumer(d) = consumer /\ existing.id = Id(d) /\ SavedAs(d, existing)
      BY <1>4 DEF Found
    <2>2. \A e \in Own : Consumer(e) = consumer => e = d
      BY <2>1 DEF RegistryInv
    <2>3. Backend!Matches(consumer) = {ServiceIn(d)}
      BY <1>2, <2>1, <2>2
    <2>4. ServiceIn(d) = AsFound(existing)
      BY <1>4, <2>1 DEF ServiceIn, AsFound, SavedAs
    <2> QED BY <2>3, <2>4 DEF Backend!Ambiguous, Backend!Existing
  <1> QED BY <1>3, <1>4

\* So does the payload.
LEMMA PayloadMapped ==
  ASSUME AtomsApart, NEW reg \in Requests, ValidRegistration(reg),
         NEW existing,
         existing # None => /\ existing.id \in ServiceIds
                            /\ existing.clientID \in Consumers \union ClientIds \union {None},
         NEW secret, reg.protocol # "CAS" => secret \in ClientSecrets,
         NEW f \in Fqdns
  PROVE  LET s == NewRegisteredService(reg, existing, secret, f)
         IN  AsService(s.id, s.class, s.serviceID, s.clientID, s.clientSecret) =
                Backend!BuildServicePayload(RegIn(reg), AsFound(existing), secret, f)
  <1> DEFINE s == NewRegisteredService(reg, existing, secret, f)
             g == RegIn(reg)
             e == AsFound(existing)
  <1>1. /\ s.id = IF existing = None THEN None ELSE existing.id
        /\ s.serviceID = <<f, reg.consumer>> /\ s.class = serviceClass[reg.protocol]
        /\ s.clientID = IF reg.protocol = "CAS" THEN None ELSE resolveClientID(reg, existing)
        /\ s.clientSecret = IF reg.protocol = "CAS" THEN None ELSE hashClientSecret(secret)
    BY PayloadBuilt
  <1>2. g.protocol = reg.protocol /\ g.consumer = reg.consumer /\ g.clientId = reg.clientId
    BY RequestAssumption DEF RegIn
  <1>3. /\ e = None <=> existing = None
        /\ existing # None => e.id = existing.id /\ e.clientID = existing.clientID
    BY AsServiceFields DEF AsFound
  <1> HIDE DEF s, g, e
  <1>4. reg.protocol \in Protocols
    BY DEF ValidRegistration
  <1>5. Backend!resolveClientID(g, e) = resolveClientID(reg, existing)
    BY <1>2, <1>3 DEF Backend!resolveClientID, resolveClientID
  <1>6. Backend!hashClientSecret(secret) = hashClientSecret(secret)
    BY DEF Backend!hashClientSecret, hashClientSecret
  <1>7. (CHOOSE p \in Protocols : serviceClass[p] = s.class) = reg.protocol
    BY <1>1, <1>4, ClassNames
  <1>8. AsService(s.id, s.class, s.serviceID, s.clientID, s.clientSecret) =
            Backend!BuildServicePayload(g, e, secret, f)
    <2> DEFINE built == [id |-> s.id, name |-> reg.consumer, clientID |-> s.clientID,
                         hash |-> s.clientSecret, fqdn |-> f, protocol |-> reg.protocol]
    <2>1. s.serviceID[1] = f /\ s.serviceID[2] = reg.consumer
      BY <1>1
    <2>2. AsService(s.id, s.class, s.serviceID, s.clientID, s.clientSecret) = built
      BY <1>7, <2>1, Zenon DEF AsService
    <2>3. s.id = IF e = None THEN None ELSE e.id
      BY <1>1, <1>3
    <2>4. s.clientID = IF g.protocol = "CAS" THEN None ELSE Backend!resolveClientID(g, e)
      BY <1>1, <1>2, <1>5
    <2>5. s.clientSecret = IF g.protocol = "CAS" THEN None ELSE Backend!hashClientSecret(secret)
      BY <1>1, <1>2, <1>6
    <2>6. Backend!BuildServicePayload(g, e, secret, f) = built
      BY <1>2, <2>3, <2>4, <2>5 DEF Backend!BuildServicePayload
    <2> QED BY <2>2, <2>6
  <1> QED BY <1>8 DEF s, g, e

\* A list request is the search of the backend's specification.
LEMMA ListMapped ==
  ASSUME AtomsApart, ClientInv, CallInv', NEW form \in ListForms, NEW r \in BOOLEAN,
         NEW drawn \in ClientSecrets, ListServices(form, r, drawn)
  PROVE  Backend!UpsertStep(Worker) \/ Backend!DeleteStep(Worker)
  <1> DEFINE reg == call.reg
             secret == CASE reg.protocol = "CAS" -> None
                         [] reg.protocol # "CAS" /\ call.known # None -> call.known
                         [] OTHER -> drawn
  <1>1. /\ call.at \in {"upsert", "delete"} /\ UNCHANGED <<registry, fqdn>>
        /\ \/ ~Accepted(call.at, reg) /\ Fails /\ UNCHANGED faults
           \/ Fault /\ Fails
           \/ /\ Accepted(call.at, reg) /\ UNCHANGED faults
              /\ \E existing :
                  /\ Found(existing, reg.consumer)
                  /\ call.at = "upsert" =>
                        call' = [call EXCEPT !.at = "write", !.known = None, !.secret = secret,
                            !.service = NewRegisteredService(reg, existing, secret, fqdn)]
                  /\ call.at = "delete" =>
                        call' = IF existing = None THEN [NoCall EXCEPT !.at = "ok", !.reg = reg]
                                ELSE [call EXCEPT !.at = "remove", !.service = existing]
    BY ListStep, Zenon
  <1>2. RegistryInv /\ CallInv /\ fqdn \in Fqdns
    BY DEF ClientInv
  <1>3. /\ reg \in Requests /\ reg # None
        /\ call.known \in ClientSecrets \union {None} /\ call.service = None
    BY <1>1, <1>2, RequestAssumption DEF CallInv
  <1>4. UNCHANGED {ServiceIn(d) : d \in Own} /\ UNCHANGED fqdn
    BY <1>1 DEF ServiceIn, Own
  <1> DEFINE g == RegIn(reg)
  <1>5. BackendCall = [at |-> call.at, reg |-> g, known |-> call.known, service |-> None,
                       secret |-> call.secret, result |-> call.result]
    BY <1>2, <1>3, BackendCallFields DEF ServiceOf
  <1>6. g.protocol = reg.protocol /\ g.consumer = reg.consumer
    BY <1>3 DEF RegIn
  <1>7. Backend!ValidRegistration(g) <=> ValidRegistration(reg)
    BY <1>6 DEF Backend!ValidRegistration, ValidRegistration, Backend!Protocols, Protocols
  <1> HIDE DEF g, reg, secret
  <1>8. CASE (~Accepted(call.at, reg) /\ Fails /\ UNCHANGED faults) \/ (Fault /\ Fails)
    <2>1. Backend!Fails(Worker)
      BY <1>8, FailsMapped
    <2>2. Fault => Backend!Fault
      BY DEF Fault, Backend!Fault
    <2>3. CASE call.at = "upsert"
      <3>1. Accepted(call.at, reg) <=> ValidRegistration(reg)
        BY <2>3 DEF Accepted
      <3>2. Backend!UpsertRejected(Worker)
        BY <1>4, <1>5, <1>7, <1>8, <2>1, <2>2, <2>3, <3>1 DEF Backend!UpsertRejected
      <3> QED BY <3>2 DEF Backend!UpsertStep
    <2>4. CASE call.at = "delete"
      <3>1. Accepted(call.at, reg) <=> reg.consumer # Blank
        BY <2>4 DEF Accepted
      <3>2. Backend!DeleteRejected(Worker)
        BY <1>4, <1>5, <1>6, <1>8, <2>1, <2>2, <2>4, <3>1 DEF Backend!DeleteRejected
      <3> QED BY <3>2 DEF Backend!DeleteStep
    <2> QED BY <1>1, <2>3, <2>4
  <1>9. ASSUME Accepted(call.at, reg), UNCHANGED faults, NEW existing, Found(existing, reg.consumer),
               call.at = "upsert",
               call' = [call EXCEPT !.at = "write", !.known = None, !.secret = secret,
                            !.service = NewRegisteredService(reg, existing, secret, fqdn)]
        PROVE  Backend!UpsertPrepare(Worker, drawn)
    <2> DEFINE s == NewRegisteredService(reg, existing, secret, fqdn)
    <2>1. ValidRegistration(reg)
      BY <1>9 DEF Accepted
    <2>2. reg.protocol # "CAS" => secret \in ClientSecrets
      BY <1>3 DEF secret
    <2>3. ASSUME existing # None
          PROVE  /\ existing.id \in ServiceIds
                 /\ existing.clientID \in Consumers \union ClientIds \union {None}
      <3>1. PICK d \in Own : existing.id = Id(d) /\ SavedAs(d, existing)
        BY <1>9, <2>3 DEF Found
      <3>2. OwnDoc(d)
        BY <1>2 DEF RegistryInv
      <3>3. Id(d) \in ServiceIds
        BY <3>2, OwnValues
      <3>4. StringOf(Field(d, "clientId")) \in Consumers \union ClientIds \union {None}
        BY <3>2, Kinds DEF OwnDoc
      <3> QED BY <3>1, <3>3, <3>4 DEF SavedAs
    <2>4. AsService(s.id, s.class, s.serviceID, s.clientID, s.clientSecret) =
                Backend!BuildServicePayload(g, AsFound(existing), secret, fqdn)
      BY <1>2, <1>3, <2>1, <2>2, <2>3, PayloadMapped DEF g
    <2>5. s # None
      BY <1>2, <1>3, <2>1, <2>2, <2>3, PayloadBuilt
    <2> HIDE DEF s
    <2>6. call' = [at |-> "write", reg |-> reg, known |-> None, service |-> s,
                   secret |-> secret, result |-> call.result]
      <3>1. call = [at |-> call.at, reg |-> call.reg, known |-> call.known, service |-> call.service,
                    secret |-> call.secret, result |-> call.result]
        BY <1>2 DEF CallInv
      <3>2. call' = [call EXCEPT !.at = "write", !.known = None, !.secret = secret, !.service = s]
        BY <1>9 DEF s
      <3> QED BY <3>1, <3>2 DEF reg
    <2>7. ServiceOf' = AsService(s.id, s.class, s.serviceID, s.clientID, s.clientSecret)
      BY <2>5, <2>6 DEF ServiceOf
    <2>8. BackendCall' = [at |-> "write", reg |-> g, known |-> None,
                service |-> Backend!BuildServicePayload(g, AsFound(existing), secret, fqdn),
                secret |-> secret, result |-> call.result]
      BY <2>4, <2>6, <2>7, BackendCallFields DEF g
    <2>9. /\ ~Backend!Ambiguous(g.consumer)
          /\ Backend!Existing(g.consumer) = AsFound(existing)
      BY <1>2, <1>6, <1>9, SearchMapped
    <2>10. Backend!resolveClientSecret(g, call.known, drawn) = secret
      BY <1>6 DEF Backend!resolveClientSecret, secret
    <2> DEFINE payload == Backend!BuildServicePayload(g, AsFound(existing), secret, fqdn)
    <2>11. ASSUME NEW c, NEW x, NEW v,
                  c = [at |-> call.at, reg |-> g, known |-> call.known, service |-> None,
                       secret |-> call.secret, result |-> call.result],
                  x = [c EXCEPT !.at = "write", !.known = None, !.secret = secret, !.service = v]
           PROVE  x = [at |-> "write", reg |-> g, known |-> None, service |-> v,
                       secret |-> secret, result |-> call.result]
      BY <2>11
    <2> HIDE DEF payload
    <2>12. /\ BackendCall.at = "upsert" /\ BackendCall.reg = g /\ BackendCall.known = call.known
      BY <1>5, <1>9
    <2> DEFINE abs == [o \in {Worker} |-> BackendCall]
    <2>13. [o \in {Worker} |-> BackendCall]' =
            [abs EXCEPT ![Worker] = [@ EXCEPT !.at = "write", !.known = None, !.secret = secret,
                                        !.service = payload]]
      <3> DEFINE x == [BackendCall EXCEPT !.at = "write", !.known = None, !.secret = secret,
                                !.service = payload]
      <3>1. x = BackendCall'
        <4>1. BackendCall' = [at |-> "write", reg |-> g, known |-> None, service |-> payload,
                              secret |-> secret, result |-> call.result]
          BY <2>8, Zenon DEF payload
        <4>2. x = [at |-> "write", reg |-> g, known |-> None, service |-> payload,
                   secret |-> secret, result |-> call.result]
          <5>1. x = [BackendCall EXCEPT !.at = "write", !.known = None, !.secret = secret,
                        !.service = payload]
            OBVIOUS
          <5> HIDE DEF x
          <5> QED BY <1>5, <2>11, <5>1, ZenonT(60)
        <4> QED BY <4>1, <4>2
      <3> HIDE DEF x
      <3>2. [o \in {Worker} |-> BackendCall]' = [abs EXCEPT ![Worker] = x]
        BY <3>1
      <3>3. abs[Worker] = BackendCall
        OBVIOUS
      <3> HIDE DEF abs
      <3> QED BY <3>2, <3>3, Zenon DEF x
    <2> QED BY <1>4, <1>7, <1>9, <2>1, <2>9, <2>10, <2>12, <2>13, Zenon DEF Backend!UpsertPrepare, payload
  <1>10. ASSUME Accepted(call.at, reg), UNCHANGED faults, NEW existing, Found(existing, reg.consumer),
                call.at = "delete",
                call' = IF existing = None THEN [NoCall EXCEPT !.at = "ok", !.reg = reg]
                        ELSE [call EXCEPT !.at = "remove", !.service = existing]
         PROVE  Backend!DeleteLookup(Worker)
    <2>1. /\ ~Backend!Ambiguous(g.consumer)
          /\ Backend!Existing(g.consumer) = AsFound(existing)
      BY <1>2, <1>6, <1>10, SearchMapped
    <2>2. g.consumer # Blank
      BY <1>6, <1>10 DEF Accepted
    <2>3. BackendCall.at = "delete" /\ BackendCall.reg = g
      BY <1>5, <1>10
    <2> DEFINE found == AsFound(existing)
               after == IF found = None THEN [Backend!NoCall EXCEPT !.at = "ok", !.reg = BackendCall.reg]
                        ELSE IF found.id = None THEN [Backend!NoCall EXCEPT !.at = "failed"]
                        ELSE [BackendCall EXCEPT !.at = "remove", !.service = found]
    <2>4. BackendCall' = after
      <3>1. CASE existing = None
        <4>1. call' = [at |-> "ok", reg |-> reg, known |-> None, service |-> None,
                       secret |-> None, result |-> None]
          BY <1>10, <3>1 DEF NoCall
        <4>2. BackendCall' = [at |-> "ok", reg |-> g, known |-> None, service |-> None,
                              secret |-> None, result |-> None]
          BY <4>1, BackendCallFields DEF ServiceOf, g
        <4>3. found = None
          BY <3>1 DEF AsFound
        <4>4. after = [Backend!NoCall EXCEPT !.at = "ok", !.reg = g]
          BY <2>3, <4>3
        <4> HIDE DEF after
        <4> QED BY <4>2, <4>4 DEF Backend!NoCall
      <3>2. CASE existing # None
        <4>1. PICK d \in Own : existing.id = Id(d)
          BY <1>10, <3>2 DEF Found
        <4>2. existing.id \in ServiceIds
          BY <1>2, <4>1, OwnValues DEF RegistryInv
        <4>3. found # None /\ found.id # None
          BY <3>2, <4>2, AsServiceFields, AbsentAssumption DEF AsFound
        <4>4. call' = [at |-> "remove", reg |-> reg, known |-> call.known, service |-> existing,
                       secret |-> call.secret, result |-> call.result]
          BY <1>2, <1>10, <3>2 DEF CallInv, reg
        <4>5. ServiceOf' = found
          BY <3>2, <4>4 DEF ServiceOf, AsFound
        <4> HIDE DEF found
        <4>6. BackendCall' = [at |-> "remove", reg |-> g, known |-> call.known, service |-> found,
                              secret |-> call.secret, result |-> call.result]
          BY <4>4, <4>5, BackendCallFields DEF g
        <4>7. ASSUME NEW c, NEW x,
                     c = [at |-> call.at, reg |-> g, known |-> call.known, service |-> None,
                          secret |-> call.secret, result |-> call.result],
                     x = [c EXCEPT !.at = "remove", !.service = found]
              PROVE  x = [at |-> "remove", reg |-> g, known |-> call.known, service |-> found,
                          secret |-> call.secret, result |-> call.result]
          BY <4>7
        <4>8. after = [BackendCall EXCEPT !.at = "remove", !.service = found]
          BY <4>3
        <4> HIDE DEF after
        <4> QED BY <1>5, <4>6, <4>7, <4>8, Zenon
      <3> QED BY <3>1, <3>2
    <2> DEFINE abs == [o \in {Worker} |-> BackendCall]
    <2>5. [o \in {Worker} |-> BackendCall]' = [abs EXCEPT ![Worker] = after]
      <3> HIDE DEF after
      <3> QED BY <2>4
    <2>6. [o \in {Worker} |-> BackendCall]' = [abs EXCEPT ![Worker] =
                IF found = None THEN [Backend!NoCall EXCEPT !.at = "ok", !.reg = abs[Worker].reg]
                ELSE IF found.id = None THEN [Backend!NoCall EXCEPT !.at = "failed"]
                ELSE [@ EXCEPT !.at = "remove", !.service = found]]
      <3> HIDE DEF found
      <3>1. abs[Worker] = BackendCall
        OBVIOUS
      <3> HIDE DEF abs
      <3> QED BY <2>5, <3>1, Zenon
    <2> HIDE DEF found, after
    <2> QED BY <1>4, <1>10, <2>1, <2>2, <2>3, <2>6, Zenon DEF Backend!DeleteLookup, found
  <1>11. ASSUME Accepted(call.at, reg), UNCHANGED faults, NEW existing, Found(existing, reg.consumer),
                call.at = "upsert" =>
                    call' = [call EXCEPT !.at = "write", !.known = None, !.secret = secret,
                            !.service = NewRegisteredService(reg, existing, secret, fqdn)],
                call.at = "delete" =>
                    call' = IF existing = None THEN [NoCall EXCEPT !.at = "ok", !.reg = reg]
                            ELSE [call EXCEPT !.at = "remove", !.service = existing]
         PROVE  Backend!UpsertStep(Worker) \/ Backend!DeleteStep(Worker)
    <2>1. CASE call.at = "upsert"
      <3>1. Backend!UpsertPrepare(Worker, drawn)
        BY <1>9, <1>11, <2>1
      <3> QED BY <3>1 DEF Backend!UpsertStep
    <2>2. CASE call.at = "delete"
      <3>1. Backend!DeleteLookup(Worker)
        BY <1>10, <1>11, <2>2
      <3> QED BY <3>1 DEF Backend!DeleteStep
    <2> QED BY <1>1, <2>1, <2>2
  <1> QED BY <1>1, <1>8, <1>11, Zenon

\* CAS assigns the ids the backend's specification says, and saves what it says.
LEMMA SaveMapped ==
  ASSUME AtomsApart, ClientInv, call.at = "write", NEW v,
         v = AsService(call.service.id, call.service.class, call.service.serviceID,
                       call.service.clientID, call.service.clientSecret)
  PROVE  /\ BackendCall = [at |-> "write", reg |-> RegIn(call.reg), known |-> call.known,
                           service |-> v, secret |-> call.secret, result |-> call.result]
         /\ Backend!IdsFor(v) = AssignedIds(call.service)
         /\ \A id \in AssignedIds(call.service) :
                registry' = Without(id) \union {Stored(MarshalService(call.service), id)} =>
                    {ServiceIn(d) : d \in Own}' = Backend!Save(v, id)
  <1>1. RegistryInv /\ CallInv /\ ReadyToWrite
    BY DEF ClientInv, CallInv
  <1>2. call.service # None
    BY <1>1 DEF ReadyToWrite
  <1>3. BackendCall = [at |-> "write", reg |-> RegIn(call.reg), known |-> call.known,
                       service |-> v, secret |-> call.secret, result |-> call.result]
    <2>1. ServiceOf = v
      BY <1>2 DEF ServiceOf
    <2> QED BY <1>1, <2>1, BackendCallFields
  <1>4. v # None /\ v.id = call.service.id
    BY AsServiceFields
  <1>5. \A d : ServiceIn(d).id = Id(d)
    BY AsServiceFields DEF ServiceIn
  <1>6. Backend!IdsFor(v) = AssignedIds(call.service)
    <2>1. CASE call.service.id # None
      BY <1>4, <2>1 DEF Backend!IdsFor, AssignedIds
    <2>2. CASE call.service.id = None
      <3> DEFINE AS == {ServiceIn(d) : d \in Own}
      <3>1. {s.id : s \in AS} = {Id(d) : d \in Own}
        BY <1>5
      <3>2. BackendCall.service = v
        BY <1>3
      <3>3. {[o \in {Worker} |-> BackendCall][p].service.id :
                p \in {q \in {Worker} : [o \in {Worker} |-> BackendCall][q].service # None}} = {None}
        BY <1>4, <2>2, <3>2
      <3>4. Backend!UsedIds = {Id(d) : d \in Own} \union {None}
        BY <3>1, <3>3 DEF Backend!UsedIds
      <3>5. ServiceIds \ Backend!UsedIds = ServiceIds \ {Id(d) : d \in registry}
        <4>1. ASSUME NEW i \in ServiceIds
              PROVE  i \in Backend!UsedIds <=> i \in {Id(d) : d \in registry}
          <5>1. i # None
            BY AbsentAssumption
          <5>2. \A d \in registry : Id(d) = i => d \in Own
            BY <1>1, WithoutOwn
          <5> QED BY <3>4, <5>1, <5>2 DEF Own
        <4> QED BY <4>1
      <3> QED BY <1>4, <2>2, <3>5, Zenon DEF Backend!IdsFor, AssignedIds
    <2> QED BY <2>1, <2>2
  <1>7. ASSUME NEW id \in AssignedIds(call.service),
               registry' = Without(id) \union {Stored(MarshalService(call.service), id)}
        PROVE  {ServiceIn(d) : d \in Own}' = Backend!Save(v, id)
    <2> DEFINE saved == Stored(MarshalService(call.service), id)
    <2>1. /\ Own' = {d \in Own : Id(d) # id} \union {saved}
          /\ SavedAs(saved, call.service) /\ Id(saved) = id
      BY <1>1, <1>7, SaveReplaces
    <2> HIDE DEF saved
    <2>2. [v EXCEPT !.id = id] = ServiceIn(saved)
      <3>1. [v EXCEPT !.id = id] = AsService(id, call.service.class, call.service.serviceID,
                       call.service.clientID, call.service.clientSecret)
        BY AsServiceFields
      <3> QED BY <2>1, <3>1 DEF ServiceIn, SavedAs
    <2>3. {ServiceIn(d) : d \in Own}' = {ServiceIn(d) : d \in Own'}
      BY DEF ServiceIn
    <2>4. {ServiceIn(d) : d \in Own'} =
            {s \in {ServiceIn(d) : d \in Own} : s.id # id} \union {ServiceIn(saved)}
      BY <1>5, <2>1
    <2> QED BY <2>2, <2>3, <2>4, Zenon DEF Backend!Save
  <1> QED BY <1>3, <1>6, <1>7

\* A write request is the write of the backend's specification.
LEMMA WriteMapped ==
  ASSUME AtomsApart, ClientInv, ClientInv', NEW r \in BOOLEAN, WriteService(r)
  PROVE  Backend!UpsertStep(Worker)
  <1> DEFINE saved(id) == Stored(MarshalService(call.service), id)
             written(id) == Without(id) \union {saved(id)}
             v == AsService(call.service.id, call.service.class, call.service.serviceID,
                            call.service.clientID, call.service.clientSecret)
             AS == {ServiceIn(d) : d \in Own}
  <1>1. /\ call.at = "write" /\ UNCHANGED fqdn
        /\ \/ \E id \in AssignedIds(call.service) :
                /\ registry' = written(id) /\ UNCHANGED faults
                /\ \E s : /\ s # None /\ SavedAs(saved(id), s)
                         /\ call' = [call EXCEPT !.at = "result", !.service = s]
           \/ /\ Fault /\ Fails
              /\ \/ UNCHANGED registry
                 \/ \E id \in AssignedIds(call.service) : registry' = written(id)
    BY WriteStep, Zenon
  <1>2. RegistryInv /\ CallInv /\ ReadyToWrite /\ CallInv' /\ RegistryInv'
    BY <1>1 DEF ClientInv, CallInv
  <1>3. /\ BackendCall = [at |-> "write", reg |-> RegIn(call.reg), known |-> call.known,
                          service |-> v, secret |-> call.secret, result |-> call.result]
        /\ Backend!IdsFor(v) = AssignedIds(call.service)
        /\ \A id \in AssignedIds(call.service) : registry' = written(id) => AS' = Backend!Save(v, id)
    BY <1>1, SaveMapped
  <1>4. \A new : [v EXCEPT !.id = new] =
            AsService(new, call.service.class, call.service.serviceID,
                            call.service.clientID, call.service.clientSecret)
    BY AsServiceFields
  <1>5. ASSUME NEW id \in AssignedIds(call.service), registry' = written(id),
               NEW s, s # None, SavedAs(saved(id), s),
               call' = [call EXCEPT !.at = "result", !.service = s]
        PROVE  BackendCall' = [BackendCall EXCEPT !.at = "result", !.service.id = id]
    <2>1. /\ Id(saved(id)) = id /\ saved(id) \in Own' /\ SavedAs(saved(id), call.service)
      BY <1>2, <1>5, SaveReplaces
    <2> HIDE DEF saved, written
    <2>2. call' = [at |-> "result", reg |-> call.reg, known |-> call.known, service |-> s,
                   secret |-> call.secret, result |-> call.result]
      BY <1>2, <1>5 DEF CallInv
    <2>3. call'.at = "result" /\ call'.service = s
      BY <2>2
    <2>4. (CHOOSE d \in Own' : d.obj["serviceId"].str = s.serviceID) = saved(id)
      <3>1. saved(id).obj["serviceId"].str = s.serviceID
        BY <1>5 DEF SavedAs
      <3>2. \A d \in Own' : d.obj["serviceId"].str = s.serviceID => d = saved(id)
        BY <1>2, <2>1, <3>1 DEF RegistryInv, Consumer
      <3> QED BY <2>1, <3>1, <3>2
    <2>5. SavedId(s.serviceID)' = id
      <3>1. SavedId(s.serviceID)' = Id(CHOOSE d \in Own' : d.obj["serviceId"].str = s.serviceID)
        BY DEF SavedId, Id
      <3> QED BY <2>1, <2>4, <3>1
    <2>6. ServiceOf' = AsService(id, s.class, s.serviceID, s.clientID, s.clientSecret)
      BY <1>5, <2>3, <2>5 DEF ServiceOf, SavedId
    <2>7. ServiceOf' = [v EXCEPT !.id = id]
      <3>1. /\ s.class = call.service.class /\ s.serviceID = call.service.serviceID
            /\ s.clientID = call.service.clientID /\ s.clientSecret = call.service.clientSecret
        BY <1>5, <2>1 DEF SavedAs
      <3> QED BY <1>4, <2>6, <3>1, Zenon
    <2> HIDE DEF v
    <2>8. BackendCall' = [at |-> "result", reg |-> RegIn(call.reg), known |-> call.known,
                service |-> [v EXCEPT !.id = id], secret |-> call.secret, result |-> call.result]
      <3>1. BackendCall' = [at |-> call'.at, reg |-> RegIn(call'.reg), known |-> call'.known,
                 service |-> ServiceOf', secret |-> call'.secret, result |-> call'.result]
        BY <1>2, BackendCallFields
      <3>2. /\ call'.reg = call.reg /\ call'.known = call.known /\ call'.secret = call.secret
            /\ call'.result = call.result
        BY <2>2
      <3> QED BY <2>3, <2>7, <3>1, <3>2, Zenon
    <2>9. ASSUME NEW c, NEW x,
                 c = [at |-> "write", reg |-> RegIn(call.reg), known |-> call.known,
                      service |-> v, secret |-> call.secret, result |-> call.result],
                 x = [c EXCEPT !.at = "result", !.service.id = id]
          PROVE  x = [at |-> "result", reg |-> RegIn(call.reg), known |-> call.known,
                service |-> [v EXCEPT !.id = id], secret |-> call.secret, result |-> call.result]
      BY <2>9
    <2> DEFINE y == [BackendCall EXCEPT !.at = "result", !.service.id = id]
    <2>10. y = [at |-> "result", reg |-> RegIn(call.reg), known |-> call.known,
                service |-> [v EXCEPT !.id = id], secret |-> call.secret, result |-> call.result]
      <3>1. y = [BackendCall EXCEPT !.at = "result", !.service.id = id]
        OBVIOUS
      <3> HIDE DEF y
      <3> QED BY <1>3, <2>9, <3>1, ZenonT(60)
    <2> QED BY <2>8, <2>10
  <1>6. BackendCall.at = "write" /\ BackendCall.service = v
    BY <1>3
  <1> HIDE DEF v, AS, saved, written
  <1>7. ASSUME NEW id \in AssignedIds(call.service), registry' = written(id), UNCHANGED faults,
               NEW s, s # None, SavedAs(saved(id), s),
               call' = [call EXCEPT !.at = "result", !.service = s]
        PROVE  Backend!UpsertWrite(Worker)
    <2>1. AS' = Backend!Save(v, id) /\ id \in Backend!IdsFor(v)
      BY <1>3, <1>7
    <2>2. BackendCall' = [BackendCall EXCEPT !.at = "result", !.service.id = id]
      BY <1>5, <1>7
    <2> DEFINE abs == [o \in {Worker} |-> BackendCall]
               x == [BackendCall EXCEPT !.at = "result", !.service.id = id]
    <2>3. [o \in {Worker} |-> BackendCall]' = [abs EXCEPT ![Worker] = x]
      <3>1. BackendCall' = x
        BY <2>2
      <3> HIDE DEF x
      <3> QED BY <3>1
    <2>4. abs[Worker] = BackendCall
      OBVIOUS
    <2>5. abs[Worker].at = "write" /\ abs[Worker].service = v
      BY <1>6, <2>4
    <2>6. [o \in {Worker} |-> BackendCall]' =
            [abs EXCEPT ![Worker] = [@ EXCEPT !.at = "result", !.service.id = id]]
      <3> HIDE DEF abs
      <3> QED BY <2>3, <2>4, Zenon
    <2> HIDE DEF x
    <2> QED BY <1>1, <1>7, <2>1, <2>5, <2>6, Zenon DEF Backend!UpsertWrite, AS
  <1>8. ASSUME Fault, Fails,
               UNCHANGED registry \/ \E id \in AssignedIds(call.service) : registry' = written(id)
        PROVE  Backend!UpsertWriteFails(Worker)
    <2>1. Backend!Fails(Worker) /\ Backend!Fault
      BY <1>8, FailsMapped DEF Fault, Backend!Fault
    <2>2. UNCHANGED registry => AS' = AS
      BY DEF AS, ServiceIn, Own
    <2>3. AS' = AS \/ \E id \in Backend!IdsFor(v) : AS' = Backend!Save(v, id)
      BY <1>3, <1>8, <2>2
    <2> DEFINE abs == [o \in {Worker} |-> BackendCall]
    <2>4. abs[Worker].at = "write" /\ abs[Worker].service = v
      BY <1>6
    <2> QED BY <1>1, <2>1, <2>3, <2>4, Zenon DEF Backend!UpsertWriteFails, AS
  <1> QED BY <1>1, <1>7, <1>8, Zenon DEF Backend!UpsertStep

\* The last read of an upsert.
LEMMA ResultMapped ==
  ASSUME AtomsApart, ClientInv, CallInv', UpsertResult
  PROVE  Backend!UpsertStep(Worker)
  <1> DEFINE AS == {ServiceIn(d) : d \in Own}
             persisted == [name |-> call.service.serviceID[2], fqdn |-> call.service.serviceID[1],
                           clientID |-> call.service.clientID]
             result == BuildRegistrationResult(call.reg, persisted, call.secret, fqdn)
  <1>1. /\ call.at = "result" /\ UNCHANGED <<registry, fqdn>>
        /\ \/ /\ call' = [NoCall EXCEPT !.at = "ok", !.reg = call.reg, !.result = result]
              /\ UNCHANGED faults
           \/ Fault /\ Fails
    BY Zenon DEF UpsertResult
  <1>2. CallInv /\ Written
    BY <1>1 DEF ClientInv, CallInv
  <1>3. AS' = AS
    BY <1>1 DEF ServiceIn, Own
  <1>4. BackendCall = [at |-> "result", reg |-> RegIn(call.reg), known |-> call.known,
                       service |-> ServiceOf, secret |-> call.secret, result |-> call.result]
    BY <1>1, <1>2, BackendCallFields
  <1>5. BackendCall.at = "result" /\ BackendCall.reg = RegIn(call.reg)
        /\ BackendCall.service = ServiceOf /\ BackendCall.secret = call.secret
    BY <1>4
  <1> HIDE DEF AS
  <1>6. CASE Fault /\ Fails
    <2>1. Backend!Fails(Worker) /\ Backend!Fault
      BY <1>6, FailsMapped DEF Fault, Backend!Fault
    <2>2. Backend!UpsertResultFails(Worker)
      BY <1>1, <1>3, <1>5, <2>1 DEF Backend!UpsertResultFails, AS
    <2> QED BY <2>2 DEF Backend!UpsertStep
  <1>7. CASE /\ call' = [NoCall EXCEPT !.at = "ok", !.reg = call.reg, !.result = result]
             /\ UNCHANGED faults
    <2> DEFINE g == RegIn(call.reg)
               v == ServiceOf
    <2>1. call.reg # None /\ call.service # None /\ call.reg.protocol \in Protocols
      BY <1>2, RequestAssumption DEF Written, ValidRegistration
    <2>2. g.protocol = call.reg.protocol
      BY <2>1 DEF RegIn
    <2>3. v.name = call.service.serviceID[2] /\ v.fqdn = call.service.serviceID[1]
          /\ v.clientID = call.service.clientID
      BY <2>1, AsServiceFields DEF ServiceOf
    <2>4. persisted.name = v.name /\ persisted.fqdn = v.fqdn /\ persisted.clientID = v.clientID
      BY <2>3
    <2> HIDE DEF persisted, v, g
    <2>5. Backend!BuildRegistrationResult(g, v, call.secret, fqdn) = result
      BY <2>1, <2>2, <2>4
         DEF Backend!BuildRegistrationResult, BuildRegistrationResult, Protocols
    <2> HIDE DEF result
    <2>6. call' = [at |-> "ok", reg |-> call.reg, known |-> None, service |-> None,
                   secret |-> None, result |-> result]
      BY <1>7 DEF NoCall
    <2>7. BackendCall' = [at |-> "ok", reg |-> g, known |-> None, service |-> None,
                          secret |-> None, result |-> result]
      BY <2>6, BackendCallFields DEF ServiceOf, g
    <2> DEFINE abs == [o \in {Worker} |-> BackendCall]
               x == [Backend!NoCall EXCEPT !.at = "ok", !.reg = g, !.result = result]
    <2>8. BackendCall' = x
      <3>1. x = [Backend!NoCall EXCEPT !.at = "ok", !.reg = g, !.result = result]
        OBVIOUS
      <3> HIDE DEF x
      <3> QED BY <2>7, <3>1 DEF Backend!NoCall
    <2> HIDE DEF x
    <2>9. [o \in {Worker} |-> BackendCall]' = [abs EXCEPT ![Worker] = x]
      BY <2>8
    <2>10. abs[Worker] = BackendCall
      OBVIOUS
    <2> HIDE DEF abs
    <2>11. [o \in {Worker} |-> BackendCall]' = [abs EXCEPT ![Worker] =
                [Backend!NoCall EXCEPT !.at = "ok", !.reg = abs[Worker].reg,
                    !.result = Backend!BuildRegistrationResult(abs[Worker].reg, abs[Worker].service,
                                                               abs[Worker].secret, fqdn)]]
      <3>1. abs[Worker].reg = g /\ abs[Worker].service = v /\ abs[Worker].secret = call.secret
        BY <1>5, <2>10 DEF g, v
      <3> QED BY <2>5, <2>9, <3>1, Zenon DEF x
    <2>12. abs[Worker].at = "result"
      BY <1>5, <2>10
    <2>13. Backend!UpsertResult(Worker)
      BY <1>1, <1>3, <1>7, <2>11, <2>12, Zenon DEF Backend!UpsertResult, AS, abs
    <2> QED BY <2>13 DEF Backend!UpsertStep
  <1> QED BY <1>1, <1>6, <1>7

\* The delete request.
LEMMA DeleteMapped ==
  ASSUME AtomsApart, ClientInv, CallInv', DeleteService
  PROVE  Backend!DeleteStep(Worker)
  <1> DEFINE AS == {ServiceIn(d) : d \in Own}
             id == call.service.id
  <1>1. /\ call.at = "remove" /\ UNCHANGED fqdn
        /\ \/ /\ registry' = Without(id) /\ UNCHANGED faults
              /\ call' = [NoCall EXCEPT !.at = "ok", !.reg = call.reg]
           \/ Fault /\ Fails /\ registry' \in {registry, Without(id)}
    BY DEF DeleteService
  <1>2. CallInv /\ RegistryInv /\ call.service # None /\ id \in ServiceIds /\ call.reg \in Requests
    BY <1>1 DEF ClientInv, CallInv
  <1>3. BackendCall = [at |-> "remove", reg |-> RegIn(call.reg), known |-> call.known,
                       service |-> ServiceOf, secret |-> call.secret, result |-> call.result]
    BY <1>1, <1>2, BackendCallFields
  <1>4. ServiceOf.id = id
    BY <1>1, <1>2, AsServiceFields DEF ServiceOf
  <1>5. BackendCall.at = "remove" /\ BackendCall.reg = RegIn(call.reg) /\ BackendCall.service.id = id
    BY <1>3, <1>4
  <1>6. registry' = Without(id) => AS' = Backend!Removed(id)
    <2> SUFFICES ASSUME registry' = Without(id) PROVE AS' = Backend!Removed(id)
      OBVIOUS
    <2>1. Own' = {d \in Own : Id(d) # id}
      <3>1. Own' = registry' \ ForeignServices
        BY DEF Own
      <3> QED BY <1>2, <3>1, WithoutOwn
    <2>2. \A d : ServiceIn(d).id = Id(d)
      BY AsServiceFields DEF ServiceIn
    <2>3. AS' = {ServiceIn(d) : d \in Own'}
      BY DEF ServiceIn
    <2>4. {ServiceIn(d) : d \in Own'} = {s \in AS : s.id # id}
      BY <2>1, <2>2
    <2> QED BY <2>3, <2>4, Zenon DEF Backend!Removed
  <1>7. UNCHANGED registry => AS' = AS
    BY DEF ServiceIn, Own
  <1> HIDE DEF AS, id
  <1> DEFINE abs == [o \in {Worker} |-> BackendCall]
  <1>8. abs[Worker] = BackendCall
    OBVIOUS
  <1>9. abs[Worker].at = "remove" /\ abs[Worker].reg = RegIn(call.reg) /\ abs[Worker].service.id = id
    BY <1>5, <1>8
  <1>10. CASE Fault /\ Fails /\ registry' \in {registry, Without(id)}
    <2>1. Backend!Fails(Worker) /\ Backend!Fault
      BY <1>10, FailsMapped DEF Fault, Backend!Fault
    <2>2. AS' \in {AS, Backend!Removed(abs[Worker].service.id)}
      BY <1>6, <1>7, <1>9, <1>10
    <2>3. Backend!DeleteRemoveFails(Worker)
      BY <1>1, <1>9, <2>1, <2>2, Zenon DEF Backend!DeleteRemoveFails, AS
    <2> QED BY <2>3 DEF Backend!DeleteStep
  <1>11. CASE /\ registry' = Without(id) /\ UNCHANGED faults
              /\ call' = [NoCall EXCEPT !.at = "ok", !.reg = call.reg]
    <2>1. call' = [at |-> "ok", reg |-> call.reg, known |-> None, service |-> None,
                   secret |-> None, result |-> None]
      BY <1>11 DEF NoCall
    <2>2. BackendCall' = [at |-> "ok", reg |-> RegIn(call.reg), known |-> None, service |-> None,
                          secret |-> None, result |-> None]
      BY <2>1, BackendCallFields DEF ServiceOf
    <2> DEFINE x == [Backend!NoCall EXCEPT !.at = "ok", !.reg = RegIn(call.reg)]
    <2>3. BackendCall' = x
      <3>1. x = [Backend!NoCall EXCEPT !.at = "ok", !.reg = RegIn(call.reg)]
        OBVIOUS
      <3> HIDE DEF x
      <3> QED BY <2>2, <3>1 DEF Backend!NoCall
    <2> HIDE DEF x
    <2>4. [o \in {Worker} |-> BackendCall]' = [abs EXCEPT ![Worker] = x]
      BY <2>3
    <2> HIDE DEF abs
    <2>5. [o \in {Worker} |-> BackendCall]' =
            [abs EXCEPT ![Worker] = [Backend!NoCall EXCEPT !.at = "ok", !.reg = abs[Worker].reg]]
      BY <1>9, <2>4, Zenon DEF x
    <2>6. AS' = Backend!Removed(abs[Worker].service.id)
      BY <1>6, <1>9, <1>11
    <2>7. Backend!DeleteRemove(Worker)
      BY <1>1, <1>9, <1>11, <2>5, <2>6, Zenon DEF Backend!DeleteRemove, AS, abs
    <2> QED BY <2>7 DEF Backend!DeleteStep
  <1> QED BY <1>1, <1>10, <1>11

\* Steps of others leave what the backend's specification sees alone.
LEMMA UnseenMapped ==
  ASSUME CallInv, CallInv', Own' = Own, UNCHANGED <<call, fqdn, faults>>
  PROVE  UNCHANGED Backend!casVars
  <1>1. {ServiceIn(d) : d \in Own}' = {ServiceIn(d) : d \in Own}
    BY DEF ServiceIn
  <1>2. ServiceOf' = ServiceOf
    BY DEF ServiceOf, SavedId
  <1>3. BackendCall' = BackendCall
    BY <1>2, BackendCallFields
  <1> QED BY <1>1, <1>3 DEF Backend!casVars

\* Every step is a step of the backend's specification, or none.
LEMMA BackendStep ==
  ASSUME AtomsApart, ClientInv, ClientInv', [Next]_vars
  PROVE  [Backend!CASNext]_(Backend!casVars)
  <1>1. CallInv /\ CallInv'
    BY DEF ClientInv
  <1>2. Worker \in {Worker} /\ Backend!Registrations = Registrations
    BY DEF Backend!Registrations, Registrations, Backend!Protocols, Protocols
  <1>3. CASE UNCHANGED vars
    BY <1>1, <1>3, UnseenMapped DEF vars, Own
  <1>4. ASSUME NEW reg \in Requests, NEW known \in ClientSecrets \union {None}, CallUpsert(reg, known)
        PROVE  Backend!CASNext
    <2>1. RegIn(reg) \in Registrations /\ Backend!CallUpsert(Worker, RegIn(reg), known)
      BY <1>1, <1>4, CallUpsertMapped
    <2> QED BY <1>2, <2>1, Zenon DEF Backend!CASNext
  <1>5. ASSUME NEW reg \in Requests, CallDelete(reg)
        PROVE  Backend!CASNext
    <2>1. RegIn(reg) \in Registrations /\ Backend!CallDelete(Worker, RegIn(reg))
      BY <1>1, <1>5, CallDeleteMapped
    <2> QED BY <1>2, <2>1, Zenon DEF Backend!CASNext
  <1>6. ASSUME NEW form \in ListForms, NEW r \in BOOLEAN, NEW drawn \in ClientSecrets,
               ListServices(form, r, drawn)
        PROVE  Backend!CASNext
    BY <1>1, <1>2, <1>6, ListMapped DEF Backend!CASNext
  <1>7. ASSUME NEW r \in BOOLEAN, WriteService(r)
        PROVE  Backend!CASNext
    BY <1>2, <1>7, WriteMapped DEF Backend!CASNext
  <1>8. CASE UpsertResult
    BY <1>1, <1>2, <1>8, ResultMapped DEF Backend!CASNext
  <1>9. CASE DeleteService
    BY <1>1, <1>2, <1>9, DeleteMapped DEF Backend!CASNext
  <1>10. CASE Return
    <2>1. call.at \in {"ok", "failed"} /\ call' = NoCall /\ UNCHANGED <<registry, fqdn, faults>>
      BY <1>10 DEF Return
    <2>2. BackendCall.at = call.at
      BY <1>1, BackendCallFields
    <2>3. BackendCall' = Backend!NoCall
      BY <1>1, <2>1, BackendCallFields DEF NoCall, RegIn, ServiceOf, Backend!NoCall
    <2>4. UNCHANGED {ServiceIn(d) : d \in Own}
      BY <2>1 DEF ServiceIn, Own
    <2>5. Backend!Return(Worker)
      BY <2>1, <2>2, <2>3, <2>4 DEF Backend!Return
    <2> QED BY <1>2, <2>5 DEF Backend!CASNext
  <1>11. ASSUME NEW d \in ForeignServices, ForeignWrite(d)
         PROVE  UNCHANGED Backend!casVars
    <2>1. Own' = Own /\ UNCHANGED <<call, fqdn, faults>>
      BY <1>11 DEF ForeignWrite, Own
    <2> QED BY <1>1, <2>1, UnseenMapped
  <1> QED BY <1>3, <1>4, <1>5, <1>6, <1>7, <1>8, <1>9, <1>10, <1>11 DEF Next

\* On the wire the backend does what CASBackend says: documents of any form and
\* order, foreign services and answers without a body change nothing of it.
THEOREM BackendImplemented ==
  ASSUME AtomsApart
  PROVE  Spec => ImplementsBackend
  <1>1. Init => Backend!CASInit
    <2> SUFFICES ASSUME Init PROVE Backend!CASInit
      OBVIOUS
    <2>1. CallInv
      BY ClientInit DEF ClientInv
    <2>2. BackendCall = Backend!NoCall
      BY <2>1, BackendCallFields DEF Init, NoCall, RegIn, ServiceOf, Backend!NoCall
    <2>3. {ServiceIn(d) : d \in Own} = {}
      BY DEF Init, Own
    <2> QED BY <2>2, <2>3 DEF Init, Backend!CASInit
  <1>2. ClientInv /\ ClientInv' /\ [Next]_vars => [Backend!CASNext]_(Backend!casVars)
    BY BackendStep
  <1>3. Spec => []ClientInv
    BY ClientInvariant
  <1>4. Spec => Backend!CASSpec
    BY <1>1, <1>2, <1>3, PTL DEF Spec, Backend!CASSpec
  <1> QED BY <1>4 DEF ImplementsBackend

================================================================================
