----------------------------- MODULE OpsProofs ------------------------------
(***************************************************************************)
(* Facts about the data part of the handlers: whatever value of the store  *)
(* a handler finds, what it writes is a value of the store again and what  *)
(* it returns is a result.                                                 *)
(***************************************************************************)
EXTENDS Ops, SequenceTheorems, FiniteSetTheorems, WellFoundedInduction, TLAPS

-----------------------------------------------------------------------------
(* Values.                                                                 *)

\* The arithmetic of int64 stays within its width (IncrementInt).
LEMMA WrapType == \A n \in Int : Wrap(n) \in Int64
  BY HalfAssumption, SMTT(30) DEF Wrap, Int64

\* Zero is an int64.
LEMMA ZeroInt64 == 0 \in Int64 /\ Int64 \subseteq Int
  BY HalfAssumption DEF Int64

\* What a value decodes to, by its type.
LEMMA DecodedType ==
  ASSUME NEW v \in Values
  PROVE  /\ v.type = "int" => v.int \in Int64
         /\ v.type = "float" => v.float \in Floats
         /\ v.type = "list" => v.value \in Seq(Elements) /\ v.limit \in Int64
         /\ v.type = "hash" => v.fields \in Hashes
         /\ v.type = "raw" => v.raw \in Items
  BY DEF Values, Absent, ZeroByte, Empty, Leased

\* Constructors yield values that a request can carry.
LEMMA EncodedType ==
  /\ \A n \in Int64 : IntV(n) \in Stored /\ EncodeInt(n) \in Stored
  /\ \A x \in Floats : FloatV(x) \in Stored /\ EncodeFloat(x) \in Stored
  /\ \A s \in Seq(Elements), l \in Int64 : ListV(s, l) \in Stored /\ EncodeList(s, l) \in Stored
  /\ \A m \in Hashes : HashV(m) \in Stored /\ EncodeHash(m) \in Stored
  /\ \A i \in Items : RawV(i) \in Stored
  /\ Stored \subseteq Values
  BY DEF Stored, Values, IntV, FloatV, ListV, HashV, RawV, EncodeInt, EncodeFloat, EncodeList, EncodeHash,
         Absent, ZeroByte, Empty, Leased

-----------------------------------------------------------------------------
(* Outcomes.                                                               *)

\* The constructors of outcomes are typed when their arguments are.
LEMMA OutcomeType ==
  /\ \A v \in Stored, x \in Replies : Write(v, x) \in Outcomes
  /\ \A r \in Results : Refuse(r) \in Outcomes /\ Return(r) \in Outcomes
  /\ Panic \in Outcomes
<1>1. Absent \in Values \ {Leased} /\ Stored \subseteq Values \ {Leased}
  BY DEF Values, Absent, Leased, Stored
<1>2. /\ \A x \in Replies : Ok(x) \in Results
      /\ Err("ErrUnavailable") \in Results
  BY DEF Ok, Err, Results, Errors
<1> QED
  BY <1>1, <1>2 DEF Outcomes, Write, Refuse, Return, Panic

\* Results that handlers return.
LEMMA ResultType ==
  /\ \A e \in Errors : Err(e) \in Results
  /\ \A x \in Replies : Ok(x) \in Results
  /\ \A n \in Int : NumV(n) \in Replies
  /\ \A b \in BOOLEAN : BoolV(b) \in Replies
  /\ NullV \in Replies
  /\ \A i \in Items : RawV(i) \in Replies
  /\ \A e \in Elements : ElemV(e) \in Replies
  /\ Values \subseteq Replies
  BY EncodedType DEF Err, Ok, Results, Replies, NumV, BoolV, NullV, ElemV

-----------------------------------------------------------------------------
(* Integers.                                                               *)

\* IncrementInt and DecrementInt write an int64, wrapped when the sum is not one.
LEMMA IntOutcome ==
  ASSUME NEW v \in Values, NEW n \in Int64
  PROVE  IncrementInt(v, n) \in Outcomes /\ DecrementInt(v, n) \in Outcomes
<1>1. AsInt(v) \in Int64
  BY DecodedType, ZeroInt64 DEF AsInt
<1>2. ASSUME NEW m \in Int64 PROVE IncrementInt(v, m) \in Outcomes
  <2>0. AsInt(v) \in Int /\ m \in Int
    BY <1>1, ZeroInt64
  <2>00. AsInt(v) + m \in Int
    BY <2>0
  <2>1. Wrap(AsInt(v) + m) \in Int64
    BY <2>00, WrapType
  <2>2. EncodeInt(Wrap(AsInt(v) + m)) \in Stored /\ NumV(Wrap(AsInt(v) + m)) \in Replies
    BY <2>1, EncodedType, ResultType, ZeroInt64
  <2>3. Err("ErrDecode") \in Results
    BY ResultType DEF Errors
  <2> QED
    BY <2>2, <2>3, OutcomeType DEF IncrementInt
<1>3. Wrap(-n) \in Int64
  BY WrapType, ZeroInt64
<1> QED
  BY <1>2, <1>3 DEF DecrementInt

-----------------------------------------------------------------------------
(* Floats.                                                                 *)

\* The sum of two doubles is a double, an infinity or no number.
LEMMA PlusType ==
  ASSUME NEW a \in Floats, NEW b \in Floats
  PROVE  Plus(a, b) \in Floats /\ Negated(a) \in Floats
<1>1. /\ Half \in Int /\ Half > 0 /\ a \in Int /\ b \in Int
      /\ a # NaN => -Half <= a /\ a <= Half
      /\ b # NaN => -Half <= b /\ b <= Half
  BY HalfAssumption DEF Floats, NaN
<1>2. NaN \in Floats /\ \A x \in Int : -Half <= x /\ x <= Half => x \in Floats
  BY <1>1 DEF Floats
<1>3. CASE a = NaN \/ b = NaN
  BY <1>1, <1>2, <1>3 DEF Plus, Negated
<1>4. CASE a # NaN /\ b # NaN
  BY <1>1, <1>2, <1>4 DEF Plus, Negated
<1> QED
  BY <1>3, <1>4

\* IncrementFloat and DecrementFloat write a double.
LEMMA FloatOutcome ==
  ASSUME NEW v \in Values, NEW n \in Floats
  PROVE  IncrementFloat(v, n) \in Outcomes /\ DecrementFloat(v, n) \in Outcomes
<1>1. AsFloat(v) \in Floats
  BY DecodedType, HalfAssumption DEF AsFloat, Floats, Int64
<1>2. ASSUME NEW x \in Floats PROVE IncrementFloat(v, x) \in Outcomes
  <2>1. Plus(AsFloat(v), x) \in Floats
    BY <1>1, PlusType
  <2>2. /\ EncodeFloat(Plus(AsFloat(v), x)) \in Stored
        /\ FloatV(Plus(AsFloat(v), x)) \in Replies
    BY <2>1, EncodedType, ResultType
  <2>3. Err("ErrDecode") \in Results
    BY ResultType DEF Errors
  <2> QED
    BY <2>2, <2>3, OutcomeType DEF IncrementFloat
<1>3. Negated(n) \in Floats
  BY <1>1, PlusType
<1> QED
  BY <1>1, <1>2, <1>3 DEF DecrementFloat

-----------------------------------------------------------------------------
(* Lists.                                                                  *)

\* A stored hash read as a list: its entries, in some order.
LEMMA PairsType ==
  ASSUME NEW m \in Hashes
  PROVE  Pairs(m) \in Seq(Elements)
<1> DEFINE D == DOMAIN m
           order == SetToSeq(D)
<1>1. D \subseteq Fields /\ \A f \in D : m[f] \in Items
  BY DEF Hashes
<1>2. Cardinality(D) \in Nat /\ ExistsBijection(1 .. Cardinality(D), D)
  BY <1>1, FieldsAssumption, FS_Subset, FS_CardinalityType
<1>3. \E f \in [1 .. Cardinality(D) -> D] : IsInjective(f)
  BY <1>2 DEF ExistsBijection, Bijection, Injection
<1>4. order \in [1 .. Cardinality(D) -> D]
  BY <1>3 DEF SetToSeq
<1>5. Len(order) = Cardinality(D)
  BY <1>2, <1>4
<1>6. \A i \in 1 .. Len(order) : Pair(order[i], m[order[i]]) \in Elements
  BY <1>1, <1>4, <1>5 DEF Pair, Elements
<1> QED
  BY <1>2, <1>5, <1>6 DEF Pairs

\* GetList yields a list and a limit.
LEMMA ElemsType ==
  ASSUME NEW v \in Values
  PROVE  Elems(v) \in Seq(Elements) /\ Limit(v) \in Int64 /\ Len(Elems(v)) \in Nat
<1>1. Elems(v) \in Seq(Elements)
  BY DecodedType, PairsType, EmptySeq DEF Elems
<1>2. Limit(v) \in Int64
  BY DecodedType, ZeroInt64 DEF Limit
<1> QED
  BY <1>1, <1>2, LenProperties

\* A part of a list is a list.
LEMMA PartType ==
  ASSUME NEW s \in Seq(Elements), NEW m \in Nat \ {0}, NEW n \in Int, n <= Len(s)
  PROVE  SubSeq(s, m, n) \in Seq(Elements)
  <1>1. \A i \in m .. n : s[i] \in Elements
    BY ElementOfSeq, LenProperties
  <1> QED
    BY <1>1, SubSeqProperties

\* The list that is left after removing one element (ListDelete).
LEMMA WithoutType ==
  ASSUME NEW s \in Seq(Elements), NEW i \in 0 .. (Len(s) - 1)
  PROVE  Without(s, i) \in Seq(Elements)
<1>1. Len(s) \in Nat
  BY LenProperties
<1>2. SubSeq(s, 1, i) \in Seq(Elements) /\ SubSeq(s, i + 2, Len(s)) \in Seq(Elements)
  BY <1>1, PartType
<1> QED
  BY <1>2, ConcatProperties DEF Without

\* enforceListLimit keeps a list a list.
LEMMA LimitOutcome ==
  ASSUME NEW s \in Seq(Elements), NEW l \in Int64
  PROVE  enforceListLimit(s, l) \in Outcomes
<1>0. Len(s) \in Nat /\ l \in Int
  BY LenProperties, ZeroInt64
<1>1. ASSUME NEW t \in Seq(Elements) PROVE Write(EncodeList(t, l), NullV) \in Outcomes
  BY EncodedType, ResultType, OutcomeType
<1>2. CASE l # 0 /\ ~(Len(s) <= l) /\ ~(l < 0)
  <2>1. Len(s) - l + 1 \in Nat \ {0}
    BY <1>0, <1>2
  <2>2. SubSeq(s, Len(s) - l + 1, Len(s)) \in Seq(Elements)
    BY <2>1, <1>0, PartType
  <2> QED
    BY <1>1, <1>2, <2>2 DEF enforceListLimit
<1>3. CASE ~(l # 0 /\ ~(Len(s) <= l) /\ ~(l < 0))
  BY <1>1, <1>3, OutcomeType DEF enforceListLimit
<1> QED
  BY <1>2, <1>3

\* A set of natural numbers has a least one.
LEMMA LeastNat ==
  ASSUME NEW I, I # {}, I \subseteq Nat
  PROVE  \E x \in I : \A y \in I : x <= y
<1> DEFINE Less == {ss \in Nat \X Nat : ss[1] < ss[2]}
<1>1. IsWellFoundedOn(Less, Nat)
  BY NatLessThanWellFounded, Zenon DEF OpToRel
<1>2. \E x \in I : \A y \in I : ~(<<y, x>> \in Less)
  <2> HIDE DEF Less
  <2> QED
    BY <1>1, WFMin
<1>3. PICK x \in I : \A y \in I : ~(<<y, x>> \in Less)
  BY <1>2
<1>4. ASSUME NEW y \in I PROVE x <= y
  <2>1. x \in Nat /\ y \in Nat /\ ~(<<y, x>> \in Less)
    BY <1>3
  <2>2. ~(y < x)
    BY <2>1
  <2> QED
    BY <2>1, <2>2
<1> QED
  BY <1>4

\* The first position of an item is one of the list's positions, or -1.
LEMMA IndexOfType ==
  ASSUME NEW s \in Seq(Elements), NEW item
  PROVE  IndexOf(s, item) \in -1 .. (Len(s) - 1)
<1> DEFINE I == {i \in 1 .. Len(s) : s[i] = item}
<1>0. Len(s) \in Nat
  BY LenProperties
<1>1. IndexOf(s, item) = (IF I # {} THEN Min(I) ELSE 0) - 1
  BY DEF IndexOf, SelectInSeq
<1>2. CASE I # {}
  <2>1. I \subseteq Nat
    BY <1>0
  <2>3. \E x \in I : \A y \in I : x <= y
    <3> HIDE DEF I
    <3> QED
      BY <1>2, <2>1, LeastNat
  <2>4. Min(I) \in I
    BY <2>3 DEF Min
  <2> QED
    BY <1>0, <1>1, <1>2, <2>4
<1>3. CASE I = {}
  BY <1>0, <1>1, <1>3
<1> QED
  BY <1>2, <1>3

\* The writers that change a list in place or shorten it.
LEMMA ShrinkOutcome ==
  ASSUME NEW v \in Values, NEW n \in Int64, NEW item \in Elements
  PROVE  /\ SetListItem(v, n, item) \in Outcomes
         /\ ListLimit(v, n) \in Outcomes
         /\ ListDelete(v, n) \in Outcomes
         /\ ListDeleteItem(v, item) \in Outcomes
         /\ ListPopLeft(v) \in Outcomes
         /\ ListPopRight(v) \in Outcomes
<1> DEFINE s == Elems(v)
<1>0. s \in Seq(Elements) /\ Limit(v) \in Int64 /\ Len(s) \in Nat /\ n \in Int
  BY ElemsType, ZeroInt64
<1>1. ASSUME NEW t \in Seq(Elements), NEW l \in Int64, NEW x \in Replies
      PROVE  Write(EncodeList(t, l), x) \in Outcomes
  BY EncodedType, OutcomeType
<1>2. /\ \A e \in Errors : Refuse(Err(e)) \in Outcomes
      /\ Refuse(Ok(NumV(-1))) \in Outcomes
      /\ Return(Ok(NumV(-1))) \in Outcomes
      /\ Panic \in Outcomes
  BY ResultType, OutcomeType
<1>3. ListError(v) # NoErr => ListError(v) \in Errors
  BY DEF ListError, Errors
<1>4. {"ErrListEmpty", "ErrListIndexOutOfRange", "ErrDecode"} \subseteq Errors
  BY DEF Errors
<1>5. NullV \in Replies /\ \A e \in Elements : ElemV(e) \in Replies
  BY ResultType
<1>6. SetListItem(v, n, item) \in Outcomes
  <2> DEFINE pos == Position(n, Len(s))
  <2>1. ASSUME InBounds(pos, Len(s))
        PROVE  [s EXCEPT ![pos + 1] = item] \in Seq(Elements)
    <3>1. pos + 1 \in 1 .. Len(s)
      BY <1>0, <2>1 DEF Position, InBounds
    <3> QED
      BY <1>0, <3>1, ExceptSeq
  <2> QED
    BY <1>0, <1>1, <1>2, <1>3, <1>4, <1>5, <2>1 DEF SetListItem
<1>7. ListLimit(v, n) \in Outcomes
  BY <1>0, <1>1, <1>2, <1>3, <1>5, ZeroInt64 DEF ListLimit
<1>8. ListDelete(v, n) \in Outcomes
  <2>1. ASSUME InBounds(n, Len(s)) PROVE Without(s, n) \in Seq(Elements)
    BY <1>0, <2>1, WithoutType DEF InBounds
  <2> QED
    BY <1>0, <1>1, <1>2, <1>3, <1>4, <1>5, <2>1 DEF ListDelete
<1>9. ListDeleteItem(v, item) \in Outcomes
  <2>1. IndexOf(s, item) \in -1 .. (Len(s) - 1)
    BY <1>0, IndexOfType
  <2>2. ASSUME IndexOf(s, item) # -1
        PROVE  Write(EncodeList(Without(s, IndexOf(s, item)), Limit(v)), NumV(IndexOf(s, item)))
                 \in Outcomes
    <3>1. IndexOf(s, item) \in 0 .. (Len(s) - 1)
      BY <1>0, <2>1, <2>2
    <3>2. Without(s, IndexOf(s, item)) \in Seq(Elements) /\ NumV(IndexOf(s, item)) \in Replies
      BY <1>0, <3>1, WithoutType, ResultType
    <3> QED
      BY <1>0, <1>1, <3>2
  <2> QED
    BY <1>2, <1>4, <2>2 DEF ListDeleteItem
<1>10. ListPopLeft(v) \in Outcomes
  <2>1. ASSUME s # << >>
        PROVE  Tail(s) \in Seq(Elements) /\ Head(s) \in Elements
    BY <1>0, <2>1, HeadTailProperties
  <2> QED
    BY <1>0, <1>1, <1>2, <1>4, <1>5, <2>1 DEF ListPopLeft
<1>11. ListPopRight(v) \in Outcomes
  <2>1. ASSUME s # << >>
        PROVE  SubSeq(s, 1, Len(s) - 1) \in Seq(Elements) /\ s[Len(s)] \in Elements
    <3>1. Len(s) \in 1 .. Len(s)
      BY <1>0, <2>1, EmptySeq
    <3>2. s[Len(s)] \in Elements
      BY <1>0, <3>1, ElementOfSeq
    <3>3. SubSeq(s, 1, Len(s) - 1) \in Seq(Elements)
      BY <1>0, PartType
    <3> QED
      BY <3>2, <3>3
  <2> QED
    BY <1>0, <1>1, <1>2, <1>4, <1>5, <2>1 DEF ListPopRight
<1> QED
  BY <1>6, <1>7, <1>8, <1>9, <1>10, <1>11

\* The writers that lengthen a list.
LEMMA GrowOutcome ==
  ASSUME NEW v \in Values, NEW n \in Int64, NEW item \in Elements
  PROVE  ListInsert(v, n, item) \in Outcomes /\ ListAppend(v, item) \in Outcomes
<1> DEFINE s == Elems(v)
           i == IF n < 0 THEN 0 ELSE n
<1>0. s \in Seq(Elements) /\ Limit(v) \in Int64 /\ Len(s) \in Nat /\ i \in Nat
  BY ElemsType, ZeroInt64
<1>1. Append(s, item) \in Seq(Elements)
  BY <1>0, AppendProperties
<1>2. Refuse(Err("ErrDecode")) \in Outcomes
  BY ResultType, OutcomeType DEF Errors
<1>3. ASSUME i < Len(s)
      PROVE  SubSeq(s, 1, i) \o <<item>> \o SubSeq(s, i + 1, Len(s)) \in Seq(Elements)
  <2>1. SubSeq(s, 1, i) \in Seq(Elements) /\ SubSeq(s, i + 1, Len(s)) \in Seq(Elements)
    BY <1>0, <1>3, PartType
  <2>2. <<item>> \in Seq(Elements)
    OBVIOUS
  <2>3. SubSeq(s, 1, i) \o <<item>> \in Seq(Elements)
    BY <2>1, <2>2, ConcatProperties
  <2> QED
    BY <2>1, <2>3, ConcatProperties
<1>4. ListAppend(v, item) \in Outcomes
  BY <1>0, <1>1, <1>2, LimitOutcome DEF ListAppend
<1>5. ListInsert(v, n, item) \in Outcomes
  <2> DEFINE t == IF i >= Len(s) THEN Append(s, item)
                  ELSE SubSeq(s, 1, i) \o <<item>> \o SubSeq(s, i + 1, Len(s))
  <2>1. t \in Seq(Elements)
    BY <1>0, <1>1, <1>3
  <2>2. enforceListLimit(t, Limit(v)) \in Outcomes
    BY <1>0, <2>1, LimitOutcome
  <2> QED
    BY <1>2, <2>2 DEF ListInsert
<1> QED
  BY <1>4, <1>5

-----------------------------------------------------------------------------
(* Hashes.                                                                 *)

\* Maps of fields: the empty one, updated ones, parts of one.
LEMMA HashesType ==
  /\ EmptyMap \in Hashes
  /\ \A g, m \in Hashes : Assign(g, m) \in Hashes
  /\ \A m \in Hashes : (\A F : Select(m, F) \in Hashes) /\ DOMAIN m \subseteq Fields
  /\ \A f \in Fields, i \in Items : [x \in {f} |-> i] \in Hashes
<1>1. EmptyMap \in [{} -> Items]
  BY DEF EmptyMap
<1>2. EmptyMap \in Hashes
  BY <1>1 DEF Hashes
<1>3. ASSUME NEW m \in Hashes
      PROVE  DOMAIN m \subseteq Fields /\ m \in [DOMAIN m -> Items]
  BY DEF Hashes
<1>4. ASSUME NEW F \in SUBSET Fields, NEW m \in [F -> Items] PROVE m \in Hashes
  BY DEF Hashes
<1>5. ASSUME NEW g \in Hashes, NEW m \in Hashes PROVE Assign(g, m) \in Hashes
  <2>1. Assign(g, m) \in [DOMAIN g \cup DOMAIN m -> Items]
    BY <1>3 DEF Assign
  <2> QED
    BY <1>3, <1>4, <2>1
<1>6. ASSUME NEW m \in Hashes, NEW F PROVE Select(m, F) \in Hashes
  <2>1. Select(m, F) \in [DOMAIN m \cap F -> Items]
    BY <1>3 DEF Select
  <2> QED
    BY <1>3, <1>4, <2>1
<1>7. ASSUME NEW f \in Fields, NEW i \in Items PROVE [x \in {f} |-> i] \in Hashes
  BY <1>4
<1> QED
  BY <1>2, <1>3, <1>5, <1>6, <1>7

\* A list of encoded entries read as a hash.
LEMMA MapOfType ==
  ASSUME NEW s \in Seq(Elements), AllPairs(s)
  PROVE  MapOf(s) \in Hashes
<1>0. Len(s) \in Nat /\ \A i \in 1 .. Len(s) : s[i] \in Elements
  BY LenProperties, ElementOfSeq
<1> DEFINE F == {s[i].field : i \in 1 .. Len(s)}
<1>1. F \in SUBSET Fields
  BY <1>0 DEF AllPairs, Elements
<1>2. ASSUME NEW f \in F PROVE s[LastOf(s, f)].item \in Items
  <2> DEFINE At == {n \in Nat : n < Len(s) /\ s[Len(s) - n].field = f}
  <2>1. PICK n \in At : \A m \in At : n <= m
    <3>1. At # {} /\ At \subseteq Nat
      <4>1. PICK i \in 1 .. Len(s) : s[i].field = f
        BY <1>2
      <4>2. Len(s) - i \in Nat /\ Len(s) - i < Len(s) /\ Len(s) - (Len(s) - i) = i
        BY <1>0, <4>1
      <4> QED
        BY <4>1, <4>2
    <3> HIDE DEF At
    <3> QED
      BY <3>1, LeastNat
  <2>2. Len(s) - n \in 1 .. Len(s) /\ s[Len(s) - n].field = f
    BY <1>0
  <2>3. ASSUME NEW j \in 1 .. Len(s), s[j].field = f PROVE j <= Len(s) - n
    <3>1. Len(s) - j \in Nat /\ Len(s) - j < Len(s) /\ Len(s) - (Len(s) - j) = j
      BY <1>0
    <3>2. Len(s) - j \in At
      BY <2>3, <3>1
    <3> QED
      BY <1>0, <2>1, <3>1, <3>2
  <2>4. LastOf(s, f) \in 1 .. Len(s)
    BY <2>2, <2>3 DEF LastOf
  <2> QED
    BY <1>0, <2>4 DEF Elements
<1>3. MapOf(s) \in [F -> Items]
  BY <1>2 DEF MapOf
<1> QED
  BY <1>1, <1>3 DEF Hashes

\* GetHash yields a map.
LEMMA FieldMapType ==
  ASSUME NEW v \in Values
  PROVE  FieldMap(v) \in Hashes
  BY DecodedType, HashesType, MapOfType DEF FieldMap

\* The hash writers: SetHashField(s) and DelHashField.
LEMMA HashOutcome ==
  ASSUME NEW v \in Values, NEW m \in Hashes
  PROVE  /\ SetHashFields(v, m) \in Outcomes
         /\ \A f \in Fields, i \in Items : SetHashField(v, f, i) \in Outcomes
         /\ \A f : DelHashField(v, f) \in Outcomes
<1>1. FieldMap(v) \in Hashes
  BY FieldMapType
<1>2. ASSUME NEW g \in Hashes PROVE Write(EncodeHash(g), NullV) \in Outcomes
  BY EncodedType, ResultType, OutcomeType
<1>3. Refuse(Err("ErrDecode")) \in Outcomes /\ Refuse(Err(HashError(v))) \in Outcomes
  BY ResultType, OutcomeType DEF Errors, HashError
<1>4. ASSUME NEW g \in Hashes PROVE SetHashFields(v, g) \in Outcomes
  <2>1. Assign(FieldMap(v), g) \in Hashes
    BY <1>1, HashesType
  <2> QED
    BY <1>2, <1>3, <2>1, OutcomeType DEF SetHashFields
<1>5. ASSUME NEW f PROVE DelHashField(v, f) \in Outcomes
  <2>1. Select(FieldMap(v), Fields \ {f}) \in Hashes
    BY <1>1, HashesType
  <2> QED
    BY <1>2, <1>3, <2>1 DEF DelHashField
<1> QED
  BY <1>4, <1>5, HashesType DEF SetHashField

-----------------------------------------------------------------------------
(* Requests.                                                               *)

\* The fields of a request.
LEMMA RequestType ==
  ASSUME NEW r, WellFormed(r)
  PROVE  /\ r \in Request
         /\ r.op \in AllOps /\ r.key \in Keys /\ r.val \in Stored /\ r.n \in Floats
         /\ r.op \notin FloatSumOps => r.n \in Int64
         /\ r.item \in Items /\ Plain(r.item) \in Elements /\ r.hash \in Hashes /\ r.many \in SUBSET (Keys \X Stored)
         /\ r.op \in OneFieldOps => Field(r) \in Fields /\ r.hash[Field(r)] \in Items
<1>1. r \in Request
  BY DEF WellFormed
<1>2. /\ r.op \in AllOps /\ r.key \in Keys /\ r.val \in Stored /\ r.n \in Floats
      /\ r.item \in Items /\ Plain(r.item) \in Elements /\ r.hash \in Hashes
      /\ r.many \in SUBSET (Keys \X Stored)
  BY <1>1 DEF Request, Plain, Elements
<1>4. r.op \notin FloatSumOps => r.n \in Int64
  BY DEF WellFormed
<1>3. ASSUME r.op \in OneFieldOps
      PROVE  Field(r) \in Fields /\ r.hash[Field(r)] \in Items
  <2>1. PICK f \in Fields : DOMAIN r.hash = {f}
    BY <1>3 DEF WellFormed
  <2>2. Field(r) \in DOMAIN r.hash
    BY <2>1 DEF Field
  <2> QED
    BY <1>2, <2>2 DEF Hashes
<1> QED
  BY <1>1, <1>2, <1>3, <1>4

\* The bytes stored for a request's value are a value.
LEMMA MarshalType ==
  ASSUME NEW r, WellFormed(r)
  PROVE  Marshal(r) \in Stored
<1>1. r.val \in Stored
  BY RequestType
<1>2. r.val \in Values
  BY <1>1 DEF Stored
<1> QED
  BY <1>1, <1>2, DecodedType, EncodedType DEF Marshal

\* Names of the keys of requests and of their locks.
LEMMA NamesType ==
  ASSUME NEW k \in Keys
  PROVE  /\ k \in Names /\ getLockName(k) \in Names /\ getLockName(getLockName(k)) \in Names
         /\ Sentinel \in Names
  BY NamesAssumption DEF Keys, Names, getLockName, Sentinel

\* The classes of requests have nothing in common.
LEMMA OpClasses ==
  LET Singles == {"Delete", "Clear", "SetExpire", "Lock", "Unlock", "SetMany"}
  IN  /\ \A op \in LockingOps : op \notin ReadOps \cup SetOps \cup UnlockSetOps \cup Singles
      /\ \A op \in ReadOps : op \notin LockingOps \cup SetOps \cup UnlockSetOps \cup Singles
      /\ \A op \in SetOps \cup UnlockSetOps : op \notin LockingOps \cup ReadOps \cup Singles
      /\ \A op \in SetOps : op \notin UnlockSetOps
  BY DEF SetOps, UnlockSetOps, LockingOps, ReadOps, OneKeyReadOps, BlockingReadOps

\* Every locking handler, whatever it reads.
THEOREM DecideType ==
  ASSUME NEW r, WellFormed(r), r.op \in LockingOps, NEW v \in Values
  PROVE  Decide(r, v) \in Outcomes
<1>1. /\ r.n \in Floats /\ (r.op \notin FloatSumOps => r.n \in Int64)
      /\ Plain(r.item) \in Elements /\ r.hash \in Hashes
      /\ Marshal(r) \in Stored
      /\ r.op \in OneFieldOps => Field(r) \in Fields /\ r.hash[Field(r)] \in Items
  BY RequestType, MarshalType
<1>2. SetNX(v, Marshal(r)) \in Outcomes
  BY <1>1, ResultType, OutcomeType DEF SetNX
<1>3. /\ IncrementFloat(v, r.n) \in Outcomes /\ DecrementFloat(v, r.n) \in Outcomes
      /\ ListAppend(v, Plain(r.item)) \in Outcomes
      /\ ListPopLeft(v) \in Outcomes /\ ListPopRight(v) \in Outcomes
      /\ ListDeleteItem(v, Plain(r.item)) \in Outcomes
      /\ SetHashFields(v, r.hash) \in Outcomes
  <2>1. 0 \in Int64
    BY ZeroInt64
  <2> QED
    BY <1>1, <2>1, FloatOutcome, ShrinkOutcome, GrowOutcome, HashOutcome
<1>6. r.n \in Int64 => /\ IncrementInt(v, r.n) \in Outcomes /\ DecrementInt(v, r.n) \in Outcomes
                       /\ SetListItem(v, r.n, Plain(r.item)) \in Outcomes
                       /\ ListLimit(v, r.n) \in Outcomes
                       /\ ListInsert(v, r.n, Plain(r.item)) \in Outcomes
                       /\ ListDelete(v, r.n) \in Outcomes
  BY <1>1, IntOutcome, ShrinkOutcome, GrowOutcome
<1>4. r.op = "SetHashField" => SetHashField(v, Field(r), r.hash[Field(r)]) \in Outcomes
  BY <1>1, HashOutcome DEF OneFieldOps
<1>5. r.op = "DelHashField" => DelHashField(v, Field(r)) \in Outcomes
  BY <1>1, HashOutcome
<1> QED
  BY <1>1, <1>2, <1>3, <1>4, <1>5, <1>6 DEF Decide, LockingOps, FloatSumOps

\* Every reader returns a result.
THEOREM AnswerType ==
  ASSUME NEW r, WellFormed(r), r.op \in ReadOps, NEW store \in [Names -> Values]
  PROVE  Answer(r, store).ret \in Results
<1> DEFINE v == store[r.key]
<1>1. /\ r.n \in Int64 /\ Plain(r.item) \in Elements /\ r.hash \in Hashes /\ r.key \in Names
      /\ r.many \in SUBSET (Keys \X Stored) /\ v \in Values
  BY RequestType, NamesType DEF ReadOps, OneKeyReadOps, BlockingReadOps, FloatSumOps
<1>2. /\ \A e \in Errors : Return(Err(e)).ret \in Results
      /\ \A x \in Replies : Return(Ok(x)).ret \in Results
      /\ Panic.ret \in Results
  BY ResultType DEF Return, Panic, Errors
<1>3. {"ErrKeyNotFound", "ErrDecode", "ErrListEmpty", "ErrHashFieldNotFound"} \subseteq Errors
  BY DEF Errors
<1>4. \A w \in Values : Bytes(w) \in Values /\ Bytes(w) \in Replies
  BY ResultType DEF Bytes, Values
<1>5. Get(v).ret \in Results /\ Has(v).ret \in Results /\ Length(v).ret \in Results
  <2>1. BoolV(v # Absent) \in Replies
    BY ResultType
  <2>2. NumV(0) \in Replies /\ NumV(1) \in Replies
    BY ResultType
  <2> QED
    BY <1>1, <1>2, <1>3, <1>4, <2>1, <2>2 DEF Get, Has, Length
<1>6. GetInt(v).ret \in Results /\ GetFloat(v).ret \in Results
  <2>1. NumV(AsInt(v)) \in Replies
    BY <1>1, DecodedType, ZeroInt64, ResultType DEF AsInt
  <2>2. FloatV(AsFloat(v)) \in Replies
    <3>1. AsFloat(v) \in Floats
      BY <1>1, DecodedType, HalfAssumption DEF AsFloat, Floats
    <3> QED
      BY <3>1, EncodedType, ResultType
  <2> QED
    BY <1>2, <1>3, <2>1, <2>2 DEF GetInt, GetFloat
<1>7. /\ Elems(v) \in Seq(Elements) /\ Limit(v) \in Int64 /\ Len(Elems(v)) \in Nat
      /\ IndexOf(Elems(v), Plain(r.item)) \in Int
      /\ ListError(v) # NoErr => ListError(v) \in Errors
  BY <1>1, ElemsType, IndexOfType DEF ListError, Errors
<1>8. GetList(v).ret \in Results /\ ListLength(v).ret \in Results /\ ListHas(v, Plain(r.item)).ret \in Results
  <2>1. /\ ListV(Elems(v), Limit(v)) \in Replies /\ NumV(Len(Elems(v))) \in Replies
        /\ NumV(-1) \in Replies /\ NumV(IndexOf(Elems(v), Plain(r.item))) \in Replies
    BY <1>7, EncodedType, ResultType
  <2> QED
    BY <1>2, <1>3, <1>7, <2>1 DEF GetList, ListLength, ListHas
<1>9. GetListItem(v, r.n).ret \in Results
  <2>1. ASSUME NEW pos \in Int, InBounds(pos, Len(Elems(v)))
        PROVE  ElemV(Elems(v)[pos + 1]) \in Replies
    <3>1. pos + 1 \in 1 .. Len(Elems(v))
      BY <1>7, <2>1 DEF InBounds
    <3>2. Elems(v)[pos + 1] \in Elements
      BY <1>7, <3>1, ElementOfSeq
    <3> QED
      BY <3>2, ResultType
  <2> DEFINE len == Len(Elems(v))
             i1 == IF PastEnd(r.n, len) THEN len - 1 ELSE r.n
             i2 == IF BeforeStart(i1, len) THEN 0 ELSE i1
             pos == Position(i2, len)
  <2>2. pos \in Int
    <3>a. r.n \in Int
      BY <1>1, ZeroInt64, Zenon
    <3>1. len \in Int /\ r.n \in Int
      BY <1>7, <3>a
    <3>2. i1 \in Int
      BY <3>1
    <3>3. i2 \in Int
      BY <3>2
    <3> HIDE DEF i2, len
    <3> QED
      BY <3>1, <3>3 DEF Position
  <2> QED
    BY <1>2, <1>3, <1>7, <2>1, <2>2 DEF GetListItem
<1>10. FieldMap(v) \in Hashes /\ Err(HashError(v)) \in Results
  BY <1>1, <1>3, FieldMapType, ResultType DEF HashError
<1>11. /\ GetHash(v).ret \in Results
       /\ GetHashFields(v, DOMAIN r.hash).ret \in Results
       /\ HashFields(v).ret \in Results
  <2>1. /\ HashV(FieldMap(v)) \in Replies
        /\ HashV(Select(FieldMap(v), DOMAIN r.hash)) \in Replies
    BY <1>10, HashesType, EncodedType, ResultType
  <2>2. FieldsV(DOMAIN FieldMap(v)) \in Replies
    BY <1>10, HashesType DEF FieldsV, Replies
  <2> QED
    BY <1>2, <1>10, <2>1, <2>2 DEF GetHash, GetHashFields, HashFields, Return
<1>12. HashLength(v).ret \in Results
  <2>1. Cardinality(DOMAIN FieldMap(v)) \in Nat
    BY <1>10, HashesType, FieldsAssumption, FS_Subset, FS_CardinalityType
  <2> QED
    BY <1>2, <1>10, <2>1, ResultType DEF HashLength, Return
<1>13. HashHas(v, Field(r)).ret \in Results
  <2>1. BoolV(Field(r) \in DOMAIN FieldMap(v)) \in Replies
    <3>1. (Field(r) \in DOMAIN FieldMap(v)) \in BOOLEAN
      OBVIOUS
    <3> QED
      BY <3>1, ResultType, Zenon
  <2> QED
    BY <1>2, <1>10, <2>1 DEF HashHas, Return
<1>14. GetHashField(v, Field(r)).ret \in Results
  <2>1. \A f \in DOMAIN FieldMap(v) : RawV(FieldMap(v)[f]) \in Replies
    BY <1>10, ResultType DEF Hashes
  <2> QED
    BY <1>2, <1>3, <1>10, <2>1 DEF GetHashField, Return
<1>15. GetMany(store, {e[1] : e \in r.many}).ret \in Results
  <2> DEFINE S == {e[1] : e \in r.many}
             m == IF store[Sentinel] = ZeroByte THEN {}
                  ELSE {<<k, Bytes(store[k])>> : k \in {j \in S : store[j] # Absent}}
  <2>1. \A k \in S : k \in Names /\ store[k] \in Values
    BY <1>1, NamesType
  <2>2. m \in SUBSET (Names \X Values)
    BY <1>4, <2>1
  <2>3. ManyV(m) \in Replies
    BY <2>2 DEF ManyV, Replies
  <2> QED
    BY <1>2, <2>3 DEF GetMany
<1>16. StoredKeys(store).ret \in Results
  <2>1. KeysV({k \in DOMAIN store : store[k] # Absent}) \in Replies
    BY DEF KeysV, Replies
  <2> QED
    BY <1>2, <2>1 DEF StoredKeys
<1>17. HashValues(v).ret \in Results
  <2> DEFINE entries == Pairs(FieldMap(v))
             items == [i \in 1 .. Len(entries) |-> Plain(entries[i].item)]
  <2>1. entries \in Seq(Elements)
    BY <1>10, PairsType
  <2>2. Len(entries) \in Nat
    BY <2>1
  <2>3. \A i \in 1 .. Len(entries) : Plain(entries[i].item) \in Elements
    <3>1. \A i \in 1 .. Len(entries) : entries[i] \in Elements
      BY <2>1, ElementOfSeq
    <3> QED
      BY <3>1 DEF Plain, Elements
  <2>4. items \in Seq(Elements)
    BY <2>2, <2>3
  <2>5. ListV(items, 0) \in Replies
    BY <2>4, EncodedType, ResultType, ZeroInt64
  <2> QED
    BY <1>2, <1>10, <2>5 DEF HashValues, Return
<1>18. GetWithPrefix(store, r.key).ret \in Results /\ KeysWithPrefix(store, r.key).ret \in Results
  <2> DEFINE S == WithPrefix(store, r.key)
  <2>1. S \subseteq Names
    BY DEF WithPrefix
  <2>2. KeysV(S) \in Replies
    BY <2>1 DEF KeysV, Replies
  <2>3. {<<j, Bytes(store[j])>> : j \in S} \in SUBSET (Names \X Values)
    BY <1>4, <2>1
  <2>4. ManyV({<<j, Bytes(store[j])>> : j \in S}) \in Replies
    BY <2>3 DEF ManyV, Replies
  <2> QED
    BY <1>2, <2>2, <2>4 DEF GetWithPrefix, KeysWithPrefix
<1> QED
  BY <1>5, <1>6, <1>8, <1>9, <1>11, <1>12, <1>13, <1>14, <1>15, <1>16, <1>17, <1>18
     DEF Answer, ReadOps, OneKeyReadOps, BlockingReadOps

-----------------------------------------------------------------------------
(* Requests that cannot die or forget their lock.                          *)

\* Locking handlers that unlock whatever they find, provided no list has a
\* negative limit.
SureOps == {"IncrementInt", "DecrementInt", "IncrementFloat", "DecrementFloat",
            "ListLimit", "ListInsert", "ListAppend", "ListPopLeft", "ListPopRight", "DelHashField"}

\* The others of them are sure at the two ends of the list.
Sure(r) == \/ r.op \notin LockingOps \cup {"GetListItem"}
           \/ r.op \in SureOps
           \/ r.op \in {"SetListItem", "ListDelete", "GetListItem"} /\ r.n \in {-1, 0}

\* Values that are no list with a negative limit.
Unbent(v) == Limit(v) >= 0

\* Only lists have limits.
LEMMA EncodedUnbent ==
  /\ Unbent(Absent) /\ Unbent(Empty) /\ Unbent(ZeroByte) /\ Unbent(Leased)
  /\ \A n : Unbent(EncodeInt(n)) /\ Unbent(EncodeFloat(n)) /\ Unbent(EncodeHash(n))
  /\ \A s : \A l \in Nat : Unbent(EncodeList(s, l))
  BY DEF Unbent, Limit, Absent, Empty, ZeroByte, Leased, EncodeInt, EncodeFloat, EncodeHash, EncodeList,
         IntV, FloatV, HashV, ListV

\* A list within its limit, or shortened to it (enforceListLimit).
LEMMA LimitUnbent ==
  ASSUME NEW s \in Seq(Elements), NEW l \in Nat
  PROVE  enforceListLimit(s, l).do = "write" /\ Unbent(enforceListLimit(s, l).val)
<1>1. ~(l < 0)
  OBVIOUS
<1>2. \A t, x : Write(t, x).do = "write" /\ Write(t, x).val = t
  BY DEF Write
<1> QED
  BY <1>1, <1>2, EncodedUnbent DEF enforceListLimit

\* The locking handlers that are sure write back or unlock, and what they write
\* has no negative limit when what they read has none.
LEMMA SureOutcome ==
  ASSUME NEW r, WellFormed(r), r.op \in LockingOps, Sure(r), NEW v \in Values, Unbent(v)
  PROVE  Decide(r, v).do \in {"write", "unlock"} /\ Unbent(Decide(r, v).val)
<1> DEFINE Good(o) == o.do \in {"write", "unlock"} /\ Unbent(o.val)
<1>0. /\ r.n \in Int /\ Plain(r.item) \in Elements
      /\ Elems(v) \in Seq(Elements) /\ Len(Elems(v)) \in Nat /\ Limit(v) \in Nat
  <2>1. r.n \in Floats /\ Plain(r.item) \in Elements
    BY RequestType
  <2>2. Elems(v) \in Seq(Elements) /\ Len(Elems(v)) \in Nat /\ Limit(v) \in Int64
    BY ElemsType
  <2>3. Limit(v) \in Int /\ Limit(v) >= 0
    BY <2>2, ZeroInt64 DEF Unbent
  <2>4. Limit(v) \in Nat
    BY <2>3
  <2>5. r.n \in Int
    BY <2>1, HalfAssumption DEF Floats, NaN
  <2> QED
    BY <2>1, <2>2, <2>4, <2>5
<1>1. /\ \A ret : Good(Refuse(ret))
      /\ \A n, x : /\ Good(Write(EncodeInt(n), x)) /\ Good(Write(EncodeFloat(n), x))
                   /\ Good(Write(EncodeHash(n), x))
      /\ \A s, x : \A l \in Nat : Good(Write(EncodeList(s, l), x))
  <2>1. \A t, x : Write(t, x).do = "write" /\ Write(t, x).val = t
    BY DEF Write
  <2>2. \A ret : Refuse(ret).do = "unlock" /\ Refuse(ret).val = Absent
    BY DEF Refuse
  <2> QED
    BY <2>1, <2>2, EncodedUnbent
<1>2. \A s \in Seq(Elements) : Good(enforceListLimit(s, Limit(v)))
  BY <1>0, LimitUnbent
<1> HIDE DEF Good
<1>3. Good(IncrementInt(v, r.n)) /\ Good(DecrementInt(v, r.n))
  BY <1>1 DEF IncrementInt, DecrementInt
<1>4. Good(IncrementFloat(v, r.n)) /\ Good(DecrementFloat(v, r.n))
  BY <1>1 DEF IncrementFloat, DecrementFloat
<1>5. Good(ListLimit(v, r.n))
  BY <1>0, <1>1 DEF ListLimit
<1>6. Good(ListPopLeft(v)) /\ Good(ListPopRight(v))
  BY <1>0, <1>1 DEF ListPopLeft, ListPopRight
<1>7. Good(DelHashField(v, Field(r)))
  BY <1>1 DEF DelHashField
<1>8. Good(ListAppend(v, Plain(r.item)))
  BY <1>0, <1>1, <1>2, AppendProperties DEF ListAppend
<1>9. Good(ListInsert(v, r.n, Plain(r.item)))
  <2> DEFINE s == Elems(v)
             i == IF r.n < 0 THEN 0 ELSE r.n
             t == IF i >= Len(s) THEN Append(s, Plain(r.item))
                  ELSE SubSeq(s, 1, i) \o <<Plain(r.item)>> \o SubSeq(s, i + 1, Len(s))
  <2>1. t \in Seq(Elements)
    <3>1. CASE i >= Len(s)
      BY <1>0, <3>1, AppendProperties
    <3>2. CASE i < Len(s)
      <4>1. SubSeq(s, 1, i) \in Seq(Elements) /\ SubSeq(s, i + 1, Len(s)) \in Seq(Elements)
        BY <1>0, <3>2, PartType
      <4>2. <<Plain(r.item)>> \in Seq(Elements)
        BY <1>0
      <4>3. SubSeq(s, 1, i) \o <<Plain(r.item)>> \o SubSeq(s, i + 1, Len(s)) \in Seq(Elements)
        BY <4>1, <4>2, ConcatProperties
      <4> QED
        BY <1>0, <3>2, <4>3
    <3> QED
      BY <1>0, <3>1, <3>2
  <2>2. Good(enforceListLimit(t, Limit(v)))
    BY <1>2, <2>1
  <2> HIDE DEF t
  <2> QED
    BY <1>1, <2>2 DEF ListInsert, t
<1>10. r.n \in {-1, 0} => Good(SetListItem(v, r.n, Plain(r.item))) /\ Good(ListDelete(v, r.n))
  BY <1>0, <1>1 DEF SetListItem, ListDelete, Position, InBounds
<1> QED
  BY <1>3, <1>4, <1>5, <1>6, <1>7, <1>8, <1>9, <1>10 DEF Good, Decide, Sure, SureOps, LockingOps

\* Of the readers only GetListItem can die, and not at the ends of a list.
LEMMA SureAnswer ==
  ASSUME NEW r, WellFormed(r), r.op \in ReadOps, Sure(r), NEW store \in [Names -> Values]
  PROVE  Answer(r, store).do = "return"
<1> DEFINE v == store[r.key]
<1>0. v \in Values /\ Len(Elems(v)) \in Nat
  BY RequestType, NamesType, ElemsType
<1>1. \A ret : Return(ret).do = "return"
  BY DEF Return
<1>2. r.op = "GetListItem" => r.n \in {-1, 0}
  BY DEF Sure, SureOps
<1>3. r.n \in {-1, 0} => GetListItem(v, r.n).do = "return"
  BY <1>0, <1>1 DEF GetListItem, Position, InBounds
<1>4. r.op # "GetListItem" => Answer(r, store).do = "return"
  BY <1>1 DEF Answer, ReadOps, OneKeyReadOps, BlockingReadOps, Get, Has, Length, GetFloat, GetInt, GetList, ListLength, ListHas,
         GetHash, GetHashField, GetHashFields, HashHas, HashLength, HashFields, HashValues,
         GetMany, GetWithPrefix, StoredKeys, KeysWithPrefix
<1> QED
  BY <1>2, <1>3, <1>4 DEF Answer

-----------------------------------------------------------------------------
(* Which requests kill their server.                                       *)

\* The indices that the range checks of a list's handlers let pass although they are
\* outside of the list: just past its end, the one after, and just before its start.
Slips(n, len)    == n \in {len, len + 1}
Precedes(n, len) == n = -len - 1

\* An element is there to be replaced or removed.
HasElements(v) == ListError(v) = NoErr /\ Elems(v) # << >>

\* The locking requests that end in a run-time panic.
DecidesToDie(r, v) ==
  LET len == Len(Elems(v))
  IN  \/ r.op = "SetListItem" /\ HasElements(v) /\ (Slips(r.n, len) \/ Precedes(r.n, len))
      \/ r.op = "ListDelete" /\ HasElements(v) /\ Slips(r.n, len)
      \/ r.op \in GrowingOps /\ Limit(v) < 0
      \/ r.op = "SetHashField" /\ v # Absent /\ Blank(v)
      \/ r.op = "SetHashFields" /\ v # Absent /\ Blank(v) /\ DOMAIN r.hash # {}

\* An integer of the width is itself.
LEMMA WrapSame == \A m \in Int : -Half <= m /\ m < Half => Wrap(m) = m
<1> SUFFICES ASSUME NEW m \in Int, -Half <= m, m < Half PROVE Wrap(m) = m
  OBVIOUS
<1>1. Half \in Nat /\ Half > 0
  BY HalfAssumption
<1>2. m + Half \in 0 .. (2 * Half - 1)
  BY <1>1
<1>3. (m + Half) % (2 * Half) = m + Half
  BY <1>1, <1>2
<1> QED
  BY <1>1, <1>3 DEF Wrap

\* The one below the smallest is the largest.
LEMMA WrapBelow == Wrap(-Half - 1) = Half - 1
<1>1. Half \in Nat /\ Half > 0
  BY HalfAssumption
<1>2. (-1) % (2 * Half) = 2 * Half - 1
  BY <1>1
<1>3. (-Half - 1) + Half = -1
  BY <1>1
<1> QED
  BY <1>1, <1>2, <1>3 DEF Wrap

\* The range checks, for lists that an int64 can count: the code compares index-1, and
\* the smallest integer wraps around to the largest.
LEMMA RangeChecks ==
  ASSUME NEW n \in Int64, NEW len \in Nat, len < Half - 1
  PROVE  /\ PastEnd(n, len) <=> n > len + 1 \/ n = -Half
         /\ n # -Half => (BeforeStart(n, len) <=> n < -len - 1)
<1>1. n \in Int /\ -Half <= n /\ n < Half /\ Half \in Nat /\ Half > 0
  BY HalfAssumption DEF Int64
<1>2. \A m \in Int : -Half <= m /\ m < Half => Wrap(m) = m
  BY <1>1, WrapSame
<1>3. n # -Half => Wrap(n - 1) = n - 1 /\ Wrap(-n) = -n
  BY <1>1, <1>2
<1>4. n < 0 /\ n # -Half => Wrap(-n - 1) = -n - 1
  BY <1>1, <1>2
<1>5. n = -Half => Wrap(n - 1) = Half - 1
  BY <1>1, WrapBelow
<1> QED
  BY <1>1, <1>3, <1>4, <1>5 DEF PastEnd, BeforeStart

\* The handlers that index a list (SetListItem, GetListItem, ListDelete).
LEMMA IndexPanics ==
  ASSUME NEW v \in Values, NEW n \in Int64, NEW e, Len(Elems(v)) < Half - 1
  PROVE  LET len == Len(Elems(v))
         IN  /\ SetListItem(v, n, e).do = "panic"
                  <=> HasElements(v) /\ (Slips(n, len) \/ Precedes(n, len))
             /\ GetListItem(v, n).do = "panic"
                  <=> HasElements(v) /\ (Slips(n, len) \/ Precedes(n, len))
             /\ ListDelete(v, n).do = "panic" <=> HasElements(v) /\ Slips(n, len)
<1> DEFINE len == Len(Elems(v))
<1>1. len \in Nat /\ Elems(v) \in Seq(Elements)
  BY ElemsType
<1>2. n \in Int /\ -Half <= n /\ n < Half /\ Half \in Nat /\ Half > 0
  BY HalfAssumption DEF Int64
<1>3. /\ \A ret : Refuse(ret).do # "panic" /\ Return(ret).do # "panic"
      /\ \A x, y : Write(x, y).do # "panic"
      /\ Panic.do = "panic"
  BY DEF Refuse, Return, Write, Panic
<1>4. (len = 0 <=> Elems(v) = << >>)
  BY <1>1, EmptySeq
<1>5. /\ PastEnd(n, len) <=> n > len + 1 \/ n = -Half
      /\ n # -Half => (BeforeStart(n, len) <=> n < -len - 1)
  BY <1>1, RangeChecks
<1>6. ~BeforeStart(len - 1, len) \/ len = 0
  BY <1>1 DEF BeforeStart
<1>7. SetListItem(v, n, e).do = "panic" <=> HasElements(v) /\ (Slips(n, len) \/ Precedes(n, len))
  <2>1. SetListItem(v, n, e).do = "panic"
          <=> /\ HasElements(v) /\ ~PastEnd(n, len) /\ ~BeforeStart(n, len)
              /\ ~InBounds(Position(n, len), len)
    BY <1>3, <1>4 DEF SetListItem, HasElements
  <2> QED
    BY <1>1, <1>2, <1>5, <2>1 DEF InBounds, Position, Slips, Precedes
<1>8. ListDelete(v, n).do = "panic" <=> HasElements(v) /\ Slips(n, len)
  <2>1. ListDelete(v, n).do = "panic"
          <=> HasElements(v) /\ ~(n < 0 \/ PastEnd(n, len)) /\ ~InBounds(n, len)
    BY <1>3, <1>4 DEF ListDelete, HasElements
  <2> QED
    BY <1>1, <1>2, <1>5, <2>1 DEF InBounds, Slips
<1>9. GetListItem(v, n).do = "panic" <=> HasElements(v) /\ (Slips(n, len) \/ Precedes(n, len))
  <2> DEFINE i1 == IF PastEnd(n, len) THEN len - 1 ELSE n
             i2 == IF BeforeStart(i1, len) THEN 0 ELSE i1
  <2>1. GetListItem(v, n).do = "panic" <=> HasElements(v) /\ ~InBounds(Position(i2, len), len)
    BY <1>3, <1>4 DEF GetListItem, HasElements
  <2>2. CASE PastEnd(n, len)
    <3>1. len # 0 => i2 = len - 1
      BY <1>6, <2>2
    <3>2. len # 0 => InBounds(Position(len - 1, len), len)
      BY <1>1 DEF InBounds, Position
    <3>3. ~(Slips(n, len) \/ Precedes(n, len))
      BY <1>1, <1>2, <1>5, <2>2 DEF Slips, Precedes
    <3> QED
      BY <1>4, <2>1, <3>1, <3>2, <3>3 DEF HasElements
  <2>3. CASE ~PastEnd(n, len)
    <3>1. i2 = IF n < -len - 1 THEN 0 ELSE n
      BY <1>5, <2>3
    <3>2. len # 0 => (InBounds(Position(i2, len), len) <=> ~(Slips(n, len) \/ Precedes(n, len)))
      BY <1>1, <1>2, <1>5, <2>3, <3>1 DEF InBounds, Position, Slips, Precedes
    <3> QED
      BY <1>4, <2>1, <3>2 DEF HasElements
  <2> QED
    BY <2>2, <2>3
<1> QED
  BY <1>7, <1>8, <1>9

\* A locking handler panics exactly when it indexes past its range check, grows a list
\* with a negative limit (enforceListLimit), or assigns to a hash that has lost its last
\* field (SetHashField).
THEOREM DeathsOfWriters ==
  ASSUME NEW r, WellFormed(r), r.op \in LockingOps, NEW v \in Values, Len(Elems(v)) < Half - 1
  PROVE  Decide(r, v).do = "panic" <=> DecidesToDie(r, v)
<1>1. /\ r.n \in Floats /\ (r.op \notin FloatSumOps => r.n \in Int64)
      /\ Plain(r.item) \in Elements
      /\ r.op \in OneFieldOps => Field(r) \in Fields
  BY RequestType
<1>2. Elems(v) \in Seq(Elements) /\ Len(Elems(v)) \in Nat /\ Limit(v) \in Int
  BY ElemsType, ZeroInt64
<1>3. /\ \A ret : Refuse(ret).do # "panic" /\ Return(ret).do # "panic"
      /\ \A x, y : Write(x, y).do # "panic"
      /\ Panic.do = "panic"
  BY DEF Refuse, Return, Write, Panic
<1>4. r.n \in Int64 =>
        /\ SetListItem(v, r.n, Plain(r.item)).do = "panic"
             <=> HasElements(v) /\ (Slips(r.n, Len(Elems(v))) \/ Precedes(r.n, Len(Elems(v))))
        /\ ListDelete(v, r.n).do = "panic" <=> HasElements(v) /\ Slips(r.n, Len(Elems(v)))
  BY IndexPanics
<1>5. \A s : Len(s) \in Nat => (enforceListLimit(s, Limit(v)).do = "panic" <=> Limit(v) < 0)
  BY <1>2, <1>3 DEF enforceListLimit
<1>6. Limit(v) < 0 => v # Absent /\ IsList(v)
  BY <1>2 DEF Limit, IsList, Absent
<1>7. ListAppend(v, Plain(r.item)).do = "panic" <=> Limit(v) < 0
  <2>1. Len(Append(Elems(v), Plain(r.item))) \in Nat
    BY <1>1, <1>2, AppendProperties
  <2> QED
    BY <1>3, <1>5, <1>6, <2>1 DEF ListAppend
<1>8. r.n \in Int64 => (ListInsert(v, r.n, Plain(r.item)).do = "panic" <=> Limit(v) < 0)
  <2> SUFFICES ASSUME r.n \in Int64
               PROVE  ListInsert(v, r.n, Plain(r.item)).do = "panic" <=> Limit(v) < 0
    OBVIOUS
  <2> DEFINE s == Elems(v)
             i == IF r.n < 0 THEN 0 ELSE r.n
             t == IF i >= Len(s) THEN Append(s, Plain(r.item))
                  ELSE SubSeq(s, 1, i) \o <<Plain(r.item)>> \o SubSeq(s, i + 1, Len(s))
  <2>1. Len(t) \in Nat
    <3>1. i \in Nat
      BY HalfAssumption DEF Int64
    <3>2. CASE i >= Len(s)
      BY <1>1, <1>2, <3>2, AppendProperties
    <3>3. CASE ~(i >= Len(s))
      <4>1. SubSeq(s, 1, i) \in Seq(Elements) /\ SubSeq(s, i + 1, Len(s)) \in Seq(Elements)
        BY <1>2, <3>1, <3>3, PartType
      <4>2. <<Plain(r.item)>> \in Seq(Elements)
        BY <1>1
      <4>3. SubSeq(s, 1, i) \o <<Plain(r.item)>> \o SubSeq(s, i + 1, Len(s)) \in Seq(Elements)
        BY <4>1, <4>2, ConcatProperties
      <4> QED
        BY <3>3, <4>3, LenProperties
    <3> QED
      BY <3>2, <3>3
  <2>2. enforceListLimit(t, Limit(v)).do = "panic" <=> Limit(v) < 0
    BY <1>5, <2>1
  <2> HIDE DEF t
  <2> QED
    BY <1>3, <1>6, <2>2 DEF ListInsert, t
<1>9. \A h : SetHashFields(v, h).do = "panic" <=> v # Absent /\ Blank(v) /\ DOMAIN h # {}
  BY <1>3 DEF SetHashFields, IsHash
<1>10. SetHashField(v, Field(r), r.hash[Field(r)]).do = "panic" <=> v # Absent /\ Blank(v)
  <2>1. DOMAIN [f \in {Field(r)} |-> r.hash[Field(r)]] # {}
    OBVIOUS
  <2> QED
    BY <1>9, <2>1 DEF SetHashField
<1>11. /\ SetNX(v, Marshal(r)).do # "panic"
       /\ IncrementInt(v, r.n).do # "panic" /\ DecrementInt(v, r.n).do # "panic"
       /\ IncrementFloat(v, r.n).do # "panic" /\ DecrementFloat(v, r.n).do # "panic"
       /\ ListLimit(v, r.n).do # "panic"
       /\ ListPopLeft(v).do # "panic" /\ ListPopRight(v).do # "panic"
       /\ ListDeleteItem(v, Plain(r.item)).do # "panic"
       /\ DelHashField(v, Field(r)).do # "panic"
  BY <1>3 DEF SetNX, IncrementInt, DecrementInt, IncrementFloat, DecrementFloat, ListLimit,
              ListPopLeft, ListPopRight, ListDeleteItem, DelHashField
<1>12. r.op \in LockingOps \ FloatSumOps => r.n \in Int64
  BY <1>1
<1> QED
  BY <1>4, <1>7, <1>8, <1>9, <1>10, <1>11, <1>12
  DEF Decide, DecidesToDie, LockingOps, GrowingOps, FloatSumOps

\* Of the readers only GetListItem can panic, at the same indices as SetListItem.
THEOREM DeathsOfReaders ==
  ASSUME NEW r, WellFormed(r), r.op \in ReadOps, NEW store \in [Names -> Values],
         Len(Elems(store[r.key])) < Half - 1
  PROVE  Answer(r, store).do = "panic"
           <=> LET v   == store[r.key]
                   len == Len(Elems(v))
               IN  r.op = "GetListItem" /\ HasElements(v) /\ (Slips(r.n, len) \/ Precedes(r.n, len))
<1>1. store[r.key] \in Values
  BY RequestType, NamesType
<1>2. r.op = "GetListItem" => r.n \in Int64
  BY RequestType DEF FloatSumOps
<1>3. CASE r.op = "GetListItem"
  <2>1. Answer(r, store) = GetListItem(store[r.key], r.n)
    BY <1>3 DEF Answer
  <2> QED
    BY <1>1, <1>2, <1>3, <2>1, IndexPanics
<1>4. CASE r.op # "GetListItem"
  <2>1. \A ret : Return(ret).do # "panic"
    BY DEF Return
  <2>2. Answer(r, store).do # "panic"
    BY <1>4, <2>1 DEF Answer, ReadOps, OneKeyReadOps, BlockingReadOps, Get, Has, Length, GetFloat, GetInt,
         GetList, ListLength, ListHas, GetHash, GetHashField, GetHashFields, HashHas, HashLength,
         HashFields, HashValues, GetMany, GetWithPrefix, StoredKeys, KeysWithPrefix
  <2> QED
    BY <1>4, <2>2
<1> QED
  BY <1>3, <1>4
=============================================================================
