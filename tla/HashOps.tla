------------------------------- MODULE HashOps ------------------------------
(***************************************************************************)
(* The data part of mydis/type_hash.go: what a hash handler answers or     *)
(* writes when it finds v stored at its key.                               *)
(***************************************************************************)
EXTENDS ListOps

\* A list decodes as a hash when all its elements are encoded entries; of two
\* entries for one field the later one counts.
AllPairs(s) == \A i \in 1 .. Len(s) : s[i].field # NoField
LastOf(s, f) == CHOOSE i \in 1 .. Len(s) :
                  s[i].field = f /\ \A j \in 1 .. Len(s) : s[j].field = f => j <= i
MapOf(s) == [f \in {s[i].field : i \in 1 .. Len(s)} |-> s[LastOf(s, f)].item]

IsHash(v) == Blank(v) \/ v.type = "hash" \/ (v.type = "list" /\ AllPairs(v.value))
EmptyMap == [f \in {} |-> f]
FieldMap(v) == CASE v.type = "hash" -> v.fields
                 [] v.type = "list" /\ AllPairs(v.value) -> MapOf(v.value)
                 [] OTHER -> EmptyMap

HashError(v) == IF v = Absent THEN "ErrKeyNotFound" ELSE "ErrDecode"

\* The map that results from assigning every entry of new in old.
Assign(old, new) == [f \in DOMAIN old \cup DOMAIN new |->
                       IF f \in DOMAIN new THEN new[f] ELSE old[f]]

\* The entries of h whose field is in F.
Select(h, F) == [f \in DOMAIN h \cap F |-> h[f]]

-----------------------------------------------------------------------------
(* Readers.                                                                *)

GetHash(v) ==
  Return(IF IsHash(v) THEN Ok(HashV(FieldMap(v))) ELSE Err(HashError(v)))

GetHashField(v, field) ==
  Return(IF ~IsHash(v) THEN Err(HashError(v))
         ELSE IF field \in DOMAIN FieldMap(v) THEN Ok(RawV(FieldMap(v)[field]))
         ELSE Err("ErrHashFieldNotFound"))

GetHashFields(v, F) ==
  Return(IF IsHash(v) THEN Ok(HashV(Select(FieldMap(v), F))) ELSE Err(HashError(v)))

HashHas(v, field) ==
  Return(IF IsHash(v) THEN Ok(BoolV(field \in DOMAIN FieldMap(v))) ELSE Err(HashError(v)))

HashLength(v) ==
  Return(IF IsHash(v) THEN Ok(NumV(Cardinality(DOMAIN FieldMap(v)))) ELSE Err(HashError(v)))

HashFields(v) ==
  Return(IF IsHash(v) THEN Ok(FieldsV(DOMAIN FieldMap(v))) ELSE Err(HashError(v)))

\* The values as a list, sorted by their fields: an order that the map alone
\* determines, as Pairs has one.
HashValues(v) ==
  LET entries == Pairs(FieldMap(v))
  IN  Return(IF IsHash(v)
             THEN Ok(ListV([i \in 1 .. Len(entries) |-> Plain(entries[i].item)], 0))
             ELSE Err(HashError(v)))

-----------------------------------------------------------------------------
(* Writers.                                                                *)

\* A blank value decodes to a nil map, and an assignment to it panics.
SetHashFields(v, h) ==
  IF v = Absent THEN Write(EncodeHash(h), NullV)
  ELSE IF ~IsHash(v) THEN Refuse(Err("ErrDecode"))
  ELSE IF Blank(v) /\ DOMAIN h # {} THEN Panic
  ELSE Write(EncodeHash(Assign(FieldMap(v), h)), NullV)

SetHashField(v, field, item) == SetHashFields(v, [f \in {field} |-> item])

DelHashField(v, field) ==
  IF ~IsHash(v) THEN Refuse(Err(HashError(v)))
  ELSE Write(EncodeHash(Select(FieldMap(v), Fields \ {field})), NullV)
=============================================================================
