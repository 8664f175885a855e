---------------------------- MODULE AuxDataProofs ----------------------------
(***************************************************************************)
(* Proofs about AuxData: for all tools, schemata and files, tables pass    *)
(* through containers and files unharmed and are found with the type they  *)
(* have, provided that the serialisation of every single value can be read *)
(* back (CodecFaithful).                                                   *)
(***************************************************************************)
EXTENDS AuxData, TLAPS

(* The inductive invariant.  An entry is typed if and only if the schema that
   is registered for its name can read it; before the registry is locked there
   are no entries, so that no registration comes too late for one. *)

Registered(t, n) ==
    registry[t][n] # Null => registry[t][n] \in Schema /\ SchemaName[registry[t][n]] = n

RawEntry(e, r) ==
    \E form \in Forms :
        /\ e = Raw(form)
        /\ r # Null => form.type # TypeName[r] \/ Decode(TypeName[r], form.bytes) = {}

TypedEntry(e, r) ==
    \E s \in Schema : \E form \in Forms \cup {EmptyForm} : \E x \in ValuesOf(TypeName[s]) :
        /\ e = Typed(s, form, x)
        /\ r # Null /\ SchemaName[s] = SchemaName[r] /\ ApiTypeId[s] = ApiTypeId[r]

Entry(e, r) == e = Null \/ RawEntry(e, r) \/ TypedEntry(e, r)

Entries ==
    {Raw(form) : form \in Forms}
      \cup UNION {UNION {{Typed(s, form, x) : x \in ValuesOf(TypeName[s])} :
                     form \in Forms \cup {EmptyForm}} : s \in Schema}

AuxInv ==
    /\ registry \in [Tool -> [Name -> Schema \cup {Null}]]
    /\ locked \in [Tool -> BOOLEAN]
    /\ auxDatas \in [Tool -> [Name -> Entries \cup {Null}]]
    /\ file \in [Name -> Forms \cup {Null}]
    /\ \A t \in Tool, n \in Name :
          /\ Registered(t, n)
          /\ ~locked[t] => auxDatas[t][n] = Null
          /\ Entry(auxDatas[t][n], registry[t][n])

-----------------------------------------------------------------------------

(* What an entry is made of. *)

LEMMA EntryInEntries ==
    ASSUME NEW e, NEW r, Entry(e, r)
    PROVE  e \in Entries \cup {Null}
  <1>1. CASE e = Null
    BY <1>1
  <1>2. CASE RawEntry(e, r)
    BY <1>2 DEF RawEntry, Entries
  <1>3. CASE TypedEntry(e, r)
    BY <1>3 DEF TypedEntry, Entries
  <1>4. QED
    BY <1>1, <1>2, <1>3 DEF Entry

LEMMA TypedFields ==
    ASSUME NEW s, NEW form, NEW x
    PROVE  /\ Typed(s, form, x).schema = s /\ Typed(s, form, x).raw = form
           /\ Typed(s, form, x).object = x
  BY DEF Typed

LEMMA RawFields ==
    ASSUME NEW form
    PROVE  Raw(form).schema = Null /\ Raw(form).raw = form
  BY DEF Raw

(* The objects tools put under a schema are values of its type. *)
LEMMA ObjectsAreValues ==
    ASSUME NEW s \in Schema, NEW x \in Object[s]
    PROVE  x \in ValuesOf(TypeName[s])
  BY DEF ValuesOf

(* What can be read from a form in a file is a value of the type that is read. *)
LEMMA ReadingsAreValues ==
    ASSUME CodecFaithful, NEW s \in Schema, NEW form \in Forms, form.type = TypeName[s],
           NEW r \in Decode(TypeName[s], form.bytes)
    PROVE  r.value \in ValuesOf(TypeName[s])
  <1>1. CASE form \in Foreign
    BY <1>1 DEF ValuesOf
  <1>2. CASE form \notin Foreign
    <2>1. PICK q \in Schema : \E x \in ValuesOf(TypeName[q]) : form = FormOf(TypeName[q], x)
      BY <1>2 DEF Forms
    <2>2. PICK x \in ValuesOf(TypeName[q]) : form = FormOf(TypeName[q], x)
      BY <2>1
    <2>3. TypeName[q] = TypeName[s] /\ form.bytes = Encode(TypeName[q], x)
      BY <2>2 DEF FormOf
    <2>4. Decode(TypeName[q], Encode(TypeName[q], x)) = {[value |-> x, rest |-> <<>>]}
      BY <2>2 DEF CodecFaithful
    <2>5. r = [value |-> x, rest |-> <<>>]
      BY <2>3, <2>4
    <2>6. r.value = x
      BY <2>5
    <2>7. QED
      BY <2>2, <2>3, <2>6
  <1>3. QED
    BY <1>1, <1>2

(* AuxDataImpl<Schema>::fromProtobuf: what it yields if it reads the form. *)
LEMMA Unserializing ==
    ASSUME CodecFaithful, NEW s \in Schema, NEW form \in Forms
    PROVE  \/ /\ unserialized(s, form) = Null
              /\ form.type # TypeName[s] \/ Decode(TypeName[s], form.bytes) = {}
           \/ /\ form.type = TypeName[s] /\ Decode(form.type, form.bytes) # {}
              /\ \E x \in ValuesOf(TypeName[s]) :
                    /\ x = (CHOOSE r \in Decode(form.type, form.bytes) : TRUE).value
                    /\ unserialized(s, form) = Typed(s, form, x)
  <1> DEFINE R == {r \in Decode(TypeName[s], form.bytes) : form.type = TypeName[s]}
  <1>1. CASE R = {}
    <2>1. unserialized(s, form) = Null
      BY <1>1 DEF unserialized
    <2>2. form.type # TypeName[s] \/ Decode(TypeName[s], form.bytes) = {}
      BY <1>1
    <2>3. QED
      BY <2>1, <2>2
  <1>2. CASE R # {}
    <2> DEFINE q == CHOOSE r \in R : TRUE
    <2>1. form.type = TypeName[s] /\ R = Decode(form.type, form.bytes)
      BY <1>2
    <2>2. q \in R
      BY <1>2
    <2>3. unserialized(s, form) = Typed(s, form, q.value)
      BY <1>2 DEF unserialized
    <2>4. q = CHOOSE r \in Decode(form.type, form.bytes) : TRUE
      BY <2>1
    <2> HIDE DEF q
    <2>5. q.value \in ValuesOf(TypeName[s])
      BY <2>1, <2>2, ReadingsAreValues
    <2>6. Decode(form.type, form.bytes) # {}
      BY <1>2, <2>1
    <2>7. QED
      BY <2>1, <2>3, <2>4, <2>5, <2>6
  <1>3. QED
    BY <1>1, <1>2

(* What is loaded is an entry: typed if the registered schema can read it. *)
LEMMA LoadedIsEntry ==
    ASSUME CodecFaithful, AuxInv, NEW t \in Tool, NEW n \in Name, NEW form \in Forms
    PROVE  /\ Entry(loaded(t, n, form), registry[t][n])
           /\ loaded(t, n, form) # Null
           /\ MeaningOf(loaded(t, n, form)) = Meaning(form)
  <1> DEFINE r == registry[t][n]
  <1>1. r = Null \/ (r \in Schema /\ SchemaName[r] = n)
    BY DEF AuxInv, Registered
  <1>2. ASSUME loaded(t, n, form) = Raw(form),
               r # Null => form.type # TypeName[r] \/ Decode(TypeName[r], form.bytes) = {}
        PROVE  /\ Entry(loaded(t, n, form), r)
               /\ loaded(t, n, form) # Null
               /\ MeaningOf(loaded(t, n, form)) = Meaning(form)
    <2>1. RawEntry(Raw(form), r)
      BY <1>2 DEF RawEntry
    <2>2. Raw(form) # Null
      BY NullAssumption
    <2>3. MeaningOf(Raw(form)) = Meaning(form)
      BY RawFields DEF MeaningOf, TypedValue
    <2>4. QED
      BY <1>2, <2>1, <2>2, <2>3 DEF Entry
  <1>3. CASE r = Null
    <2>1. loaded(t, n, form) = Raw(form)
      BY <1>3 DEF loaded
    <2>2. QED
      BY <1>2, <1>3, <2>1
  <1>4. CASE r # Null /\ unserialized(r, form) = Null
             /\ (form.type # TypeName[r] \/ Decode(TypeName[r], form.bytes) = {})
    <2>1. loaded(t, n, form) = Raw(form)
      BY <1>4 DEF loaded
    <2>2. QED
      BY <1>2, <1>4, <2>1
  <1>5. CASE /\ r # Null /\ form.type = TypeName[r] /\ Decode(form.type, form.bytes) # {}
             /\ \E x \in ValuesOf(TypeName[r]) :
                    /\ x = (CHOOSE q \in Decode(form.type, form.bytes) : TRUE).value
                    /\ unserialized(r, form) = Typed(r, form, x)
    <2>1. PICK x \in ValuesOf(TypeName[r]) :
                    /\ x = (CHOOSE q \in Decode(form.type, form.bytes) : TRUE).value
                    /\ unserialized(r, form) = Typed(r, form, x)
      BY <1>5
    <2>2. Typed(r, form, x) # Null /\ r \in Schema
      BY <1>1, <1>5, NullAssumption
    <2>3. loaded(t, n, form) = Typed(r, form, x)
      BY <1>5, <2>1, <2>2 DEF loaded
    <2>4. TypedEntry(Typed(r, form, x), r)
      BY <1>5, <2>1, <2>2 DEF TypedEntry
    <2>5. r # Null
      BY <1>5
    <2>6. MeaningOf(Typed(r, form, x)) = <<TypeName[r], "value", x>>
      BY <2>5, TypedFields DEF MeaningOf, TypedValue
    <2>7. Meaning(form) = <<form.type, "value", x>>
      BY <1>5, <2>1 DEF Meaning
    <2>8. QED
      BY <1>5, <2>2, <2>3, <2>4, <2>6, <2>7 DEF Entry
  <1>6. QED
    BY <1>1, <1>3, <1>4, <1>5, Unserializing

(* Saving an entry writes a form of the same meaning. *)
LEMMA SavedForm ==
    ASSUME CodecFaithful, NEW e, NEW r, Entry(e, r), e # Null
    PROVE  serialized(e) \in Forms /\ Meaning(serialized(e)) = MeaningOf(e)
  <1>1. CASE RawEntry(e, r)
    <2>1. PICK form \in Forms : e = Raw(form)
      BY <1>1 DEF RawEntry
    <2>2. e.schema = Null /\ e.raw = form
      BY <2>1, RawFields
    <2>3. QED
      BY <2>1, <2>2 DEF serialized, MeaningOf, TypedValue
  <1>2. CASE TypedEntry(e, r)
    <2>1. PICK s \in Schema, form \in Forms \cup {EmptyForm} :
              \E x \in ValuesOf(TypeName[s]) : e = Typed(s, form, x)
      BY <1>2 DEF TypedEntry
    <2>2. PICK x \in ValuesOf(TypeName[s]) : e = Typed(s, form, x)
      BY <2>1
    <2> DEFINE T == TypeName[s]
               f == FormOf(T, x)
    <2>3. e.schema = s /\ e.object = x /\ s # Null
      BY <2>2, TypedFields, NullAssumption
    <2>4. serialized(e) = f /\ MeaningOf(e) = <<T, "value", x>>
      BY <2>3 DEF serialized, MeaningOf, TypedValue, FormOf
    <2>5. f \in Forms
      BY <2>2 DEF Forms
    <2>6. Decode(f.type, f.bytes) = {[value |-> x, rest |-> <<>>]}
      BY <2>2 DEF CodecFaithful, FormOf
    <2>7. (CHOOSE q \in Decode(f.type, f.bytes) : TRUE) = [value |-> x, rest |-> <<>>]
      BY <2>6
    <2>8. Meaning(f) = <<f.type, "value", x>>
      BY <2>6, <2>7 DEF Meaning
    <2>9. f.type = T
      BY DEF FormOf
    <2>10. QED
      BY <2>4, <2>5, <2>8, <2>9
  <1>3. QED
    BY <1>1, <1>2 DEF Entry

-----------------------------------------------------------------------------

(* A step that gives one tool other entries keeps the invariant if these are
   entries and the tool has its registry locked. *)
LEMMA EntriesChanged ==
    ASSUME AuxInv, NEW t \in Tool, NEW a, a \in [Name -> Entries \cup {Null}],
           auxDatas' = [auxDatas EXCEPT ![t] = a],
           \A n \in Name : Entry(a[n], registry[t][n]),
           registry' = registry, file' = file,
           locked' \in [Tool -> BOOLEAN], \A u \in Tool : locked[u] => locked'[u],
           locked'[t] \/ \A n \in Name : a[n] = Null
    PROVE  AuxInv'
  <1>1. auxDatas' \in [Tool -> [Name -> Entries \cup {Null}]]
    BY DEF AuxInv
  <1>2. ASSUME NEW u \in Tool, NEW n \in Name
        PROVE  /\ Registered(u, n)'
               /\ ~locked'[u] => auxDatas'[u][n] = Null
               /\ Entry(auxDatas'[u][n], registry'[u][n])
    <2>1. Registered(u, n)'
      BY DEF AuxInv, Registered
    <2>2. CASE u = t
      <3>1. auxDatas'[u] = a
        BY <2>2 DEF AuxInv
      <3>2. QED
        BY <2>1, <2>2, <3>1
    <2>3. CASE u # t
      <3>1. auxDatas'[u] = auxDatas[u]
        BY <2>3 DEF AuxInv
      <3>2. QED
        BY <2>1, <3>1 DEF AuxInv
    <2>4. QED
      BY <2>2, <2>3
  <1>3. QED
    BY <1>1, <1>2 DEF AuxInv

LEMMA RegisterStep ==
    ASSUME AuxInv, NEW t \in Tool, NEW s \in Schema, registerAuxDataType(t, s)
    PROVE  AuxInv'
  <1> DEFINE m == SchemaName[s]
  <1>1. m \in Name /\ s # Null
    BY AuxDataAssumption, NullAssumption
  <1>2. /\ registry' = [registry EXCEPT ![t][m] = s] /\ ~locked[t]
        /\ locked' = locked /\ auxDatas' = auxDatas /\ file' = file
    BY DEF registerAuxDataType
  <1>3. registry' \in [Tool -> [Name -> Schema \cup {Null}]]
    BY <1>1, <1>2 DEF AuxInv
  <1>4. ASSUME NEW u \in Tool, NEW n \in Name
        PROVE  /\ Registered(u, n)'
               /\ ~locked'[u] => auxDatas'[u][n] = Null
               /\ Entry(auxDatas'[u][n], registry'[u][n])
    <2>1. ~locked'[u] => auxDatas'[u][n] = Null
      BY <1>2 DEF AuxInv
    <2>2. CASE u = t /\ n = m
      <3>1. registry'[u][n] = s
        BY <1>1, <1>2, <2>2 DEF AuxInv
      <3>2. Registered(u, n)'
        BY <2>2, <3>1 DEF Registered
      <3>3. Entry(auxDatas'[u][n], registry'[u][n])
        BY <1>2, <2>1, <2>2 DEF Entry
      <3>4. QED
        BY <2>1, <3>2, <3>3
    <2>3. CASE ~(u = t /\ n = m)
      <3>1. registry'[u][n] = registry[u][n]
        BY <1>1, <1>2, <2>3 DEF AuxInv
      <3>2. Registered(u, n)'
        BY <3>1 DEF AuxInv, Registered
      <3>3. Entry(auxDatas'[u][n], registry'[u][n])
        BY <1>2, <3>1 DEF AuxInv
      <3>4. QED
        BY <2>1, <3>2, <3>3
    <2>4. QED
      BY <2>2, <2>3
  <1>5. QED
    BY <1>2, <1>3, <1>4 DEF AuxInv

(* createContainer and clearAuxData leave a tool without entries. *)
LEMMA EmptiedStep ==
    ASSUME AuxInv, NEW t \in Tool, createContainer(t) \/ clearAuxData(t)
    PROVE  AuxInv'
  <1> DEFINE a == [n \in Name |-> Null]
  <1>1. /\ auxDatas' = [auxDatas EXCEPT ![t] = a] /\ registry' = registry /\ file' = file
        /\ locked' \in [Tool -> BOOLEAN] /\ \A u \in Tool : locked[u] => locked'[u]
    BY DEF createContainer, clearAuxData, AuxInv
  <1>2. a \in [Name -> Entries \cup {Null}] /\ \A n \in Name : a[n] = Null
    OBVIOUS
  <1>3. \A n \in Name : Entry(a[n], registry[t][n])
    BY <1>2 DEF Entry
  <1> HIDE DEF a
  <1>4. QED
    BY <1>1, <1>2, <1>3, EntriesChanged

(* One entry is replaced. *)
LEMMA EntryReplaced ==
    ASSUME AuxInv, NEW t \in Tool, NEW m \in Name, NEW e, Entry(e, registry[t][m]),
           auxDatas' = [auxDatas EXCEPT ![t][m] = e],
           registry' = registry, file' = file, locked' = locked, locked[t]
    PROVE  AuxInv'
  <1> DEFINE a == [auxDatas[t] EXCEPT ![m] = e]
  <1>1. e \in Entries \cup {Null}
    BY EntryInEntries
  <1>2. auxDatas[t] \in [Name -> Entries \cup {Null}]
    BY DEF AuxInv
  <1>3. a \in [Name -> Entries \cup {Null}]
    BY <1>1, <1>2
  <1>4. \A n \in Name : Entry(a[n], registry[t][n])
    BY <1>2 DEF AuxInv
  <1>5. auxDatas' = [auxDatas EXCEPT ![t] = a]
    OBVIOUS
  <1>6. locked' \in [Tool -> BOOLEAN] /\ \A u \in Tool : locked[u] => locked'[u]
    BY DEF AuxInv
  <1> HIDE DEF a
  <1>7. QED
    BY <1>3, <1>4, <1>5, <1>6, EntriesChanged

LEMMA AddStep ==
    ASSUME AuxInv, NEW t \in Tool, NEW s \in Schema, NEW x \in Object[s], addAuxData(t, s, x)
    PROVE  AuxInv'
  <1> DEFINE m == SchemaName[s]
             r == registry[t][m]
             e == Typed(s, EmptyForm, x)
  <1>1. m \in Name
    BY AuxDataAssumption
  <1>2. r # Null /\ ApiTypeId[r] = ApiTypeId[s] /\ SchemaName[r] = m
    BY <1>1 DEF addAuxData, checkAuxDataRegistration, AuxInv, Registered
  <1>3. x \in ValuesOf(TypeName[s])
    BY ObjectsAreValues
  <1>4. Entry(e, r)
    BY <1>2, <1>3 DEF Entry, TypedEntry
  <1>5. /\ auxDatas' = [auxDatas EXCEPT ![t][m] = e] /\ locked[t]
        /\ registry' = registry /\ file' = file /\ locked' = locked
    BY DEF addAuxData
  <1> HIDE DEF m, e
  <1>6. QED
    BY <1>1, <1>4, <1>5, EntryReplaced

(* The entry that getAuxData finds: a typed one, of the type asked for. *)
LEMMA FoundEntry ==
    ASSUME AuxInv, NEW t \in Tool, NEW s \in Schema, getAuxData(t, s) # Null
    PROVE  LET e == auxDatas[t][SchemaName[s]]
           IN  /\ locked[t]
               /\ e.schema \in Schema /\ ApiTypeId[e.schema] = ApiTypeId[s]
               /\ \E form \in Forms \cup {EmptyForm} : \E y : e = Typed(e.schema, form, y)
               /\ TypedEntry(e, registry[t][SchemaName[s]])
  <1> DEFINE m == SchemaName[s]
             e == auxDatas[t][m]
  <1>1. m \in Name /\ ApiTypeId[s] # UNREGISTERED_API_TYPE_ID
    BY AuxDataAssumption
  <1>2. e # Null /\ getApiTypeId(e) = ApiTypeId[s]
    BY DEF getAuxData
  <1>3. e.schema # Null /\ ApiTypeId[e.schema] = ApiTypeId[s]
    BY <1>1, <1>2 DEF getApiTypeId
  <1>4. locked[t]
    BY <1>1, <1>2 DEF AuxInv
  <1>5. Entry(e, registry[t][m])
    BY <1>1 DEF AuxInv
  <1>6. ~RawEntry(e, registry[t][m])
    BY <1>3, RawFields DEF RawEntry
  <1>7. TypedEntry(e, registry[t][m])
    BY <1>2, <1>5, <1>6 DEF Entry
  <1>8. PICK q \in Schema, form \in Forms \cup {EmptyForm} :
            \E y \in ValuesOf(TypeName[q]) : e = Typed(q, form, y)
    BY <1>7 DEF TypedEntry
  <1>9. PICK y \in ValuesOf(TypeName[q]) : e = Typed(q, form, y)
    BY <1>8
  <1>10. e.schema = q
    BY <1>9, TypedFields
  <1>11. QED
    BY <1>3, <1>4, <1>7, <1>9, <1>10

(* Changing the object leaves the schema and the raw form. *)
LEMMA ModifiedEntry ==
    ASSUME AuxInv, NEW t \in Tool, NEW s \in Schema, NEW x \in Object[s], modifyAuxData(t, s, x)
    PROVE  LET m == SchemaName[s]
           IN  \E q \in Schema, form \in Forms \cup {EmptyForm} :
                  /\ m \in Name /\ locked[t] /\ TypeName[q] = TypeName[s]
                  /\ auxDatas' = [auxDatas EXCEPT ![t][m] = Typed(q, form, x)]
                  /\ Entry(Typed(q, form, x), registry[t][m])
  <1> DEFINE m == SchemaName[s]
             e == auxDatas[t][m]
             r == registry[t][m]
  <1>1. m \in Name
    BY AuxDataAssumption
  <1>2. getAuxData(t, s) # Null
    BY DEF modifyAuxData
  <1>3. /\ locked[t] /\ e.schema \in Schema /\ ApiTypeId[e.schema] = ApiTypeId[s]
        /\ \E form \in Forms \cup {EmptyForm} : \E y : e = Typed(e.schema, form, y)
        /\ TypedEntry(e, r)
    BY <1>2, FoundEntry
  <1> DEFINE q == e.schema
  <1>4. PICK form \in Forms \cup {EmptyForm} : \E y : e = Typed(q, form, y)
    BY <1>3
  <1>5. [e EXCEPT !.object = x] = Typed(q, form, x)
    <2> HIDE DEF q
    <2> QED
      BY <1>4 DEF Typed
  <1>6. auxDatas' = [auxDatas EXCEPT ![t][m] = [e EXCEPT !.object = x]]
    BY DEF modifyAuxData
  <1>7. q \in Schema /\ TypeName[q] = TypeName[s]
    BY <1>3, AuxDataAssumption
  <1>8. x \in ValuesOf(TypeName[q])
    BY <1>7, ObjectsAreValues
  <1>9. r # Null /\ SchemaName[q] = SchemaName[r] /\ ApiTypeId[q] = ApiTypeId[r]
    BY <1>3, TypedFields DEF TypedEntry
  <1>10. Entry(Typed(q, form, x), r)
    BY <1>4, <1>7, <1>8, <1>9 DEF Entry, TypedEntry
  <1> HIDE DEF q, e
  <1>11. auxDatas' = [auxDatas EXCEPT ![t][m] = Typed(q, form, x)]
    BY <1>5, <1>6
  <1>12. QED
    BY <1>1, <1>3, <1>4, <1>7, <1>10, <1>11

LEMMA ModifyStep ==
    ASSUME AuxInv, NEW t \in Tool, NEW s \in Schema, NEW x \in Object[s], modifyAuxData(t, s, x)
    PROVE  AuxInv'
  <1> DEFINE m == SchemaName[s]
  <1>1. PICK e : /\ m \in Name /\ locked[t]
                 /\ auxDatas' = [auxDatas EXCEPT ![t][m] = e]
                 /\ Entry(e, registry[t][m])
    BY ModifiedEntry
  <1>2. registry' = registry /\ file' = file /\ locked' = locked
    BY DEF modifyAuxData
  <1> HIDE DEF m
  <1>3. QED
    BY <1>1, <1>2, EntryReplaced

LEMMA RemoveStep ==
    ASSUME AuxInv, NEW t \in Tool, NEW n \in Name, removeAuxData(t, n)
    PROVE  AuxInv'
  <1>1. /\ auxDatas' = [auxDatas EXCEPT ![t][n] = Null] /\ auxDatas[t][n] # Null
        /\ registry' = registry /\ file' = file /\ locked' = locked
    BY DEF removeAuxData
  <1>2. locked[t]
    BY <1>1 DEF AuxInv
  <1>3. Entry(Null, registry[t][n])
    BY DEF Entry
  <1>4. QED
    BY <1>1, <1>2, <1>3, EntryReplaced

LEMMA SaveStep ==
    ASSUME CodecFaithful, AuxInv, NEW t \in Tool, toProtobuf(t)
    PROVE  AuxInv'
  <1>1. /\ file' = [n \in Name |-> IF auxDatas[t][n] = Null THEN Null
                                   ELSE serialized(auxDatas[t][n])]
        /\ registry' = registry /\ auxDatas' = auxDatas /\ locked' = locked
    BY DEF toProtobuf
  <1>2. ASSUME NEW n \in Name, auxDatas[t][n] # Null
        PROVE  serialized(auxDatas[t][n]) \in Forms
    <2>1. Entry(auxDatas[t][n], registry[t][n])
      BY DEF AuxInv
    <2>2. QED
      BY <1>2, <2>1, SavedForm
  <1>3. file' \in [Name -> Forms \cup {Null}]
    BY <1>1, <1>2
  <1>4. QED
    BY <1>1, <1>3 DEF AuxInv, Registered

LEMMA LoadStep ==
    ASSUME CodecFaithful, AuxInv, NEW t \in Tool, fromProtobuf(t)
    PROVE  AuxInv'
  <1> DEFINE a == [n \in Name |-> IF file[n] = Null THEN Null ELSE loaded(t, n, file[n])]
  <1>1. /\ auxDatas' = [auxDatas EXCEPT ![t] = a]
        /\ registry' = registry /\ file' = file /\ locked' = locked /\ locked[t]
    BY DEF fromProtobuf
  <1>2. ASSUME NEW n \in Name
        PROVE  Entry(a[n], registry[t][n])
    <2>1. CASE file[n] = Null
      BY <2>1 DEF Entry
    <2>2. CASE file[n] # Null
      <3>1. file[n] \in Forms
        BY <2>2 DEF AuxInv
      <3>2. a[n] = loaded(t, n, file[n])
        BY <2>2
      <3>3. QED
        BY <3>1, <3>2, LoadedIsEntry
    <2>3. QED
      BY <2>1, <2>2
  <1>3. a \in [Name -> Entries \cup {Null}]
    <2>1. \A n \in Name : a[n] \in Entries \cup {Null}
      BY <1>2, EntryInEntries
    <2>2. QED
      BY <2>1
  <1>4. locked' \in [Tool -> BOOLEAN] /\ \A u \in Tool : locked[u] => locked'[u]
    BY <1>1 DEF AuxInv
  <1> HIDE DEF a
  <1>5. QED
    BY <1>1, <1>2, <1>3, <1>4, EntriesChanged

LEMMA InitialEntries == Init => AuxInv
  <1> SUFFICES ASSUME Init
               PROVE  AuxInv
    OBVIOUS
  <1>1. file \in [Name -> Forms \cup {Null}]
    BY DEF Init, Forms
  <1>2. QED
    BY <1>1 DEF Init, AuxInv, Registered, Entry

LEMMA AuxInvStep ==
    ASSUME CodecFaithful, AuxInv, [Next]_vars
    PROVE  AuxInv'
  <1>1. ASSUME NEW t \in Tool, NEW s \in Schema, registerAuxDataType(t, s)
        PROVE  AuxInv'
    BY <1>1, RegisterStep
  <1>2. ASSUME NEW t \in Tool, NEW s \in Schema, NEW x \in Object[s], addAuxData(t, s, x)
        PROVE  AuxInv'
    BY <1>2, AddStep
  <1>3. ASSUME NEW t \in Tool, NEW s \in Schema, NEW x \in Object[s], modifyAuxData(t, s, x)
        PROVE  AuxInv'
    BY <1>3, ModifyStep
  <1>4. ASSUME NEW t \in Tool, createContainer(t) \/ clearAuxData(t)
        PROVE  AuxInv'
    BY <1>4, EmptiedStep
  <1>5. ASSUME NEW t \in Tool, NEW n \in Name, removeAuxData(t, n)
        PROVE  AuxInv'
    BY <1>5, RemoveStep
  <1>6. ASSUME NEW t \in Tool, toProtobuf(t)
        PROVE  AuxInv'
    BY <1>6, SaveStep
  <1>7. ASSUME NEW t \in Tool, fromProtobuf(t)
        PROVE  AuxInv'
    BY <1>7, LoadStep
  <1>8. CASE UNCHANGED vars
    BY <1>8 DEF vars, AuxInv, Registered
  <1>9. QED
    BY <1>1, <1>2, <1>3, <1>4, <1>5, <1>6, <1>7, <1>8 DEF Next

-----------------------------------------------------------------------------

(* Entries are raw or typed as the registry of their tool requires, in every
   container, whatever is registered, loaded, changed and saved. *)
THEOREM AuxInvariant ==
    ASSUME CodecFaithful
    PROVE  Spec => []AuxInv
  <1>1. AuxInv /\ [Next]_vars => AuxInv'
    BY AuxInvStep
  <1>2. QED
    BY <1>1, InitialEntries, PTL DEF Spec

(* The cast in getAuxData is to the type of the object. *)
THEOREM AuxTypeCorrect ==
    ASSUME CodecFaithful
    PROVE  Spec => []TypeOK
  <1>1. AuxInv => TypeOK
    <2> SUFFICES ASSUME AuxInv
                 PROVE  TypeOK
      OBVIOUS
    <2>1. ASSUME NEW t \in Tool, NEW n \in Name, auxDatas[t][n] # Null
          PROVE  LET e == auxDatas[t][n]
                 IN  IF e.schema = Null THEN e.raw # EmptyForm
                     ELSE SchemaName[e.schema] = n /\ checkAuxDataRegistration(t, e.schema)
      <3> DEFINE e == auxDatas[t][n]
                 r == registry[t][n]
      <3>1. Entry(e, r) /\ Registered(t, n)
        BY DEF AuxInv
      <3>2. CASE RawEntry(e, r)
        <4>1. PICK form \in Forms : e = Raw(form)
          BY <3>2 DEF RawEntry
        <4>2. e.schema = Null /\ e.raw = form
          BY <4>1, RawFields
        <4>3. form.type # Null
          BY NullAssumption
        <4>4. EmptyForm.type = Null
          BY DEF EmptyForm
        <4>5. form # EmptyForm
          BY <4>3, <4>4
        <4>6. QED
          BY <4>2, <4>5
      <3>3. CASE TypedEntry(e, r)
        <4>1. PICK s \in Schema : /\ \E form, x : e = Typed(s, form, x)
                                  /\ r # Null /\ SchemaName[s] = SchemaName[r]
                                  /\ ApiTypeId[s] = ApiTypeId[r]
          BY <3>3 DEF TypedEntry
        <4>2. e.schema = s
          BY <4>1, TypedFields
        <4>3. SchemaName[s] = n /\ s # Null
          BY <3>1, <4>1, NullAssumption DEF Registered
        <4>4. checkAuxDataRegistration(t, s)
          BY <4>1, <4>3 DEF checkAuxDataRegistration
        <4>5. QED
          BY <4>2, <4>3, <4>4
      <3>4. QED
        BY <2>1, <3>1, <3>2, <3>3 DEF Entry
    <2>2. QED
      BY <2>1 DEF TypeOK, AuxInv
  <1>2. QED
    BY <1>1, AuxInvariant, PTL

(* getAuxData finds a table exactly if its portable type is the registered one
   and its bytes are a value of it, whichever tool wrote it. *)
THEOREM TypedAccessExact ==
    ASSUME CodecFaithful
    PROVE  Spec => []TypedAccess
  <1>1. AuxInv => TypedAccess
    <2> SUFFICES ASSUME AuxInv, NEW t \in Tool, NEW n \in Name, registry[t][n] # Null
                 PROVE  LET s == registry[t][n]
                            m == MeaningsOf(t)[n]
                        IN  getAuxData(t, s) =
                              IF m = Null \/ m[1] # TypeName[s] \/ m[2] = "bytes" THEN Null ELSE m[3]
      BY DEF TypedAccess
    <2> DEFINE s == registry[t][n]
               e == auxDatas[t][n]
               m == MeaningsOf(t)[n]
    <2>1. s \in Schema /\ SchemaName[s] = n /\ Entry(e, s)
      BY DEF AuxInv, Registered
    <2>2. m = IF e = Null THEN Null ELSE MeaningOf(e)
      BY DEF MeaningsOf
    <2>3. getAuxData(t, s) = IF e = Null \/ getApiTypeId(e) # ApiTypeId[s] THEN Null ELSE e.object
      BY <2>1 DEF getAuxData
    <2> HIDE DEF m
    <2>4. CASE e = Null
      BY <2>2, <2>3, <2>4 DEF m
    <2>5. CASE e # Null /\ RawEntry(e, s)
      <3>1. PICK form \in Forms :
                /\ e = Raw(form)
                /\ form.type # TypeName[s] \/ Decode(TypeName[s], form.bytes) = {}
        BY <2>5 DEF RawEntry
      <3>2. e.schema = Null /\ e.raw = form
        BY <3>1, RawFields
      <3>3. getAuxData(t, s) = Null
        <4>1. getApiTypeId(e) = UNREGISTERED_API_TYPE_ID
          BY <3>2 DEF getApiTypeId
        <4>2. ApiTypeId[s] # UNREGISTERED_API_TYPE_ID
          BY <2>1, AuxDataAssumption
        <4>3. QED
          BY <2>3, <4>1, <4>2
      <3>4. m = Meaning(form)
        BY <2>2, <2>5, <3>2 DEF MeaningOf, TypedValue
      <3>5. m[1] # TypeName[s] \/ m[2] = "bytes"
        BY <3>1, <3>4 DEF Meaning
      <3>6. QED
        BY <3>3, <3>5 DEF m
    <2>6. CASE e # Null /\ TypedEntry(e, s)
      <3>1. PICK q \in Schema : \E form, x : /\ e = Typed(q, form, x)
                                             /\ x \in ValuesOf(TypeName[q])
                                             /\ ApiTypeId[q] = ApiTypeId[s]
        BY <2>6 DEF TypedEntry
      <3>2. PICK form, x : /\ e = Typed(q, form, x)
                           /\ x \in ValuesOf(TypeName[q])
                           /\ ApiTypeId[q] = ApiTypeId[s]
        BY <3>1
      <3>3. e.schema = q /\ e.object = x /\ q # Null
        BY <3>2, TypedFields, NullAssumption
      <3>4. TypeName[q] = TypeName[s]
        BY <2>1, <3>2, AuxDataAssumption
      <3>5. getAuxData(t, s) = x
        BY <2>3, <2>6, <3>2, <3>3 DEF getApiTypeId
      <3>6. m = <<TypeName[s], "value", x>>
        BY <2>2, <2>6, <3>3, <3>4 DEF MeaningOf, TypedValue
      <3>7. m # Null
        BY <3>2, <3>4, <3>6, NullAssumption DEF TypedValue
      <3>8. m[1] = TypeName[s] /\ m[2] # "bytes" /\ m[3] = x
        BY <3>6
      <3>9. QED
        BY <3>5, <3>7, <3>8 DEF m
    <2>7. QED
      BY <2>1, <2>4, <2>5, <2>6 DEF Entry
  <1>2. QED
    BY <1>1, AuxInvariant, PTL

-----------------------------------------------------------------------------

(* The tables of a tool and of the file, as AuxTables sees them. *)
held == [t \in Tool |-> MeaningsOf(t)]
disk == [n \in Name |-> IF file[n] = Null THEN Null ELSE Meaning(file[n])]

(* The meanings of a tool whose entries are a. *)
Meanings(a) == [n \in Name |-> IF a[n] = Null THEN Null ELSE MeaningOf(a[n])]

LEMMA HeldByTool ==
    /\ held = [t \in Tool |-> Meanings(auxDatas[t])]
    /\ held' = [t \in Tool |-> Meanings(auxDatas'[t])]
  BY DEF held, MeaningsOf, Meanings, MeaningOf, TypedValue, Meaning

(* New entries for one tool are new tables for this tool. *)
LEMMA HeldChanged ==
    ASSUME NEW t \in Tool, NEW a, AuxInv, auxDatas' = [auxDatas EXCEPT ![t] = a]
    PROVE  held' = [held EXCEPT ![t] = Meanings(a)]
  <1>1. \A u \in Tool : auxDatas'[u] = IF u = t THEN a ELSE auxDatas[u]
    BY DEF AuxInv
  <1>2. QED
    BY <1>1, HeldByTool

LEMMA TableChanged ==
    ASSUME NEW t \in Tool, NEW m \in Name, NEW e, AuxInv,
           auxDatas' = [auxDatas EXCEPT ![t][m] = e]
    PROVE  held' = [held EXCEPT ![t][m] = IF e = Null THEN Null ELSE MeaningOf(e)]
  <1> DEFINE a == [auxDatas[t] EXCEPT ![m] = e]
             x == IF e = Null THEN Null ELSE MeaningOf(e)
  <1>1. auxDatas[t] \in [Name -> Entries \cup {Null}]
    BY DEF AuxInv
  <1>2. held' = [held EXCEPT ![t] = Meanings(a)]
    <2>1. auxDatas' = [auxDatas EXCEPT ![t] = a]
      OBVIOUS
    <2> HIDE DEF a
    <2>2. QED
      BY <2>1, HeldChanged
  <1>3. held[t] = Meanings(auxDatas[t])
    BY HeldByTool
  <1>4. Meanings(a) = [Meanings(auxDatas[t]) EXCEPT ![m] = x]
    <2>1. \A n \in Name : a[n] = IF n = m THEN e ELSE auxDatas[t][n]
      BY <1>1
    <2> HIDE DEF a
    <2>2. QED
      BY <2>1 DEF Meanings
  <1> HIDE DEF a, x
  <1>5. held' = [held EXCEPT ![t] = [held[t] EXCEPT ![m] = x]]
    BY <1>2, <1>3, <1>4
  <1>6. QED
    BY <1>5 DEF x

(* Tools exchange tables as AuxTables promises: saving and loading are the
   identity on types and values, for tools that registered the type of a table,
   another type of that name, or nothing. *)
THEOREM TablesPassUnharmed ==
    ASSUME CodecFaithful
    PROVE  Spec => TablesSurvive
  <1> DEFINE Put(t, n, x) == /\ held' = [held EXCEPT ![t][n] = x] /\ disk' = disk
                              /\ call' = <<"put", t, n, x>>
             Table == AllMeanings \cup {Null}
  <1>1. Init => Tables!Init
    <2> SUFFICES ASSUME Init
                 PROVE  /\ held = [t \in Tool |-> [n \in Name |-> Null]]
                        /\ disk \in [Name -> Table]
                        /\ call = <<>>
      BY DEF Tables!Init, held, disk
    <2>1. held = [t \in Tool |-> [n \in Name |-> Null]]
      BY DEF Init, held, MeaningsOf
    <2>2. disk \in [Name -> Table]
      BY DEF Init, disk, AllMeanings, TypedValue
    <2>3. QED
      BY <2>1, <2>2 DEF Init
  <1>2. ASSUME AuxInv, [Next]_vars
        PROVE  [Tables!Next]_<<held, disk, call>>
    <2>1. ASSUME NEW t \in Tool, NEW n \in Name, NEW x \in Table, Put(t, n, x)
          PROVE  Tables!Next
      <3>1. Tables!Put(t, n, x)
        BY <2>1 DEF Tables!Put, held, disk
      <3>2. QED
        BY <3>1 DEF Tables!Next
    <2>2. ASSUME file' = file
          PROVE  disk' = disk
      BY <2>2 DEF disk, Meaning
    <2>3. ASSUME NEW t \in Tool, NEW s \in Schema, registerAuxDataType(t, s)
          PROVE  UNCHANGED <<held, disk, call>>
      BY <2>2, <2>3, HeldByTool DEF registerAuxDataType
    <2>4. ASSUME NEW t \in Tool, NEW s \in Schema, NEW x \in Object[s], addAuxData(t, s, x)
          PROVE  Tables!Next
      <3> DEFINE e == Typed(s, EmptyForm, x)
      <3>1. SchemaName[s] \in Name /\ x \in ValuesOf(TypeName[s])
        BY AuxDataAssumption, ObjectsAreValues
      <3>2. e # Null /\ s # Null
        BY <3>1, NullAssumption
      <3>3. MeaningOf(e) = <<TypeName[s], "value", x>> /\ MeaningOf(e) \in Table
        BY <3>2, TypedFields DEF MeaningOf, AllMeanings, TypedValue
      <3>4. auxDatas' = [auxDatas EXCEPT ![t][SchemaName[s]] = e] /\ file' = file
            /\ call' = <<"put", t, SchemaName[s], MeaningOf(e)>>
        BY <2>4, <3>3 DEF addAuxData, TypedValue
      <3> HIDE DEF e
      <3>5. Put(t, SchemaName[s], MeaningOf(e))
        BY <1>2, <2>2, <3>1, <3>2, <3>4, TableChanged
      <3>6. QED
        BY <2>1, <3>1, <3>3, <3>5
    <2>5. ASSUME NEW t \in Tool, NEW s \in Schema, NEW x \in Object[s], modifyAuxData(t, s, x)
          PROVE  Tables!Next
      <3> DEFINE m == SchemaName[s]
      <3>1. PICK q \in Schema, form \in Forms \cup {EmptyForm} :
                  /\ m \in Name /\ TypeName[q] = TypeName[s]
                  /\ auxDatas' = [auxDatas EXCEPT ![t][m] = Typed(q, form, x)]
        BY <1>2, <2>5, ModifiedEntry
      <3> DEFINE e == Typed(q, form, x)
      <3>2. x \in ValuesOf(TypeName[q])
        BY <3>1, ObjectsAreValues
      <3>3. e # Null /\ q # Null
        BY <3>2, NullAssumption
      <3>4. MeaningOf(e) = <<TypeName[s], "value", x>> /\ MeaningOf(e) \in Table
        BY <3>1, <3>3, TypedFields DEF MeaningOf, AllMeanings, TypedValue
      <3>5. file' = file /\ auxDatas' = [auxDatas EXCEPT ![t][m] = e]
            /\ call' = <<"put", t, m, MeaningOf(e)>>
        BY <2>5, <3>1, <3>4 DEF modifyAuxData, TypedValue
      <3>6. m \in Name
        BY <3>1
      <3> HIDE DEF e, m
      <3>7. Put(t, m, MeaningOf(e))
        BY <1>2, <2>2, <3>3, <3>5, <3>6, TableChanged
      <3>8. QED
        BY <2>1, <3>4, <3>6, <3>7
    <2>6. ASSUME NEW t \in Tool, NEW n \in Name, removeAuxData(t, n)
          PROVE  Tables!Next
      <3>1. file' = file /\ auxDatas' = [auxDatas EXCEPT ![t][n] = Null]
            /\ call' = <<"put", t, n, Null>>
        BY <2>6 DEF removeAuxData
      <3>2. Put(t, n, Null)
        BY <1>2, <2>2, <3>1, TableChanged
      <3>3. QED
        BY <2>1, <3>2
    <2>7. ASSUME NEW t \in Tool, createContainer(t) \/ clearAuxData(t)
          PROVE  Tables!Next
      <3> DEFINE a == [n \in Name |-> Null]
      <3>1. file' = file /\ auxDatas' = [auxDatas EXCEPT ![t] = a] /\ call' = <<"clear", t>>
        BY <2>7 DEF createContainer, clearAuxData
      <3>2. Meanings(a) = [n \in Name |-> Null]
        BY DEF Meanings
      <3>3. held' = [held EXCEPT ![t] = Meanings(a)] /\ disk' = disk
        BY <1>2, <2>2, <3>1, HeldChanged
      <3>4. Tables!Clear(t)
        BY <3>1, <3>2, <3>3 DEF Tables!Clear, held, disk
      <3>5. QED
        BY <3>4 DEF Tables!Next
    <2>8. ASSUME NEW t \in Tool, toProtobuf(t)
          PROVE  Tables!Next
      <3>1. /\ file' = [n \in Name |-> IF auxDatas[t][n] = Null THEN Null
                                       ELSE serialized(auxDatas[t][n])]
            /\ auxDatas' = auxDatas /\ call' = <<"save", t>>
        BY <2>8 DEF toProtobuf
      <3>2. held' = held
        BY <3>1, HeldByTool
      <3>3. ASSUME NEW n \in Name
            PROVE  (IF file'[n] = Null THEN Null ELSE Meaning(file'[n])) = Meanings(auxDatas[t])[n]
        <4> DEFINE e == auxDatas[t][n]
        <4>1. CASE e = Null
          BY <3>1, <4>1 DEF Meanings
        <4>2. CASE e # Null
          <5>1. Entry(e, registry[t][n])
            BY <1>2 DEF AuxInv
          <5>2. serialized(e) \in Forms /\ Meaning(serialized(e)) = MeaningOf(e)
            BY <4>2, <5>1, SavedForm
          <5>3. serialized(e) # Null
            BY <5>2, NullAssumption
          <5>4. file'[n] = serialized(e)
            BY <3>1, <4>2
          <5>5. QED
            BY <4>2, <5>2, <5>3, <5>4 DEF Meanings
        <4>3. QED
          BY <4>1, <4>2
      <3>4. disk' = Meanings(auxDatas[t])
        <4>1. disk' = [n \in Name |-> IF file'[n] = Null THEN Null ELSE Meaning(file'[n])]
          BY DEF disk, Meaning
        <4>2. Meanings(auxDatas[t]) = [n \in Name |-> Meanings(auxDatas[t])[n]]
          BY DEF Meanings
        <4>3. QED
          BY <3>3, <4>1, <4>2
      <3>5. disk' = held[t]
        BY <3>4, HeldByTool
      <3>6. Tables!Save(t)
        BY <3>1, <3>2, <3>5 DEF Tables!Save, held, disk
      <3>7. QED
        BY <3>6 DEF Tables!Next
    <2>9. ASSUME NEW t \in Tool, fromProtobuf(t)
          PROVE  Tables!Next
      <3> DEFINE a == [n \in Name |-> IF file[n] = Null THEN Null ELSE loaded(t, n, file[n])]
      <3>1. file' = file /\ auxDatas' = [auxDatas EXCEPT ![t] = a] /\ call' = <<"load", t>>
        BY <2>9 DEF fromProtobuf
      <3>2. ASSUME NEW n \in Name
            PROVE  Meanings(a)[n] = disk[n]
        <4>1. CASE file[n] = Null
          BY <4>1 DEF Meanings, disk
        <4>2. CASE file[n] # Null
          <5>1. file[n] \in Forms
            BY <1>2, <4>2 DEF AuxInv
          <5>2. a[n] # Null /\ MeaningOf(a[n]) = Meaning(file[n])
            BY <1>2, <4>2, <5>1, LoadedIsEntry
          <5>3. QED
            BY <4>2, <5>2 DEF Meanings, disk
        <4>3. QED
          BY <4>1, <4>2
      <3> HIDE DEF a
      <3>3. Meanings(a) = disk
        BY <3>2 DEF Meanings, disk
      <3>4. held' = [held EXCEPT ![t] = disk] /\ disk' = disk
        BY <1>2, <2>2, <3>1, <3>3, HeldChanged
      <3>5. Tables!Load(t)
        BY <3>1, <3>4 DEF Tables!Load, held, disk
      <3>6. QED
        BY <3>5 DEF Tables!Next
    <2>10. ASSUME UNCHANGED vars
           PROVE  UNCHANGED <<held, disk, call>>
      BY <2>2, <2>10, HeldByTool DEF vars
    <2>11. QED
      BY <1>2, <2>3, <2>4, <2>5, <2>6, <2>7, <2>8, <2>9, <2>10 DEF Next
  <1>3. AuxInv /\ [Next]_vars => [Tables!Next]_<<held, disk, call>>
    BY <1>2
  <1>4. QED
    BY <1>1, <1>3, AuxInvariant, PTL DEF Spec, TablesSurvive, Tables!Spec, held, disk

=============================================================================
