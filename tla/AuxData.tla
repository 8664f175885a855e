------------------------------- MODULE AuxData -------------------------------
(***************************************************************************)
(* Auxiliary data of IRs and modules (AuxDataContainer), and the file by   *)
(* which tools exchange it.  A tool registers schemata, each a name with a *)
(* C++ type, before it makes its first container.  When a container is     *)
(* loaded, an entry becomes a typed object if a schema is registered for   *)
(* its name, the stored type name is that of the schema and its bytes can  *)
(* be read as that type; otherwise it is kept as raw bytes.  Several C++   *)
(* types share one type name (std::map and std::unordered_map).            *)
(*                                                                         *)
(* Each tool has one container.  The assertions on registration are taken  *)
(* as the contract of the tools.                                           *)
(***************************************************************************)
EXTENDS Naturals, Sequences

CONSTANTS Tool,
          Name,
          Null,
          Schema,
          SchemaName,      \* Schema::Name
          ApiTypeId,       \* typeid(Schema::Type).hash_code()
          TypeName,        \* auxdata_traits<Schema::Type>::type_name()
          Object,          \* the objects tools put under a schema
          Encode(_, _),    \* auxdata_traits<T>::toBytes
          Decode(_, _),    \* auxdata_traits<T>::fromBytes, the set of at most one reading
          Foreign          \* serialized forms other producers put into a file

UNREGISTERED_API_TYPE_ID == 0

ASSUME AuxDataAssumption ==
    /\ SchemaName \in [Schema -> Name]
    /\ ApiTypeId \in [Schema -> Nat \ {UNREGISTERED_API_TYPE_ID}]
    /\ \A r, s \in Schema : ApiTypeId[r] = ApiTypeId[s] => TypeName[r] = TypeName[s]

VARIABLES registry,   \* TypeMap.Map of each tool
          locked,     \* TypeMap.Locked of each tool
          auxDatas,   \* AuxDatas of each tool's container
          file,       \* the aux_data of the message in the file
          call        \* a history variable: the last call that sets, empties,
                      \* saves or loads tables

vars == <<registry, locked, auxDatas, file, call>>

-----------------------------------------------------------------------------

EmptyForm == [type |-> Null, bytes |-> <<>>]

(* An AuxData, and an AuxDataImpl<Schema>. *)
Raw(form)             == [schema |-> Null, raw |-> form, object |-> Null]
Typed(s, form, x)     == [schema |-> s, raw |-> form, object |-> x]

(* What an object under a schema is to every tool: a value with a portable
   type. *)
TypedValue(s, x) == <<TypeName[s], "value", x>>

getApiTypeId(e) == IF e.schema = Null THEN UNREGISTERED_API_TYPE_ID ELSE ApiTypeId[e.schema]

checkAuxDataRegistration(t, s) ==
    LET r == registry[t][SchemaName[s]] IN r # Null /\ ApiTypeId[r] = ApiTypeId[s]

(* Mutant: a later registration replaces the one there is, at any time. *)
registerAuxDataTypeAgain(t, s) ==
    /\ registry' = [registry EXCEPT ![t][SchemaName[s]] = s]
    /\ UNCHANGED <<locked, auxDatas, file, call>>

(* Registering the same type again returns without effect. *)
registerAuxDataType(t, s) ==
    /\ ~locked[t]
    /\ registry[t][SchemaName[s]] = Null
    /\ registry' = [registry EXCEPT ![t][SchemaName[s]] = s]
    /\ UNCHANGED <<locked, auxDatas, file, call>>

(* The constructor of a container locks the registry. *)
createContainer(t) ==
    /\ locked' = [locked EXCEPT ![t] = TRUE]
    /\ auxDatas' = [auxDatas EXCEPT ![t] = [n \in Name |-> Null]]
    /\ call' = <<"clear", t>>
    /\ UNCHANGED <<registry, file>>

addAuxData(t, s, x) ==
    /\ locked[t]
    /\ checkAuxDataRegistration(t, s)
    /\ auxDatas' = [auxDatas EXCEPT ![t][SchemaName[s]] = Typed(s, EmptyForm, x)]
    /\ call' = <<"put", t, SchemaName[s], TypedValue(s, x)>>
    /\ UNCHANGED <<registry, locked, file>>

(* getAuxData yields a pointer to the object, Null without one. *)
getAuxData(t, s) ==
    LET e == auxDatas[t][SchemaName[s]]
    IN  IF e = Null \/ getApiTypeId(e) # ApiTypeId[s] THEN Null ELSE e.object

(* A tool changes an object through the pointer; the raw form stays. *)
modifyAuxData(t, s, x) ==
    /\ checkAuxDataRegistration(t, s)
    /\ getAuxData(t, s) # Null
    /\ auxDatas' = [auxDatas EXCEPT ![t][SchemaName[s]].object = x]
    /\ call' = <<"put", t, SchemaName[s], TypedValue(s, x)>>
    /\ UNCHANGED <<registry, locked, file>>

removeAuxData(t, n) ==
    /\ auxDatas[t][n] # Null
    /\ auxDatas' = [auxDatas EXCEPT ![t][n] = Null]
    /\ call' = <<"put", t, n, Null>>
    /\ UNCHANGED <<registry, locked, file>>

clearAuxData(t) ==
    /\ auxDatas' = [auxDatas EXCEPT ![t] = [n \in Name |-> Null]]
    /\ call' = <<"clear", t>>
    /\ UNCHANGED <<registry, locked, file>>

-----------------------------------------------------------------------------


(* AuxData::toProtobuf writes the raw form, AuxDataImpl::toProtobuf the object. *)
serialized(e) ==
    IF e.schema = Null THEN e.raw
    ELSE [type |-> TypeName[e.schema], bytes |-> Encode(TypeName[e.schema], e.object)]

(* Mutant: bytes behind the value make it unreadable. *)
unserializedToTheEnd(s, form) ==
    LET readings == {r \in Decode(TypeName[s], form.bytes) : form.type = TypeName[s] /\ r.rest = <<>>}
    IN  IF readings = {} THEN Null ELSE Typed(s, form, (CHOOSE r \in readings : TRUE).value)

(* AuxDataImpl<Schema>::fromProtobuf, Null if the type is another or the bytes
   cannot be read. *)
unserialized(s, form) ==
    LET readings == {r \in Decode(TypeName[s], form.bytes) : form.type = TypeName[s]}
    IN  IF readings = {} THEN Null ELSE Typed(s, form, (CHOOSE r \in readings : TRUE).value)

(* Mutant: a table that cannot be read as the registered type is dropped. *)
loadedIfReadable(t, n, form) ==
    IF registry[t][n] = Null THEN Raw(form) ELSE unserialized(registry[t][n], form)

(* The entry that is made of a form in the file. *)
loaded(t, n, form) ==
    LET e == IF registry[t][n] = Null THEN Null ELSE unserialized(registry[t][n], form)
    IN  IF e = Null THEN Raw(form) ELSE e

toProtobuf(t) ==
    /\ locked[t]
    /\ file' = [n \in Name |-> IF auxDatas[t][n] = Null THEN Null ELSE serialized(auxDatas[t][n])]
    /\ call' = <<"save", t>>
    /\ UNCHANGED <<registry, locked, auxDatas>>

fromProtobuf(t) ==
    /\ locked[t]
    /\ auxDatas' = [auxDatas EXCEPT ![t] =
            [n \in Name |-> IF file[n] = Null THEN Null ELSE loaded(t, n, file[n])]]
    /\ call' = <<"load", t>>
    /\ UNCHANGED <<registry, locked, file>>

-----------------------------------------------------------------------------

Init ==
    /\ registry = [t \in Tool |-> [n \in Name |-> Null]]
    /\ locked = [t \in Tool |-> FALSE]
    /\ auxDatas = [t \in Tool |-> [n \in Name |-> Null]]
    /\ file \in [Name -> Foreign \cup {Null}]
    /\ call = <<>>

Next ==
    \E t \in Tool :
        \/ \E s \in Schema :
              \/ registerAuxDataType(t, s)
              \/ \E x \in Object[s] : addAuxData(t, s, x) \/ modifyAuxData(t, s, x)
        \/ createContainer(t)
        \/ \E n \in Name : removeAuxData(t, n)
        \/ clearAuxData(t) \/ toProtobuf(t) \/ fromProtobuf(t)

Spec == Init /\ [][Next]_vars

-----------------------------------------------------------------------------

(* A typed entry is of the type that is registered for its name now, so the cast
   in getAuxData is to the type of the object; an entry is typed or has a form. *)
TypeOK ==
    /\ registry \in [Tool -> [Name -> Schema \cup {Null}]]
    /\ locked \in [Tool -> BOOLEAN]
    /\ \A t \in Tool, n \in Name :
          LET e == auxDatas[t][n]
          IN  e # Null => IF e.schema = Null THEN e.raw # EmptyForm
                          ELSE SchemaName[e.schema] = n /\ checkAuxDataRegistration(t, e.schema)

(* What a serialized form stands for: a value of a type, or bytes that are no
   value of it. *)
Meaning(form) ==
    LET readings == Decode(form.type, form.bytes)
    IN  IF readings = {} THEN <<form.type, "bytes", form.bytes>>
        ELSE <<form.type, "value", (CHOOSE r \in readings : TRUE).value>>

MeaningOf(e) ==
    IF e.schema = Null THEN Meaning(e.raw) ELSE TypedValue(e.schema, e.object)

MeaningsOf(t) == [n \in Name |-> IF auxDatas[t][n] = Null THEN Null ELSE MeaningOf(auxDatas[t][n])]

AllMeanings ==
    (UNION {{TypedValue(s, x) : x \in Object[s]} : s \in Schema})
       \cup {Meaning(form) : form \in Foreign}

(* The values of a type that tools put into containers or read from the files
   of other producers, and the forms a file may hold. *)
ValuesOf(T) ==
    (UNION {Object[s] : s \in {r \in Schema : TypeName[r] = T}})
       \cup {r.value : r \in UNION {Decode(T, f.bytes) : f \in {g \in Foreign : g.type = T}}}

FormOf(T, x) == [type |-> T, bytes |-> Encode(T, x)]

Forms == Foreign \cup UNION {{FormOf(TypeName[s], x) : x \in ValuesOf(TypeName[s])} : s \in Schema}

(* Null is nothing else. *)
ASSUME NullAssumption ==
    /\ Null \notin Schema
    /\ \A form \in Forms :
          /\ Null # form /\ Null # form.type
          /\ Null # Raw(form) /\ Null # Meaning(form)
    /\ \A s \in Schema : \A x \in ValuesOf(TypeName[s]) :
          /\ Null # x /\ Null # TypedValue(s, x)
          /\ \A form \in Forms \cup {EmptyForm} : Null # Typed(s, form, x)

(* Writing a value and reading it again yields the value and leaves no bytes
   behind. *)
CodecFaithful ==
    \A s \in Schema : \A x \in ValuesOf(TypeName[s]) :
        Decode(TypeName[s], Encode(TypeName[s], x)) = {[value |-> x, rest |-> <<>>]}

Tables == INSTANCE AuxTables
    WITH None <- Null, Table <- AllMeanings,
         held <- [t \in Tool |-> MeaningsOf(t)],
         disk <- [n \in Name |-> IF file[n] = Null THEN Null ELSE Meaning(file[n])]

(* Tables pass through files and tools unharmed.  A load gives a tool exactly
   the types and values in the file, and a save puts exactly those of the tool
   there, whether the tool registered the type of a table, another type of that
   name, or nothing; what a tool sets is what it and the others then find. *)
TablesSurvive == Tables!Spec

(* getAuxData finds a table exactly if its portable type is the one registered
   and its bytes are a value of it, whichever tool wrote it and with which C++
   type, and then yields that value. *)
TypedAccess ==
    \A t \in Tool, n \in Name :
        LET s == registry[t][n]
            m == MeaningsOf(t)[n]
        IN  s # Null => getAuxData(t, s) =
                IF m = Null \/ m[1] # TypeName[s] \/ m[2] = "bytes" THEN Null ELSE m[3]

(* AuxData.hpp: "AuxData is serialized by packing the contents into a byte
   array, which is stored in a protobuf message along with a string which
   identifies the type in a portable fashion."  Every object can be read back
   from its bytes and from nothing less. *)
ObjectsReadBack ==
    \A t \in Tool, n \in Name :
        LET e == auxDatas[t][n]
            T == TypeName[e.schema]
            b == Encode(T, e.object)
        IN  e # Null /\ e.schema # Null =>
               /\ Decode(T, b) = {[value |-> e.object, rest |-> <<>>]}
               /\ \A k \in 0 .. Len(b) - 1 : Decode(T, SubSeq(b, 1, k)) = {}
=============================================================================
