----------------------------- MODULE MCAuxData -----------------------------
(* AuxData with the serialisation of AuxCodec.  Under one name there are a
   schema with a nested type, one with another C++ type of the same type name,
   and one with another type name. *)
EXTENDS AuxData, AuxCodec

CONSTANTS A, Map, UnorderedMap, Tuple, Choice,
          MCSchema    \* the schemata tools use

Fixed(n)    == [kind |-> "fixed", width |-> n]
ListOf(k, T) == [kind |-> k, of |-> T]

MCDesc ==
    [T \in {"uint8_t", "uint16_t", "sequence<uint8_t>", "set<uint16_t>",
            "variant<uint16_t,tuple<uint8_t>>", "tuple<uint8_t>",
            "mapping<uint8_t,sequence<uint8_t>>", "tuple<uint8_t,sequence<uint8_t>>",
            "tuple<set<uint16_t>,variant<uint16_t,tuple<uint8_t>>>",
            "variant<uint16_t,tuple<uint8_t>,tuple<uint8_t>>"} |->
       CASE T = "uint8_t"  -> Fixed(1)
         [] T = "uint16_t" -> Fixed(2)
         [] T = "sequence<uint8_t>" -> ListOf("sequence", "uint8_t")
         [] T = "set<uint16_t>" -> ListOf("set", "uint16_t")
         [] T = "tuple<uint8_t>" -> ListOf("tuple", <<"uint8_t">>)
         [] T = "variant<uint16_t,tuple<uint8_t>>" ->
                ListOf("variant", <<"uint16_t", "tuple<uint8_t>">>)
         [] T = "mapping<uint8_t,sequence<uint8_t>>" ->
                [kind |-> "mapping", entry |-> "tuple<uint8_t,sequence<uint8_t>>"]
         [] T = "tuple<uint8_t,sequence<uint8_t>>" ->
                ListOf("tuple", <<"uint8_t", "sequence<uint8_t>">>)
         [] T = "tuple<set<uint16_t>,variant<uint16_t,tuple<uint8_t>>>" ->
                ListOf("tuple", <<"set<uint16_t>", "variant<uint16_t,tuple<uint8_t>>">>)
         [] T = "variant<uint16_t,tuple<uint8_t>,tuple<uint8_t>>" ->
                ListOf("variant", <<"uint16_t", "tuple<uint8_t>", "tuple<uint8_t>">>)]

MCTypeName == [s \in MCSchema |->
    CASE s \in {Map, UnorderedMap} -> "mapping<uint8_t,sequence<uint8_t>>"
      [] s = Tuple  -> "tuple<set<uint16_t>,variant<uint16_t,tuple<uint8_t>>>"
      [] s = Choice -> "variant<uint16_t,tuple<uint8_t>,tuple<uint8_t>>"]

MCApiTypeId == [s \in MCSchema |->
    CASE s = Map -> 1 [] s = UnorderedMap -> 2 [] s = Tuple -> 3 [] s = Choice -> 4]

MCSchemaName == [s \in MCSchema |-> A]

MCObject == [s \in MCSchema |->
    CASE s \in {Map, UnorderedMap} ->
           {(0 :> <<>>), (3 :> <<1, 2>>) @@ (1 :> <<3>>)}
      [] s = Tuple  -> {<<{}, <<1, <<2>>>>>>, <<{1, 6}, <<0, 7>>>>}
      [] s = Choice -> {<<0, 5>>, <<1, <<0>>>>, <<2, <<0>>>>}]

(* One form with too few bytes, one with an entry twice and a byte too many. *)
MCForeign ==
    {[type |-> MCTypeName[Map], bytes |-> <<2, 0, 1>>],
     [type |-> MCTypeName[Map], bytes |-> <<2, 0, 1, 1, 0, 2, 1, 0, 0, 3>>]}
=============================================================================
