------------------------------ MODULE MCAccess ------------------------------
(* Two forms and two submissions, one token minted once, one call at a time. *)
EXTENDS Access

CONSTANTS f1, f2, s1, s2

MCFormOf == s1 :> f1 @@ s2 :> f2

Marker == <<"<", "|", "a", "|", ">">>

MCTyped ==
    s1 :> [fields  |-> <<"a">> :> <<"a", "nl">> \o Marker \o <<"a">> @@ <<"a", "bel">> :> <<"a">>,
           ip      |-> <<"address", "sp", "a">>,
           signals |-> {[check |-> "repeat_ip", field |-> <<>>, match |-> <<"address", "sp", "a">>],
                        [check |-> "url_in_name", field |-> <<"a", "bel">>, match |-> Marker]}]
 @@ s2 :> [fields  |-> <<"a">> :> <<"a">>,
           ip      |-> AddressPort,
           signals |-> {[check |-> "repeat_ip", field |-> <<>>, match |-> Address],
                        [check |-> "block_rule", field |-> <<>>, match |-> Network]}]

Pieces == {<<"<", "|">>, <<"a">>, <<"|", ">">>, Marker, <<"nl">>, <<"esc">>, <<"bel">>,
           <<"L">>, <<"K">>, <<"[">>, <<"]">>}

\* A cidr rule, and a keyword that happens to be an address.
MCRules == {[type |-> "cidr", value |-> Network], [type |-> "keyword", value |-> Address]}

MCTexts == {FlattenSeq(s) : s \in UNION {[1..n -> Pieces] : n \in 0..4}}
=============================================================================
