----------------------------- MODULE MCRequests ------------------------------
(***************************************************************************)
(* An instance of Requests for TLC: a few requests of each front end.      *)
(***************************************************************************)
EXTENDS Requests

get(from, names) ==
    [from |-> from, op |-> "get",
     items |-> [k \in DOMAIN names |-> [name |-> names[k], value |-> Null]]]
set(from, items) == [from |-> from, op |-> "set", items |-> items]
to(n, v) == [name |-> n, value |-> v]

SomeAsk ==
    {set("webpa", <<to("Feature", "v2"), to("Airplay", "v2"), to("Reboot", "v1")>>),
     set("webpa", <<to("Reboot", "v1"), to("PartnerName", Null)>>),
     set("webpa", <<to("PartnerId", "v2"), to("DNSText", Null)>>),
     set("webpa", <<to("PartnerId", Misfit)>>),
     get("webpa", <<"Wildcard">>),
     get("webpa", <<"Feature", "Profiles">>),
     set("rfc", <<to("Feature", "v1"), to("MacAddress", "v1")>>),
     set("rfc", <<to("Hdr", "v2")>>),
     set("tool", <<to("RFC_Url", "v1"), to("DNSText", "v2")>>),
     set("tool", <<to("Profiles", "v2")>>),
     get("tool", <<"Feature", "DNSText">>),
     get("json", <<"Docsis", "Feature">>),
     set("iarm", <<to("DNSText", "v2")>>),
     set("iarm", <<to("Feature", "v1")>>),
     get("iarm", <<"PartnerId">>),
     get("rbus", <<"Airplay">>)}
=============================================================================
