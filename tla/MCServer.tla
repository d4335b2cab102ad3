------------------------------ MODULE MCServer ------------------------------
(* Server for TLC: a valid configuration in which one client has two keys  *)
(* and a key is given twice, and one configuration for each reason there   *)
(* is to refuse one.                                                       *)
EXTENDS Server

Provider == [name |-> "primary", scheme |-> "http", timeout |-> 30]
Credential(key, client) == [key |-> key, client_id |-> client]

Valid ==
  [ providers |-> <<Provider>>,
    credentials |-> <<Credential("a1", "bob"), Credential("a2", "alice"),
                      Credential("b", "bob"), Credential("a1", "alice")>>,
    rpm |-> 1, tpm |-> 2 ]

SomeConfigs ==
  { Valid,
    [Valid EXCEPT !.rpm = 0],
    [Valid EXCEPT !.tpm = 0],
    [Valid EXCEPT !.providers = <<>>],
    [Valid EXCEPT !.providers = <<Provider, [Provider EXCEPT !.name = ""]>>],
    [Valid EXCEPT !.providers = <<[Provider EXCEPT !.scheme = ""]>>],
    [Valid EXCEPT !.providers = <<[Provider EXCEPT !.scheme = "ftp"]>>],
    [Valid EXCEPT !.providers = <<[Provider EXCEPT !.timeout = 0]>>],
    [Valid EXCEPT !.credentials = <<Credential("", "alice")>>],
    [Valid EXCEPT !.credentials = <<Credential("a1", "")>>],
    [Valid EXCEPT !.credentials = <<>>] }

Api(key, body, cost) == [route |-> "api", key |-> key, body |-> body, cost |-> cost]

SomeKinds ==
  { Api("a1", "valid", 2), Api("b", "valid", 1),
    Api("a2", "malformed", 1), Api("b", "oversized", 1), Api("unknown", "valid", 1),
    [route |-> "public", key |-> "", body |-> "valid", cost |-> 0] }
=============================================================================
