------------------------------- MODULE Config -------------------------------
(***************************************************************************)
(* The configuration of src/config.rs and what AppState::new derives from  *)
(* it.  An endpoint is abstracted to its scheme, "" if the endpoint is     *)
(* empty; settings that validate does not read are left out.               *)
(***************************************************************************)
EXTENDS Integers, Sequences

CONSTANT Configs  \* the configurations the gateway may be started with

(* What deserialization makes of the file and the environment. *)
IsConfig(c) ==
  /\ c.providers \in Seq([name : STRING, scheme : STRING, timeout : Nat])
  /\ c.credentials \in Seq([key : STRING, client_id : STRING])
  /\ c.rpm \in Nat /\ c.tpm \in Nat

ASSUME ConfigAssumption == \A c \in Configs : IsConfig(c)

ProviderIsValid(p) ==
  p.name # "" /\ p.scheme \in {"http", "https"} /\ p.timeout > 0

CredentialIsValid(credential) == credential.key # "" /\ credential.client_id # ""

IsValidWithoutRpm(c) ==  \* mutant: a limit of zero is let through
  /\ c.providers # <<>>
  /\ \A i \in DOMAIN c.providers : ProviderIsValid(c.providers[i])
  /\ \A i \in DOMAIN c.credentials : CredentialIsValid(c.credentials[i])
  /\ c.tpm > 0

(* validate; that nobody has a credential is only warned of. *)
IsValid(c) ==
  /\ c.providers # <<>>
  /\ \A i \in DOMAIN c.providers : ProviderIsValid(c.providers[i])
  /\ \A i \in DOMAIN c.credentials : CredentialIsValid(c.credentials[i])
  /\ c.rpm > 0
  /\ c.tpm > 0

(* The map from keys to clients: of two credentials with one key the later *)
(* one is kept, and a client may have several keys.                        *)
Keys(c) == {c.credentials[i].key : i \in DOMAIN c.credentials}

ClientOf(c, key) ==
  LET holds(i) == c.credentials[i].key = key
      last == CHOOSE i \in DOMAIN c.credentials :
                holds(i) /\ \A j \in DOMAIN c.credentials : holds(j) => j <= i
  IN  c.credentials[last].client_id

ClientsOf(c) == {ClientOf(c, key) : key \in Keys(c)}
=============================================================================
