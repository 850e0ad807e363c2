------------------------------ MODULE HomeFiles ------------------------------
(***************************************************************************)
(* The files at the top of an ATI directory: the configuration and the     *)
(* signing keys that `ati init` writes (cli/init.rs), and the credentials  *)
(* that `ati key` edits (cli/keys.rs).                                     *)
(***************************************************************************)
EXTENDS ProviderFiles

Config == <<"file", "config">>
PrivateKey == <<"file", "private">>
PublicKey == <<"file", "public">>
Credentials == <<"file", "credentials">>
TopFiles == {Config, PrivateKey, PublicKey, Credentials}

ConfigText(algorithm, pair) == [is |-> "config", algorithm |-> algorithm, pair |-> pair]
Pem(pair) == [is |-> "pem", pair |-> pair]
Keys(names) == [is |-> "keys", names |-> names]
NoPair == 0

\* ES256 names the two PEM files; HS256 has the secret in the configuration itself.
InitDirectory(proxy, es256, pair) ==
    CASE proxy /\ es256 -> Write(PrivateKey, Pem(pair)) \o Write(PublicKey, Pem(pair))
                           \o Write(Config, ConfigText("ES256", NoPair))
      [] proxy /\ ~es256 -> Write(Config, ConfigText("HS256", pair))
      [] OTHER          -> <<Op("default", Config, NoData)>>

\* No credentials file reads as no keys; one that does not parse is an error of every command.
LoadCredentials(d) == IF Exists(d, Credentials) THEN d[Credentials].names ELSE {}
CredentialsLoad(d) == Exists(d, Credentials) => d[Credentials].is = "keys"

SetKey(k) == <<Op("set key", Credentials, k)>>
RemoveKey(k) == <<Op("remove key", Credentials, k)>>

HomeProgram(c, pair) ==
    CASE c.do = "init"       -> InitDirectory(c.with.proxy, c.with.es256, pair)
      [] c.do = "key set"    -> SetKey(c.on)
      [] c.do = "key remove" -> RemoveKey(c.on)

HomeResults(op, d) ==
    CASE op.do = "default" ->
             {Go(d, IF Exists(d, Config) THEN <<>> ELSE Write(Config, ConfigText("none", NoPair)))}
      [] op.do = "set key" ->
             {IF CredentialsLoad(d)
              THEN Go(d, Write(Credentials, Keys(LoadCredentials(d) \cup {op.with}))) ELSE Fails(d)}
      [] op.do = "remove key" ->
             {IF CredentialsLoad(d) /\ op.with \in LoadCredentials(d)
              THEN Go(d, Write(Credentials, Keys(LoadCredentials(d) \ {op.with}))) ELSE Fails(d)}
=============================================================================
