---------------------------- MODULE BindConfig ----------------------------
(***************************************************************************)
(* loadConfig as far as it decides where the service listens and whether   *)
(* it does so in plain HTTP.  Source: cmd/phnctl/main.go.                  *)
(*                                                                         *)
(* Of the host of PHNCTL_BIND only its kind matters: none at all, an       *)
(* address that is unspecified, loopback or another, or a name, which      *)
(* net.ParseIP does not take for an address.                               *)
(***************************************************************************)

Hosts == {"malformed", "empty", "unspecified", "loopback", "address", "name"}
Switches == {"unset", "true", "false", "malformed"}

Environment ==
    [bind : Hosts \cup {"unset"}, insecureHTTP : Switches, allowAll : Switches,
     tlsCert : BOOLEAN, tlsKey : BOOLEAN, secret : {"missing", "malformed", "short", "good"},
     seconds : {"unset", "malformed", "0", "1", "30", "31"}]

\* envOr: the default of PHNCTL_BIND is an address of the local network.
Host(env) == IF env.bind = "unset" THEN "address" ELSE env.bind

\* envBool with the default of both switches, where it gives no error.
On(switch) == switch = "true"

IsIP(host) == host \in {"unspecified", "loopback", "address"}

EverywhereUnasked(env) == Host(env) \in {"empty", "unspecified"} /\ ~On(env.allowAll)

\* Mutant: only an address can be refused plain HTTP.
PlainAbroadIfIP(env) == On(env.insecureHTTP) /\ IsIP(Host(env)) /\ Host(env) # "loopback"

PlainAbroad(env) == On(env.insecureHTTP) /\ (~IsIP(Host(env)) \/ Host(env) # "loopback")

\* loadConfig gives no error.  The credentials, which it reads between the
\* certificates and the secret, are in Setup.
Loads(env) ==
    /\ "malformed" \notin {env.insecureHTTP, env.allowAll, Host(env)}
    /\ ~EverywhereUnasked(env)
    /\ ~PlainAbroad(env)
    /\ On(env.insecureHTTP) \/ (env.tlsCert /\ env.tlsKey)
    /\ env.secret = "good"
    /\ env.seconds \in {"unset", "1", "30"}

\* Where a listener on the host is reached from.  A name is that of one of
\* the machine's addresses.
Reach(host) ==
    CASE host \in {"empty", "unspecified"} -> "everywhere"
      [] host = "loopback" -> "machine"
      [] OTHER -> "network"

\* However the settings are combined, the service listens on all interfaces
\* only if that was asked for, and beyond the machine only under TLS
\* (loadConfig, and serve, which takes TLS unless insecureHTTP).
ExposedOnlyAsAsked(env) ==
    LET reach == Reach(Host(env)) IN
    Loads(env) =>
      /\ reach = "everywhere" => env.allowAll = "true"
      /\ reach # "machine" => env.insecureHTTP # "true" /\ env.tlsCert /\ env.tlsKey
=============================================================================
