---------------------------- MODULE MCVirtualHosts ----------------------------
(* Every option of a route alone and with every other one, and with two access      *)
(* rules, on an agent with and                                                     *)
(* without a certificate and an htpasswd file, with a new and an old nginx.        *)
EXTENDS VirtualHosts

Settings == [sslmode |-> "on", websocket |-> FALSE, addrPort |-> 0] @@ RouteTo("app", "backend")
Options ==
    {[websocket |-> TRUE], [force |-> TRUE], [size |-> <<"bytes", 10, "m">>], [size |-> <<"unlimited">>],
     [reqh |-> ("X-Env" :> "prod")], [reqh |-> ("Upgrade" :> "h2c")], [reqh |-> ("X-Env:" :> "prod")],
     [resph |-> ("X-Frame" :> "deny")], [strip |-> "api"], [rewrite |-> "new"],
     [read |-> 30], [write |-> 20], [idle |-> 90], [auth |-> "basic"], [auth |-> "empty"],
     [allow |-> <<"lan">>], [block |-> <<"bots">>], [allow |-> <<"lan", "vpn">>],
     [rate |-> 30], [rate |-> 300], [rate |-> -30], [tls |-> ""], [tls |-> "self-acme"], [wildcard |-> TRUE],
     [sslmode |-> "off", tls |-> ""], [scheme |-> "https"], [scheme |-> "ftp"], [port |-> 0],
     [port |-> 0, addrPort |-> 9000], [raw |-> "nginx"], [raw |-> "apache"]}
AccessOptions == {[allow |-> <<"lan">>], [block |-> <<"bots">>], [auth |-> "basic"], [auth |-> "empty"]}
MCRanges == [lan |-> {"c1", "c2"}, vpn |-> {"c4"}, bots |-> {"c2", "c3"}]
MCSlugs == [app |-> "app"]
MCDomains ==
    {a @@ b @@ Settings : a \in Options, b \in Options} \cup {Settings}
    \cup {a @@ b @@ c @@ Settings : a \in Options, b \in AccessOptions, c \in AccessOptions}
MCFacts == {<<"crt", "key", "htpasswd">>, <<"", "", "">>, <<"crt", "key", "">>}
MCInputs ==
    {[domain |-> d, cert |-> f[1], key |-> f[2], auth |-> IF d.auth = "basic" THEN f[3] ELSE "", http2on |-> new,
      content |-> NoConfig] : d \in MCDomains, f \in MCFacts, new \in BOOLEAN}
===============================================================================
