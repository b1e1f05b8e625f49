------------------------------ MODULE NginxVhost ------------------------------
(***************************************************************************)
(* nginx virtual hosts: what the renderer writes for a route (nginxgen),     *)
(* what the root helper's policy admits (nginxparse/policy.go) and the mask,  *)
(* the route read back from a configuration (nginxparse/parse.go).            *)
(*                                                                          *)
(* A configuration is a sequence of statements, what nginx's tokenizer gives: *)
(* a directive is its name and its arguments, a block its directives and the  *)
(* blocks in it.  A value the checks of a route refuse (a header name with a   *)
(* colon, a path with a quote, ...) is a member of Malformed.                  *)
(***************************************************************************)
EXTENDS Integers, Sequences, FiniteSets, SequencesExt

CONSTANTS
    Malformed,   \* values the checks of a route refuse
    Slugs        \* the name of a host in letters, digits and single underscores

slugify(fqdn) == Slugs[fqdn]

NoPath == ""
NoSize == <<"none">>
Given(cond, seq) == IF cond THEN seq ELSE << >>
Each(seq, Of(_)) == [i \in DOMAIN seq |-> Of(seq[i])]
Directive(name, args) == <<name, args>>
Named(block, name) == {i \in DOMAIN block.directives : block.directives[i][1] = name}

\* The intent of a route: every option off.  Rates are per minute, a strip prefix and a
\* rewrite are one path segment, headers a function from names to values; basic auth is
\* "none", "basic", or "empty" with no user name or no password hash.
RouteTo(fqdn, addr) ==
    [host |-> fqdn, addr |-> addr, port |-> 8080, scheme |-> "", ws |-> FALSE, force |-> FALSE,
     size |-> NoSize, reqh |-> << >>, resph |-> << >>, strip |-> NoPath, rewrite |-> NoPath,
     read |-> 0, write |-> 0, idle |-> 0, auth |-> "none", allow |-> << >>, block |-> << >>,
     rate |-> 0, tls |-> "central", wildcard |-> FALSE, raw |-> ""]
EffectiveScheme(r) == IF r.scheme = "" THEN "http" ELSE r.scheme

WellFormedHeaders(h) == \A name \in DOMAIN h : {name, h[name]} \cap Malformed = {}
ValidateOptions(r) ==
    /\ WellFormedHeaders(r.reqh) /\ WellFormedHeaders(r.resph)
    /\ r.size # <<"malformed">>
    /\ {r.strip, r.rewrite} \cap Malformed = {}
    /\ (ToSet(r.allow) \cup ToSet(r.block)) \cap Malformed = {}
Validate(r) ==
    \/ r.raw # ""
    \/ /\ r.port \in 1..65535
       /\ EffectiveScheme(r) \in {"http", "https"}
       /\ r.rate >= 0 /\ r.auth # "empty"
       /\ {r.host, r.addr} \cap ({""} \cup Malformed) = {}
       /\ ValidateOptions(r)
-----------------------------------------------------------------------------
(* The renderer.  Its input is the route and the files the agent prepared. *)

\* The listener with TLS needs the certificate and its key, and only under central policy.
TLSEnabled(in) == in.route.tls = "central" /\ in.cert # NoPath /\ in.key # NoPath
TLSWarnings(in) ==
    IF TLSEnabled(in) THEN IF in.route.wildcard THEN {"tls_wildcard"} ELSE {}
    ELSE IF in.route.tls = "off" THEN {} ELSE {"tls"}
AuthWarnings(in) == IF in.route.auth # "none" /\ in.auth = NoPath THEN {"basic_auth"} ELSE {}
ForceWarnings(in) == IF in.route.force /\ ~TLSEnabled(in) THEN {"force_https"} ELSE {}

Listeners(words) == <<Directive("listen", <<words[1]>> \o Tail(words)),
                      Directive("listen", <<"[::]:" \o words[1]>> \o Tail(words))>>
MainListeners(in) ==
    IF ~TLSEnabled(in) THEN Listeners(<<"80">>)
    ELSE IF in.http2on THEN Listeners(<<"443", "ssl">>) \o <<Directive("http2", "on")>>
    ELSE Listeners(<<"443", "ssl", "http2">>)

zoneName(r) == <<"nurproxy", slugify(r.host)>>
formatRate(rate) == IF rate >= 60 THEN <<rate \div 60, "r/s">> ELSE <<rate, "r/m">>
rateBurst(rate) == IF rate < 60 THEN 1 ELSE rate \div 60
BodySize(size) == IF size = <<"unlimited">> THEN <<0, "">> ELSE Tail(size)

\* The allow list before the block list: a blocked client of an allowed range passes.
MutAccessLines(r) ==
    Given(r.allow # << >>, Each(r.allow, LAMBDA range : Directive("allow", range)))
        \o Each(r.block, LAMBDA range : Directive("deny", range))
        \o Given(r.allow # << >>, <<Directive("deny", "all")>>)
\* The first rule that matches a client counts.
AccessLines(r) ==
    Each(r.block, LAMBDA range : Directive("deny", range))
        \o Given(r.allow # << >>, Each(r.allow, LAMBDA range : Directive("allow", range))
                                      \o <<Directive("deny", "all")>>)
HeaderLines(directive, h) ==
    Each(SetToSeq(DOMAIN h), LAMBDA name : Directive(directive, <<name, h[name]>>))
StandardHeaders == <<<<"Host", "$host">>, <<"X-Real-IP", "$remote_addr">>,
    <<"X-Forwarded-For", "$proxy_add_x_forwarded_for">>, <<"X-Forwarded-Proto", "$scheme">>>>
WebSocketHeaders == <<<<"Upgrade", "$http_upgrade">>, <<"Connection", "upgrade">>>>

LocationLines(r) ==
    Given(r.strip # NoPath, <<Directive("rewrite", <<"strip", r.strip>>)>>)
    \o Given(r.rewrite # NoPath, <<Directive("rewrite", <<"replace", r.rewrite>>)>>)
    \o <<Directive("proxy_pass", [scheme |-> EffectiveScheme(r), addr |-> r.addr, port |-> r.port])>>
    \o Each(StandardHeaders, LAMBDA h : Directive("proxy_set_header", h))
    \o Given(r.ws, <<Directive("proxy_http_version", "1.1")>>
                       \o Each(WebSocketHeaders, LAMBDA h : Directive("proxy_set_header", h)))
    \o HeaderLines("proxy_set_header", r.reqh)
    \o Given(r.write > 0, <<Directive("proxy_connect_timeout", <<r.write, "s">>), Directive("proxy_send_timeout", <<r.write, "s">>)>>)
    \o Given(r.read > 0, <<Directive("proxy_read_timeout", <<r.read, "s">>)>>)

ServerLines(in) ==
    LET r == in.route IN
    MainListeners(in) \o <<Directive("server_name", r.host)>>
    \o Given(TLSEnabled(in), <<Directive("ssl_certificate", in.cert), Directive("ssl_certificate_key", in.key)>>)
    \o Given(r.size # NoSize, <<Directive("client_max_body_size", BodySize(r.size))>>)
    \o AccessLines(r)
    \o Given(r.auth # "none" /\ in.auth # NoPath, <<Directive("auth_basic", r.host), Directive("auth_basic_user_file", in.auth)>>)
    \o Given(r.rate > 0, <<Directive("limit_req", <<zoneName(r), rateBurst(r.rate)>>)>>)
    \o HeaderLines("add_header", r.resph)

Block(kind, args, directives, blocks) ==
    [kind |-> kind, args |-> args, directives |-> directives, blocks |-> blocks]
RedirectServer(r) ==
    Block("server", "", Listeners(<<"80">>) \o <<Directive("server_name", r.host),
                                                 Directive("return", <<"301", "https">>)>>, << >>)

NotRendered == [ok |-> FALSE, preamble |-> << >>, blocks |-> << >>, warnings |-> {}]
Verbatim(content) == [ok |-> TRUE, preamble |-> content.preamble, blocks |-> content.blocks, warnings |-> {}]
RenderNginx(in) ==
    LET r == in.route IN
    CASE r.raw # "" -> IF r.raw # "nginx" THEN NotRendered ELSE Verbatim(in.content)
      [] r.raw = "" /\ ~Validate(r) -> NotRendered
      [] OTHER ->
            [ok |-> TRUE,
             preamble |-> Given(r.rate > 0, <<Directive("limit_req_zone", <<zoneName(r), formatRate(r.rate)>>)>>),
             blocks |-> Given(r.force /\ TLSEnabled(in), <<RedirectServer(r)>>)
                        \o <<Block("server", "", ServerLines(in),
                                   <<Block("location", "/", LocationLines(r), << >>)>>)>>,
             warnings |-> TLSWarnings(in) \cup ForceWarnings(in) \cup AuthWarnings(in)]
-----------------------------------------------------------------------------
(* The policy of the helper: allowlists per scope.  Its values are the route's host *)
(* and the paths the helper owns.                                                    *)

PlainWord(v) == v \notin Malformed
managedListen(words, redirect) ==
    /\ words[1] \in {"80", "[::]:80", "443", "[::]:443"}
    /\ IF words[1] \in {"80", "[::]:80"} THEN Len(words) = 1
       ELSE ~redirect /\ Tail(words) \in {<<"ssl">>, <<"ssl", "http2">>}

ProxiedServerAllows(d, policy, zone) ==
    LET a == d[2] IN
    CASE d[1] = "listen" -> managedListen(a, FALSE)
      [] d[1] = "http2" -> a \in {"on", "off"}
      [] d[1] = "server_name" -> a = policy.host
      [] d[1] = "ssl_certificate" -> policy.cert # NoPath /\ a = policy.cert
      [] d[1] = "ssl_certificate_key" -> policy.key # NoPath /\ a = policy.key
      [] d[1] = "auth_basic" -> PlainWord(a)
      [] d[1] = "auth_basic_user_file" -> policy.auth # NoPath /\ a = policy.auth
      [] d[1] = "client_max_body_size" -> a[2] \in {"", "k", "m", "g"}
      [] d[1] \in {"allow", "deny"} -> PlainWord(a)
      [] d[1] = "add_header" -> PlainWord(a[1]) /\ PlainWord(a[2])
      [] d[1] = "limit_req" -> zone # << >> /\ a[1] = zone
      [] OTHER -> FALSE
LocationAllows(d, policy, zone) ==
    LET a == d[2] IN
    CASE d[1] = "proxy_pass" -> a.scheme \in {"http", "https"} /\ PlainWord(a.addr)
      [] d[1] = "proxy_set_header" -> PlainWord(a[1]) /\ PlainWord(a[2])
      [] d[1] = "proxy_http_version" -> a \in {"1.0", "1.1"}
      [] d[1] = "rewrite" -> a[1] \in {"strip", "replace"} /\ PlainWord(a[2])
      [] d[1] \in {"proxy_connect_timeout", "proxy_send_timeout", "proxy_read_timeout"} -> a[2] \in {"", "s"}
      [] OTHER -> FALSE
RedirectServerAllows(d, policy, zone) ==
    CASE d[1] = "listen" -> managedListen(d[2], TRUE)
      [] d[1] = "server_name" -> d[2] = policy.host
      [] d[1] = "return" -> d[2] = <<"301", "https">>
      [] OTHER -> FALSE
validateDirectives(block, scope, policy, zone) ==
    \A i \in DOMAIN block.directives :
        LET d == block.directives[i] IN
        CASE scope = "redirect" -> RedirectServerAllows(d, policy, zone)
          [] scope = "server" -> ProxiedServerAllows(d, policy, zone)
          [] scope = "location" -> LocationAllows(d, policy, zone)

validateRedirectServer(server, policy, zone) ==
    /\ validateDirectives(server, "redirect", policy, zone)
    /\ Cardinality(Named(server, "server_name")) = 1 /\ Cardinality(Named(server, "return")) = 1
validateProxiedServer(server, policy, zone) ==
    /\ validateDirectives(server, "server", policy, zone)
    /\ Len(server.blocks) = 1
    /\ server.blocks[1].kind = "location" /\ server.blocks[1].args = "/" /\ server.blocks[1].blocks = << >>
    /\ validateDirectives(server.blocks[1], "location", policy, zone)
validateServers(blocks, policy, zone) ==
    /\ \A i \in DOMAIN blocks :
           /\ blocks[i].kind = "server"
           /\ IF blocks[i].blocks = << >> THEN validateRedirectServer(blocks[i], policy, zone)
              ELSE validateProxiedServer(blocks[i], policy, zone)
    /\ Cardinality({i \in DOMAIN blocks : blocks[i].blocks # << >>}) = 1
parsePolicyConfig(config, policy) == PlainWord(policy.host) /\ Len(config.blocks) \in 1..2

ValidateRendered(config, policy) ==
    /\ parsePolicyConfig(config, policy)
    /\ Len(config.preamble) <= 1
    /\ \A i \in DOMAIN config.preamble : config.preamble[i][1] = "limit_req_zone"
    /\ validateServers(config.blocks, policy,
                       IF config.preamble = << >> THEN << >> ELSE config.preamble[1][2][1])
    /\ config.preamble # << >> => config.preamble[1][2][1][2] # ""
-----------------------------------------------------------------------------
(* The mask. *)

Unmapped(acc, d) == [acc EXCEPT !.unparsed = Append(@, d), !.clean = FALSE]
Unclear(acc) == [acc EXCEPT !.clean = FALSE]
SetHeader(h, name, value) == [n \in DOMAIN h \cup {name} |-> IF n = name THEN value ELSE h[n]]
Secure(words) == \E i \in DOMAIN words : words[i] \in {"ssl", "443", "[::]:443"}

MaskServerLine(acc, d) ==
    LET a == d[2] IN
    CASE d[1] = "listen" -> [acc EXCEPT !.tls = @ \/ Secure(a)]
      [] d[1] \in {"http2", "auth_basic_user_file"} -> acc
      [] d[1] = "server_name" -> [acc EXCEPT !.route.host = a]
      [] d[1] \in {"ssl_certificate", "ssl_certificate_key"} -> [acc EXCEPT !.tls = TRUE]
      [] d[1] = "client_max_body_size" -> [acc EXCEPT !.route.size = <<"bytes">> \o a]
      [] d[1] = "deny" -> IF a = "all" THEN acc ELSE [acc EXCEPT !.route.block = Append(@, a)]
      [] d[1] = "allow" -> [acc EXCEPT !.route.allow = Append(@, a)]
      [] d[1] = "auth_basic" -> Unclear([acc EXCEPT !.route.auth = "empty"])
      [] d[1] = "limit_req" -> Unclear(acc)
      [] d[1] = "add_header" -> [acc EXCEPT !.route.resph = SetHeader(@, a[1], a[2])]
      [] OTHER -> Unmapped(acc, d)
parseProxySetHeader(acc, a) ==
    IF \E i \in DOMAIN StandardHeaders : StandardHeaders[i] = a THEN acc
    ELSE [acc EXCEPT !.route.reqh = SetHeader(@, a[1], a[2])]
Seconds(a) == a[2] \in {"", "s"}
MaskLocationLine(acc, d) ==
    LET a == d[2] IN
    CASE d[1] = "proxy_pass" -> IF a.scheme \notin {"http", "https"} THEN Unmapped(acc, d)
                                ELSE [acc EXCEPT !.route.addr = a.addr, !.route.port = a.port, !.route.scheme = a.scheme]
      [] d[1] = "proxy_set_header" -> parseProxySetHeader(acc, a)
      [] d[1] = "proxy_http_version" -> acc
      [] d[1] = "rewrite" -> CASE a[1] = "strip" -> [acc EXCEPT !.route.strip = a[2]]
                               [] a[1] = "replace" -> [acc EXCEPT !.route.rewrite = a[2]]
                               [] OTHER -> Unmapped(acc, d)
      [] d[1] \in {"proxy_connect_timeout", "proxy_send_timeout"} ->
            IF Seconds(a) THEN [acc EXCEPT !.route.write = a[1]] ELSE acc
      [] d[1] = "proxy_read_timeout" -> IF Seconds(a) THEN [acc EXCEPT !.route.read = a[1]] ELSE acc
      [] OTHER -> Unmapped(acc, d)

hasWebSocketHeaders(h) ==
    \A i \in DOMAIN WebSocketHeaders :
        WebSocketHeaders[i][1] \in DOMAIN h /\ h[WebSocketHeaders[i][1]] = WebSocketHeaders[i][2]
\* The headers stay among the custom ones.
MutDetectWebSocket(acc) == IF hasWebSocketHeaders(acc.route.reqh) THEN [acc EXCEPT !.route.ws = TRUE] ELSE acc
DetectWebSocket(acc) ==
    IF ~hasWebSocketHeaders(acc.route.reqh) THEN acc
    ELSE [acc EXCEPT !.route.ws = TRUE,
                     !.route.reqh = [n \in DOMAIN @ \ {"Upgrade", "Connection"} |-> @[n]]]
parseLocation(acc, location) ==
    LET read == DetectWebSocket(FoldLeft(MaskLocationLine, acc, location.directives)) IN
    IF read.route.addr = "" THEN Unclear(read) ELSE read

RootLocations(server) ==
    {i \in DOMAIN server.blocks : server.blocks[i].kind = "location" /\ server.blocks[i].args = "/"}
parseProxiedServer(acc, server) ==
    LET read == FoldLeft(MaskServerLine, acc, server.directives)
        told == [read EXCEPT !.route.tls = IF read.tls THEN "central" ELSE "off"]
    IN  IF RootLocations(server) = {} THEN Unclear(told)
        ELSE parseLocation(told, server.blocks[CHOOSE i \in RootLocations(server) :
                                                   \A j \in RootLocations(server) : i <= j])

isRedirectServer(server) ==
    /\ \E i \in Named(server, "return") : server.directives[i][2] = <<"301", "https">>
    /\ \A i \in DOMAIN server.blocks : server.blocks[i].kind # "location"
redirectMatches(server, fqdn) ==
    fqdn # "" /\ \E i \in Named(server, "server_name") : server.directives[i][2] = fqdn

Parse(config) ==
    LET IsServer(b) == b.kind = "server"
        IsOther(b) == b.kind # "server"
        IsProxied(b) == IsServer(b) /\ ~isRedirectServer(b)
        IsRedirect(b) == IsServer(b) /\ isRedirectServer(b)
        proxied == SelectSeq(config.blocks, IsProxied)
        redirects == SelectSeq(config.blocks, IsRedirect)
        start == [route |-> RouteTo("", ""), tls |-> FALSE, clean |-> TRUE,
                  unparsed |-> config.preamble \o SelectSeq(config.blocks, IsOther)]
    IN  IF Len(proxied) # 1
        THEN [ok |-> FALSE, route |-> start.route,
              unparsed |-> start.unparsed \o SelectSeq(config.blocks, IsServer)]
        ELSE LET read == parseProxiedServer(start, proxied[1])
                 forces == Len(redirects) = 1 /\ redirectMatches(redirects[1], read.route.host)
                 told == IF forces THEN [read EXCEPT !.route.force = TRUE]
                         ELSE [read EXCEPT !.unparsed = @ \o redirects]
             IN  [ok |-> told.clean /\ told.unparsed = << >>, route |-> told.route, unparsed |-> told.unparsed]

ValidateManaged(config, policy) ==
    /\ parsePolicyConfig(config, policy)
    /\ config.preamble = << >>
    /\ Parse(config).ok /\ Parse(config).route.host = policy.host /\ Parse(config).route.port \in 1..65535
    /\ validateServers(config.blocks, policy, << >>)
===============================================================================
