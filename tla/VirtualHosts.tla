----------------------------- MODULE VirtualHosts -----------------------------
(***************************************************************************)
(* A route and what three proxies make of it: nginx (NginxVhost.tla), Apache  *)
(* (apachegen) and Caddy (caddygen).  One sheet is rendered for one proxy, its *)
(* text edited by an operator, read back as a mask, or moved to another proxy   *)
(* (configmove); clients ask, and the answer must be the one the route intends. *)
(*                                                                          *)
(* How a proxy answers a request is external: the rules of the directives the  *)
(* renderers use, as their comments state them.                                *)
(***************************************************************************)
EXTENDS NginxVhost

CONSTANTS
    Inputs,      \* domains with the facts of the agent that renders them
    VhostEdits,       \* what operators do to an nginx configuration, by name
    Ranges,      \* the clients in each address range
    Clients

ASSUME VhostAssumptions == \A range \in DOMAIN Ranges : Ranges[range] \subseteq Clients

VARIABLE sheet   \* [phase, proxy, in, out, mask]

NoMask == [ok |-> FALSE, route |-> RouteTo("", ""), unparsed |-> << >>]
NoConfig == [preamble |-> << >>, blocks |-> << >>]
-----------------------------------------------------------------------------
(* The route of a domain: its settings, its policy for TLS or else its old SSL mode, its *)
(* port or else the one in the address of the server.                                     *)

tlsPolicyFromDomain(d) ==
    IF d.tls \in {"self-acme", "off", "central"} THEN d.tls
    ELSE IF d.sslmode = "off" THEN "off" ELSE "central"
ConfigFromDomain(d) ==
    [f \in DOMAIN RouteTo("", "") |->
        CASE f = "port" -> IF d.port = 0 THEN d.addrPort ELSE d.port
          [] f = "ws" -> d.ws \/ d.websocket
          [] f = "tls" -> tlsPolicyFromDomain(d)
          [] OTHER -> d[f]]
-----------------------------------------------------------------------------
(* Apache: a VirtualHost on one port, one more that redirects, and a Location with *)
(* the access rules, all of which must hold.                                        *)

RequireAll(r, authFile) ==
    LET ips == r.allow # << >> \/ r.block # << >> IN
    Given(ips, Given(r.allow # << >>, <<Directive("ip", r.allow)>>)
               \o Given(r.allow = << >> /\ authFile = NoPath, <<Directive("all", "granted")>>)
               \o Each(r.block, LAMBDA range : Directive("not ip", <<range>>)))
        \o Given(authFile # NoPath, <<Directive("valid-user", authFile)>>)
Kilo == [k |-> 1000, m |-> 1000000, g |-> 1000000000]
LimitRequestBody(size) ==
    CASE size = NoSize -> << >>
      [] size = <<"unlimited">> -> <<0>>
      [] OTHER -> <<IF size[3] = "" THEN size[2] ELSE size[2] * Kilo[size[3]]>>
\* A path rule is written instead of ProxyPass, and with it the web socket rule and the timeouts.
ProxyRules(r) ==
    LET upstream == [scheme |-> EffectiveScheme(r), addr |-> r.addr, port |-> r.port] IN
    CASE r.rewrite # NoPath -> <<Directive("replace", <<upstream, r.rewrite>>)>>
      [] r.rewrite = NoPath /\ r.strip # NoPath -> <<Directive("strip", <<upstream, r.strip>>)>>
      [] OTHER -> Given(r.ws, <<Directive("upgrade", <<upstream, NoPath>>)>>)
                  \o <<Directive("pass", <<upstream, NoPath, r.write, r.read>>)>>

ApacheRefused == [ok |-> FALSE, verbatim |-> NoConfig, vhosts |-> << >>, warnings |-> {}]
RenderApache(in) ==
    LET r == in.route
        main == [port |-> IF TLSEnabled(in) THEN 443 ELSE 80, name |-> r.host, redirect |-> FALSE,
                 ssl |-> IF TLSEnabled(in) THEN <<in.cert, in.key>> ELSE << >>,
                 limit |-> LimitRequestBody(r.size), require |-> RequireAll(r, IF r.auth # "none" THEN in.auth ELSE NoPath),
                 responses |-> r.resph, requests |-> r.reqh, rules |-> ProxyRules(r)]
        plain == [main EXCEPT !.port = 80, !.redirect = TRUE, !.ssl = << >>, !.limit = << >>, !.require = << >>,
                              !.responses = << >>, !.requests = << >>, !.rules = << >>]
    IN  CASE r.raw # "" -> IF r.raw # "apache" THEN ApacheRefused
                           ELSE [ApacheRefused EXCEPT !.ok = TRUE, !.verbatim = in.content]
          [] r.raw = "" /\ ~Validate(r) -> ApacheRefused
          [] OTHER -> [ok |-> TRUE, verbatim |-> NoConfig,
                       vhosts |-> Given(r.force /\ TLSEnabled(in), <<plain>>) \o <<main>>,
                       warnings |-> TLSWarnings(in) \cup ForceWarnings(in) \cup AuthWarnings(in)
                                    \cup IF r.rate > 0 THEN {"rate_limit"} ELSE {}]
-----------------------------------------------------------------------------
(* Caddy: a chain of subroutes, each a list of guarded routes that end the chain. *)

\* Credentials that are not complete are left out without a word; no one checked the route.
Handlers(r) ==
    Given(r.strip # NoPath, <<Directive("strip", r.strip)>>)
    \o Given(r.rewrite # NoPath, <<Directive("replace", r.rewrite)>>)
    \o Given(r.auth = "basic", <<Directive("authentication", "bcrypt")>>)
    \o Given(r.rate > 0, <<Directive("rate_limit", r.rate \div 60)>>)
    \o Given(r.size \notin {NoSize, <<"unlimited">>}, <<Directive("request_body", r.size)>>)
    \o <<Directive("reverse_proxy",
             [upstream |-> [scheme |-> EffectiveScheme(r), addr |-> r.addr, port |-> r.port],
              requests |-> r.reqh, responses |-> r.resph, flush |-> r.ws,
              transport |-> <<r.write, r.read, r.idle>>])>>
Guarded(on, ranges, handle) == [on |-> on, ranges |-> ranges, handle |-> handle]
Forbidden == <<Directive("static_response", 403)>>
InnerRoutes(r) ==
    Given(r.block # << >>, <<Guarded("in", r.block, Forbidden)>>)
    \o Given(r.allow # << >>, <<Guarded("not in", r.allow, Forbidden)>>)
    \o <<Guarded("always", << >>, Handlers(r))>>
CaddyRefused == [ok |-> FALSE, verbatim |-> NoConfig, id |-> << >>, host |-> "", routes |-> << >>, warnings |-> {}]
GenerateRoute(r, content) ==
    CASE r.raw # "" -> IF r.raw # "caddy" THEN CaddyRefused
                       ELSE [CaddyRefused EXCEPT !.ok = TRUE, !.verbatim = content]
      [] r.raw = "" /\ ("" \in {r.host, r.addr} \/ r.port = 0) -> CaddyRefused
      [] OTHER -> [ok |-> TRUE, verbatim |-> NoConfig, id |-> <<"domain", slugify(r.host)>>, host |-> r.host,
                   routes |-> Given(r.force, <<Guarded("http", << >>, <<Directive("static_response", 302)>>)>>)
                              \o InnerRoutes(r),
                   warnings |-> {}]
-----------------------------------------------------------------------------
(* The answer to a request: [tls, client, known (with good credentials), upgrade, path]. *)

Requests == [tls : BOOLEAN, client : Clients, known : BOOLEAN, upgrade : BOOLEAN,
             path : {<<"x">>, <<"api", "x">>}]
InRanges(q, ranges) == \E i \in DOMAIN ranges : q.client \in Ranges[ranges[i]]
Status(s) == [status |-> s, upstream |-> << >>, path |-> << >>, upgraded |-> FALSE]
Proxied(upstream, path, upgraded) ==
    [status |-> "proxied", upstream |-> <<upstream>>, path |-> path, upgraded |-> upgraded]
Stripped(path, prefix) == IF path[1] = prefix THEN Tail(path) ELSE path

\* nginx: the server that listens, its return, the first allow or deny that matches and the
\* credentials (satisfy all), then the first rewrite that matches, which says break.
FirstRule(server, q) ==
    LET rules == SelectSeq(server.directives, LAMBDA d : d[1] \in {"allow", "deny"})
        matching == {i \in DOMAIN rules : rules[i][2] = "all" \/ q.client \in Ranges[rules[i][2]]}
    IN  IF matching = {} THEN "allow" ELSE rules[CHOOSE i \in matching : \A j \in matching : i <= j][1]
Lines(block, name) == SelectSeq(block.directives, LAMBDA d : d[1] = name)
RewrittenPath(location, path) ==
    LET rules == SelectSeq(Lines(location, "rewrite"),
                           LAMBDA d : d[2][1] = "replace" \/ path[1] = d[2][2]) IN
    IF rules = << >> THEN path
    ELSE IF rules[1][2][1] = "replace" THEN <<rules[1][2][2]>> ELSE Tail(path)
AnswersOn(server, q) == \E i \in Named(server, "listen") : Secure(server.directives[i][2]) = q.tls
NginxAnswer(config, q) ==
    LET servers == SelectSeq(config.blocks, LAMBDA b : b.kind = "server" /\ AnswersOn(b, q)) IN
    IF servers = << >> THEN Status("elsewhere")
    ELSE LET server == servers[1] IN
         IF Named(server, "return") # {} THEN Status("redirect")
         ELSE IF FirstRule(server, q) = "deny" \/ (Named(server, "auth_basic") # {} /\ ~q.known)
              THEN Status("refused")
         ELSE IF RootLocations(server) = {} THEN Status("elsewhere")
         ELSE LET location == server.blocks[CHOOSE i \in RootLocations(server) : TRUE] IN
              Proxied(Lines(location, "proxy_pass")[1][2], RewrittenPath(location, q.path),
                      q.upgrade /\ \E i \in DOMAIN Lines(location, "proxy_set_header") :
                                       Lines(location, "proxy_set_header")[i][2] = WebSocketHeaders[1])

Satisfied(term, q) ==
    CASE term[1] = "ip" -> InRanges(q, term[2])
      [] term[1] = "not ip" -> ~InRanges(q, term[2])
      [] term[1] = "valid-user" -> q.known
      [] OTHER -> TRUE
Applies(rule, q) ==
    CASE rule[1] = "upgrade" -> q.upgrade
      [] rule[1] = "strip" -> q.path[1] = rule[2][2]
      [] OTHER -> TRUE
ApacheAnswer(out, q) ==
    LET hosts == SelectSeq(out.vhosts, LAMBDA v : (v.port = 443) = q.tls) IN
    IF hosts = << >> THEN Status("elsewhere")
    ELSE IF hosts[1].redirect THEN Status("redirect")
    ELSE IF \E i \in DOMAIN hosts[1].require : ~Satisfied(hosts[1].require[i], q) THEN Status("refused")
    ELSE LET rules == SelectSeq(hosts[1].rules, LAMBDA rule : Applies(rule, q)) IN
         IF rules = << >> THEN Status("elsewhere")
         ELSE LET rule == rules[1] IN
              Proxied(rule[2][1], CASE rule[1] = "replace" -> <<rule[2][2]>>
                                    [] rule[1] = "strip" -> Tail(q.path)
                                    [] OTHER -> q.path, rule[1] = "upgrade")

Guards(route, q) ==
    CASE route.on = "http" -> ~q.tls
      [] route.on = "in" -> InRanges(q, route.ranges)
      [] route.on = "not in" -> ~InRanges(q, route.ranges)
      [] OTHER -> TRUE
Handle(acc, h) ==
    CASE h[1] = "strip" -> [acc EXCEPT !.path = Stripped(@, h[2])]
      [] h[1] = "replace" -> [acc EXCEPT !.path = <<h[2]>>]
      [] OTHER -> acc
CaddyAnswer(out, q) ==
    LET route == SelectSeq(out.routes, LAMBDA g : Guards(g, q))[1]
        has(name) == \E i \in DOMAIN route.handle : route.handle[i][1] = name
        final == route.handle[Len(route.handle)]
    IN  CASE route.on = "http" -> Status("redirect")
          [] route.on \in {"in", "not in"} -> Status("refused")
          [] OTHER -> IF has("authentication") /\ ~q.known THEN Status("refused")
                      ELSE Proxied(final[2].upstream, FoldLeft(Handle, [path |-> q.path], route.handle).path, q.upgrade)

Answer(proxy, out, q) ==
    CASE proxy = "nginx" -> NginxAnswer(out, q)
      [] proxy = "apache" -> ApacheAnswer(out, q)
      [] OTHER -> CaddyAnswer(out, q)
-----------------------------------------------------------------------------
RenderFor(proxy, in) ==
    CASE proxy = "nginx" -> RenderNginx(in)
      [] proxy = "apache" -> RenderApache(in)
      [] OTHER -> GenerateRoute(in.route, in.content)

VhostInit ==
    \E i \in Inputs, proxy \in {"nginx", "apache", "caddy"} :
        sheet = [phase |-> "wanted", proxy |-> proxy, out |-> NotRendered, mask |-> NoMask,
                 in |-> [route |-> ConfigFromDomain(i.domain), cert |-> i.cert, key |-> i.key,
                         auth |-> i.auth, http2on |-> i.http2on, content |-> i.content]]
\* Backend.Render, and the helper's renderRoute.
RenderSheet ==
    /\ sheet.phase = "wanted"
    /\ sheet' = [sheet EXCEPT !.out = RenderFor(sheet.proxy, sheet.in),
                              !.phase = IF RenderFor(sheet.proxy, sheet.in).ok THEN "rendered" ELSE "failed"]

\* configmove.Move of a generated configuration: the intent again, without the agent's files.
MoveSheet(proxy) ==
    /\ sheet.phase = "rendered" /\ proxy # sheet.proxy /\ sheet.in.route.raw = ""
    /\ LET in == [sheet.in EXCEPT !.cert = NoPath, !.key = NoPath, !.auth = NoPath, !.http2on = TRUE] IN
       sheet' = [sheet EXCEPT !.proxy = proxy, !.in = in, !.out = RenderFor(proxy, in),
                              !.phase = IF RenderFor(proxy, in).ok THEN "moved" ELSE "failed"]

\* The raw edit of an operator; the place of a directive does not matter to any of these.
Edited(config, edit) ==
    LET main == Len(config.blocks)
        InServer(d) == [config EXCEPT !.blocks[main].directives = <<d>> \o @]
    IN  CASE edit = "gzip" -> InServer(Directive("gzip", "on"))
          [] edit = "deny" -> InServer(Directive("deny", "all"))
          [] edit = "open" -> [config EXCEPT !.blocks[main].directives = SelectSeq(@, LAMBDA d : d # Directive("deny", "all"))]
          [] edit = "minutes" -> [config EXCEPT !.blocks[main].blocks[1].directives = @ \o <<Directive("proxy_read_timeout", <<5, "m">>)>>]
          [] edit = "location" -> [config EXCEPT !.blocks[main].blocks = @ \o <<Block("location", "/private", <<Directive("deny", "all")>>, << >>)>>]
          [] edit = "server" -> [config EXCEPT !.blocks = @ \o <<config.blocks[main]>>]
          [] edit = "map" -> [config EXCEPT !.blocks = <<Block("map", "", << >>, << >>)>> \o @]
          [] OTHER -> [config EXCEPT !.blocks[main].directives = SelectSeq(@, LAMBDA d : d[1] # "auth_basic_user_file")]
EditSheet(edit) ==
    /\ sheet.phase = "rendered" /\ sheet.proxy = "nginx" /\ sheet.in.route.raw = ""
    /\ sheet' = [sheet EXCEPT !.phase = "edited", !.out = Edited(sheet.out, edit)]
\* GET artifacts/{id}/mask
MaskSheet ==
    /\ sheet.phase \in {"rendered", "edited", "moved"} /\ sheet.proxy = "nginx" /\ sheet.in.route.raw = ""
    /\ sheet' = [sheet EXCEPT !.phase = "masked", !.mask = Parse(sheet.out)]

VhostNext ==
    \/ RenderSheet
    \/ \E proxy \in {"nginx", "apache", "caddy"} : MoveSheet(proxy)
    \/ \E edit \in VhostEdits : EditSheet(edit)
    \/ MaskSheet
-----------------------------------------------------------------------------
(* Properties *)

Intent == sheet.in.route
\* nginx and Apache refuse a route whose credentials are not complete, Caddy serves it to all.
Asked ==
    /\ Intent.auth # "none" /\ "basic_auth" \notin sheet.out.warnings
    /\ ~(sheet.proxy = "caddy" /\ Intent.auth = "empty")
MayPass(q) ==
    /\ ~InRanges(q, Intent.block)
    /\ Intent.allow = << >> \/ InRanges(q, Intent.allow)
    /\ Asked => q.known

\* The block list wins over the allow list, both and the credentials must hold, and whoever
\* may pass does: whichever proxy serves the route, and after a move, a client reaches the
\* upstream iff the route admits it, except that credentials dropped with a warning are not
\* asked for, nor by Caddy those without a user name or password hash, and a request to the
\* listener the route does not have (or, with Apache, to a path without the prefix to strip)
\* is another's.  It reaches the upstream of the route, on a path that does not depend on the
\* proxy.
AnswersAsIntended ==
    sheet.phase \in {"rendered", "moved"} /\ Intent.raw = "" =>
        \A q \in Requests :
            LET a == Answer(sheet.proxy, sheet.out, q) IN
            CASE a.status = "proxied" ->
                    /\ MayPass(q)
                    /\ a.upstream[1] = [scheme |-> EffectiveScheme(Intent), addr |-> Intent.addr, port |-> Intent.port]
                    /\ Intent.strip = NoPath \/ Intent.rewrite = NoPath =>
                           a.path = IF Intent.rewrite # NoPath THEN <<Intent.rewrite>>
                                    ELSE Stripped(q.path, Intent.strip)
                    /\ q.upgrade /\ Intent.ws /\ (sheet.proxy = "apache" => {Intent.strip, Intent.rewrite} = {NoPath})
                           => a.upgraded
              [] a.status = "refused" -> ~MayPass(q)
              [] a.status = "redirect" -> Intent.force /\ ~q.tls
              [] OTHER -> IF q.tls # TLSEnabled(sheet.in) THEN sheet.proxy # "caddy"
                         ELSE sheet.proxy = "apache" /\ Intent.strip \notin {NoPath, q.path[1]}

PolicyFor(in) == [host |-> in.route.host, cert |-> in.cert, key |-> in.key, auth |-> in.auth]
\* Nothing the renderer writes for a route it accepts is refused by the policy of the helper
\* that writes it as root.
RenderedIsAdmitted ==
    sheet.phase = "rendered" /\ sheet.proxy = "nginx" /\ Intent.raw = "" =>
        ValidateRendered(sheet.out, PolicyFor(sheet.in))

\* What the mask leaves out although it says ok: other locations, access rules in another
\* form than the renderer's, times in other units, headers that hide that web sockets are on.
Overlooked(config) ==
    LET main == config.blocks[Len(config.blocks)] IN
    \/ Len(main.blocks) > 1
    \/ SelectSeq(main.directives, LAMBDA d : d[1] \in {"deny", "allow"}) # AccessLines(sheet.mask.route)
    \/ \E i \in Named(main.blocks[1], "proxy_read_timeout") :
           ~Seconds(main.blocks[1].directives[i][2])
    \/ {"Upgrade", "Connection"} \cap DOMAIN Intent.reqh # {}
\* A mask that says it is the whole configuration is: rendered again on the same host it
\* gives the same configuration; and the helper admits no raw configuration that is not.
MaskIsWhole ==
    sheet.phase = "masked" =>
        /\ sheet.mask.ok /\ ~Overlooked(sheet.out) =>
               RenderNginx([sheet.in EXCEPT !.route = sheet.mask.route]).blocks = sheet.out.blocks
        /\ ValidateManaged(sheet.out, PolicyFor(sheet.in)) => sheet.mask.ok

\* Three pieces of code with their own tables of what a managed file may hold agree on it:
\* the renderer, the policy of the root helper, and the mask that reads a file back.
ReadersAgree == RenderedIsAdmitted /\ MaskIsWhole
===============================================================================
