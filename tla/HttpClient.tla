----------------------------- MODULE HttpClient -----------------------------
(***************************************************************************)
(* BasicClient (crates/silksurf-net/src/lib.rs), the partitioned cookie    *)
(* jar it shares with document.cookie (cookie.rs, boa_backend/mod.rs), and *)
(* the callers that build a client: navigations, the documents of frames,  *)
(* the batches of a page's resources and fetch() of scripts.  Every fetch  *)
(* runs on a thread of its own; the jar's lock is held to read the cookies *)
(* of one request or to store those of one response, never in between.     *)
(*                                                                         *)
(* Addresses are records of scheme, host and path segments; the port is    *)
(* left out, as a site leaves it out.  The bytes of requests and responses *)
(* are abstracted to what the client decides on.                           *)
(***************************************************************************)
EXTENDS Lists, SequencesExt

CONSTANTS
  Fetchers,      \* threads that fetch
  Hosts,
  SiteDomain,    \* SiteDomain[h]: the registrable domain of a host
  Parents,       \* Parents[h]: the domains a host lies under
  Urls,          \* addresses: [secure, host, path]
  Documents,     \* documents with scripts: [url, top, sandboxed]
  Batches,       \* the addresses a page asks for together: sequences
  SetCookies,    \* what a Set-Cookie header or an assignment may say
  MaxRedirects,  \* max_redirects: five
  MaxWrites,     \* model bound: cookies written
  MaxClock       \* model bound: seconds a behaviour lasts

ASSUME ClientAssumption ==
  /\ SiteDomain \in [Hosts -> Hosts] /\ Parents \in [Hosts -> SUBSET Hosts]
  /\ MaxRedirects \in Nat /\ MaxWrites \in Nat /\ MaxClock \in Nat \ {0}

VARIABLES
  clock,    \* now_unix
  jar,      \* jar[p]: the CookieStore of a partition
  fetches,  \* fetches[f]: the fetch a thread runs
  written   \* history: every cookie written, by whom and under which site

clientVars == <<clock, jar, fetches, written>>

-----------------------------------------------------------------------------
(***************************************************************************)
(* Sites and postures.                                                     *)
(***************************************************************************)
\* An address that does not parse.
Malformed == [secure |-> FALSE, host |-> "", path |-> << >>]

NoSite == << >>

NoOrigin == << >>

\* The initiator of a navigation nobody's page began.
Browser == <<"browser">>

SiteOf(u) == IF u = Malformed THEN NoSite ELSE <<u.secure, SiteDomain[u.host]>>

OriginOf(u) == <<u.secure, u.host>>

Sites == {SiteOf(u) : u \in Urls}

Unpartitioned == <<NoSite, NoSite>>

\* Mutant: the top-level site is not part of the key.
PartitionOfSite(top, site) == <<site, site>>

PartitionKey(top, site) == IF top = NoSite THEN Unpartitioned ELSE <<site, top>>

Partitions == (Sites \X Sites) \cup {Unpartitioned}

\* A document that has scripts was loaded from an address, so that its page has
\* a site.
ASSUME AddressAssumption ==
  /\ Urls \subseteq [secure : BOOLEAN, host : Hosts, path : Seq(STRING)]
  /\ Malformed \notin Urls
  /\ Documents \subseteq [url : Urls, top : Sites, sandboxed : BOOLEAN]
  /\ Batches \subseteq Seq(Urls \cup {Malformed})
  /\ SetCookies \subseteq
       [name : STRING, domain : Hosts \cup {""}, path : Seq(STRING),
        maxAge : SUBSET Nat, expires : SUBSET Nat, secure : BOOLEAN,
        httpOnly : BOOLEAN, sameSite : {"strict", "lax", "none"}]

SubresourceContext(top, site) ==
  CASE top = NoSite -> "unknown"
    [] top # NoSite /\ site = top -> "sameSite"
    [] OTHER -> "crossSubresource"

\* Mutant: the method is not asked.
NavigationAnyMethod(initiator, site, safe) ==
  IF initiator \in {Browser, site} THEN "sameSite" ELSE "crossTopLevel"

NavigationContext(initiator, site, safe) ==
  CASE site = NoSite -> "unknown"
    [] site # NoSite /\ initiator \in {Browser, site} -> "sameSite"
    [] OTHER -> IF safe THEN "crossTopLevel" ELSE "crossSubresource"

SameSiteAllows(sameSite, context) ==
  CASE context = "crossTopLevel" -> sameSite # "strict"
    [] context = "crossSubresource" -> sameSite = "none"
    [] OTHER -> TRUE

-----------------------------------------------------------------------------
(***************************************************************************)
(* Cookies and stores.  An optional time is a set with at most one element.*)
(***************************************************************************)
IsExpired(cookie) == \E t \in cookie.expires : t <= clock

\* parse_set_cookie against a host; Max-Age goes before Expires.
Parsed(header, host, value) ==
  [name |-> header.name, value |-> value,
   domain |-> IF header.domain = "" THEN host ELSE header.domain,
   hostOnly |-> header.domain = "", path |-> header.path,
   expires |-> IF header.maxAge = {} THEN header.expires
               ELSE {IF age = 0 THEN 0 ELSE clock + age : age \in header.maxAge},
   secure |-> header.secure, httpOnly |-> header.httpOnly,
   sameSite |-> header.sameSite]

DomainMatches(cookie, host) ==
  \/ host = cookie.domain
  \/ ~cookie.hostOnly /\ cookie.domain \in Parents[host]

PathMatches(cookie, path) == IsPrefix(cookie.path, path)

\* Mutant: find_index does not compare the path.
SameNameAndDomain(a, b) == a.name = b.name /\ a.domain = b.domain

SameIdentity(a, b) == a.name = b.name /\ a.domain = b.domain /\ a.path = b.path

\* find_index: zero when no cookie has the identity.
IndexOf(store, cookie) ==
  LET same == {i \in DOMAIN store : SameIdentity(store[i], cookie)}
  IN  IF same = {} THEN 0 ELSE Min(same)

\* set_from_set_cookie: an expired cookie deletes, a live one is set.
Applied(store, cookie) ==
  LET i == IndexOf(store, cookie) IN
  CASE IsExpired(cookie) -> IF i = 0 THEN store ELSE RemoveAt(store, i)
    [] ~IsExpired(cookie) /\ i # 0 -> [store EXCEPT ![i] = cookie]
    [] OTHER -> Append(store, cookie)

\* cookie_header for a network request: longer paths first.
CookieHeader(store, u, context) ==
  LET Fits(cookie) ==
        /\ ~IsExpired(cookie)
        /\ DomainMatches(cookie, u.host) /\ PathMatches(cookie, u.path)
        /\ cookie.secure => u.secure
        /\ SameSiteAllows(cookie.sameSite, context)
      Before(i, j) ==
        \/ Len(store[i].path) > Len(store[j].path)
        \/ Len(store[i].path) = Len(store[j].path) /\ i < j
      order == InOrder({i \in DOMAIN store : Fits(store[i])}, Before)
  IN [k \in DOMAIN order |-> store[order[k]]]

\* Mutant: only the cookies of exactly that host.
DocumentCookiesOfHost(d) ==
  LET store == jar[PartitionKey(d.top, d.top)] IN
  Retain(store, {c \in ToSet(store) : /\ ~IsExpired(c) /\ ~c.httpOnly
                                      /\ d.sandboxed \/ c.domain = d.url.host})

\* document.cookie of a document: its host is empty when it is sandboxed, and
\* an empty host matches every cookie.
DocumentCookies(d) ==
  LET store == jar[PartitionKey(d.top, d.top)] IN
  Retain(store, {c \in ToSet(store) : /\ ~IsExpired(c) /\ ~c.httpOnly
                                      /\ d.sandboxed \/ DomainMatches(c, d.url.host)})


-----------------------------------------------------------------------------
(***************************************************************************)
(* Clients.                                                                *)
(***************************************************************************)
\* with_cookie_context: the client of a document or a navigation.
ClientUnder(top) ==
  [cookies |-> TRUE, top |-> top, cookieOrigin |-> NoOrigin, requestOrigin |-> NoOrigin]

\* prepare_request: the client of fetch() in a document.
ScriptClient(d, credentials) ==
  CASE credentials = "omit" -> [ClientUnder(d.top) EXCEPT !.cookies = FALSE]
    [] credentials = "same-origin" ->
         [ClientUnder(d.top) EXCEPT !.cookieOrigin = OriginOf(d.url)]
    [] credentials = "include" ->
         [ClientUnder(d.top) EXCEPT !.cookieOrigin = OriginOf(d.url),
                                    !.requestOrigin = OriginOf(d.url)]

\* Mutant: the origin is asked when the client is built, not at each hop.
PermitsAnyHop(client, u) == client.cookies

PermitsCookies(client, u) ==
  client.cookies /\ client.cookieOrigin \in {NoOrigin, OriginOf(u)}

\* request_cookie_header; a subresource has no context of its own.
RequestCookies(client, u, context) ==
  IF ~PermitsCookies(client, u) THEN << >>
  ELSE CookieHeader(jar[PartitionKey(client.top, SiteOf(u))], u,
                    IF context = "subresource"
                    THEN SubresourceContext(client.top, SiteOf(u)) ELSE context)

\* same_https_host.
SameHttpsHost(urls) ==
  /\ urls # << >>
  /\ \A i \in DOMAIN urls : urls[i].secure /\ urls[i].host = urls[1].host

-----------------------------------------------------------------------------
(***************************************************************************)
(* A fetch: the addresses of its requests, the indices still to be asked   *)
(* for (todo, at position k), the address and the redirects of the chain   *)
(* that is running, and the results by index, zero until there is one.     *)
(* chain, asked, sent and from are history: whose chain runs, how many     *)
(* requests it sent, the last of them, and what began the fetch.           *)
(***************************************************************************)
NothingSent == [url |-> Malformed, cookies |-> << >>]

NoFetch == [phase |-> "idle", client |-> ClientUnder(NoSite),
            context |-> "subresource", urls |-> << >>, todo |-> << >>, k |-> 1,
            h2 |-> FALSE, url |-> Malformed, redirects |-> 0, results |-> << >>,
            chain |-> 0, asked |-> 0, sent |-> NothingSent,
            from |-> [initiator |-> Browser, safe |-> TRUE]]

\* The request at position k of todo; the fetch returns after the last.
AtPosition(r) ==
  IF r.k > Len(r.todo) THEN [NoFetch EXCEPT !.phase = "done", !.results = r.results]
  ELSE [r EXCEPT !.phase = IF r.h2 THEN "wait" ELSE "ask",
                 !.url = r.urls[r.todo[r.k]], !.redirects = 0,
                 !.chain = r.todo[r.k], !.asked = IF r.h2 THEN 1 ELSE 0]

\* Mutant: the result goes where it was among the requests sent.
PlacedByPosition(r) ==
  AtPosition([r EXCEPT !.results[r.k] = r.chain, !.k = @ + 1])

\* fetch_all_or_speculate: the result goes where its request was.
Placed(r) ==
  AtPosition([r EXCEPT !.results[r.todo[r.k]] = r.chain, !.k = @ + 1])

\* A fetch of one request: fetch and fetch_navigation.
Single(client, context, u, from) ==
  AtPosition([NoFetch EXCEPT !.client = client, !.context = context,
                             !.urls = <<u>>, !.todo = <<1>>, !.results = <<0>>,
                             !.from = from])

Begin(f, r) ==
  /\ fetches[f].phase \in {"idle", "done"}
  /\ fetches' = [fetches EXCEPT ![f] = r]
  /\ UNCHANGED <<clock, jar, written>>

\* load_navigation_payload: the destination is the top-level site.
Navigate(f) ==
  \E u \in Urls \cup {Malformed}, initiator \in Sites \cup {Browser}, safe \in BOOLEAN :
    Begin(f, Single(ClientUnder(SiteOf(u)), NavigationContext(initiator, SiteOf(u), safe),
                    u, [initiator |-> initiator, safe |-> safe]))

\* load_embedded_navigation_payload: the document of a frame, under the site
\* of the page it is in.
LoadFrame(f) ==
  \E d \in Documents, u \in Urls :
    Begin(f, Single(ClientUnder(d.top), NavigationContext(d.top, SiteOf(u), TRUE),
                    u, [initiator |-> d.top, safe |-> TRUE]))

\* fetch_all_or_speculate: what is not cached is asked for together, over one
\* HTTP/2 connection where fetch_parallel can.
LoadResources(f) ==
  \E d \in Documents, urls \in Batches : \E cached \in SUBSET DOMAIN urls :
    LET todo == Retain([i \in DOMAIN urls |-> i], DOMAIN urls \ cached)
        r == [NoFetch EXCEPT
                !.client = ClientUnder(d.top), !.urls = urls, !.todo = todo,
                !.results = [i \in DOMAIN urls |-> IF i \in cached THEN i ELSE 0]]
    IN Begin(f, IF SameHttpsHost([k \in DOMAIN todo |-> urls[todo[k]]])
                THEN [r EXCEPT !.phase = "prepare", !.h2 = TRUE]
                ELSE AtPosition(r))

\* fetch() of a script; credentials to another origin are refused.
ScriptFetch(f) ==
  \E d \in Documents, u \in Urls, credentials \in {"omit", "same-origin", "include"} :
    /\ credentials = "include" => OriginOf(u) = OriginOf(d.url)
    /\ Begin(f, Single(ScriptClient(d, credentials), "subresource", u, NoFetch.from))

\* fetch_parallel reads the cookies of one request after the other before it
\* opens the connection.
Prepare(f) ==
  LET r == fetches[f] u == r.urls[r.todo[r.k]] IN
  /\ r.phase = "prepare"
  /\ fetches' = [fetches EXCEPT ![f] =
       [r EXCEPT !.sent = [url |-> u, cookies |-> RequestCookies(r.client, u, r.context)],
                 !.phase = IF r.k < Len(r.todo) THEN "prepare" ELSE "streams",
                 !.k = IF r.k < Len(r.todo) THEN @ + 1 ELSE 1]]
  /\ UNCHANGED <<clock, jar, written>>

\* fetch_h2_parallel answers every request or none; none means HTTP/1.1.
Streams(f) ==
  \E answered \in BOOLEAN :
    /\ fetches[f].phase = "streams"
    /\ fetches' = [fetches EXCEPT ![f] = AtPosition([@ EXCEPT !.h2 = answered])]
    /\ UNCHANGED <<clock, jar, written>>

\* fetch_http1_once up to the request: an address that does not parse or lies
\* outside the request's origin ends the chain with an error.
Ask(f) ==
  LET r == fetches[f] IN
  /\ r.phase = "ask"
  /\ fetches' = [fetches EXCEPT ![f] =
       IF r.url = Malformed
          \/ (r.client.requestOrigin # NoOrigin
              /\ r.client.requestOrigin # OriginOf(r.url))
       THEN Placed(r)
       ELSE [r EXCEPT !.phase = "wait", !.asked = @ + 1,
               !.sent = [url |-> r.url,
                         cookies |-> RequestCookies(r.client, r.url, r.context)]]]
  /\ UNCHANGED <<clock, jar, written>>

\* A cookie written into the partition of a resource's site under a top-level
\* site; its value is the number of the write.
Write(top, site, host, header) ==
  LET cookie == Parsed(header, host, Len(written) + 1)
      p == PartitionKey(top, site) IN
  /\ Len(written) < MaxWrites
  /\ jar' = [jar EXCEPT ![p] = Applied(@, cookie)]
  /\ written' = Append(written, [top |-> top, site |-> site, host |-> host,
                                 cookie |-> cookie, live |-> ~IsExpired(cookie)])

\* The request fails, or its response is not one.
Fail(f) ==
  /\ fetches[f].phase = "wait"
  /\ fetches' = [fetches EXCEPT ![f] = Placed(@)]
  /\ UNCHANGED <<clock, jar, written>>

\* Mutant: one redirect too many.
FollowsOnceMore(r) == r.redirects <= MaxRedirects

\* redirect_target: whether a Location is still followed.
Follows(r) == r.redirects < MaxRedirects

\* The rest of a response: it is the result, or its Location is asked for.
Redirected(f) ==
  LET r == fetches[f] IN
  \/ fetches' = [fetches EXCEPT ![f] = Placed(r)]
  \/ \E location \in Urls \cup {Malformed} :
       /\ Follows(r)
       /\ fetches' = [fetches EXCEPT ![f] =
            [r EXCEPT !.phase = "ask", !.url = location, !.redirects = @ + 1]]

\* A response without a cookie for this client.
Answer(f) ==
  /\ fetches[f].phase = "wait"
  /\ Redirected(f)
  /\ UNCHANGED <<clock, jar, written>>

\* store_response_cookies, then the rest.
AnswerWithCookie(f) ==
  LET r == fetches[f] IN
  /\ r.phase = "wait" /\ PermitsCookies(r.client, r.url)
  /\ \E header \in SetCookies : Write(r.client.top, SiteOf(r.url), r.url.host, header)
  /\ Redirected(f)
  /\ UNCHANGED clock

\* document.cookie = ...: a script cannot set an HttpOnly cookie; a sandboxed
\* document writes for a host no request has.
SetDocumentCookie(d) ==
  \E header \in SetCookies :
    /\ ~header.httpOnly
    /\ Write(d.top, d.top, IF d.sandboxed THEN "document.jar.invalid" ELSE d.url.host,
             header)
    /\ UNCHANGED <<clock, fetches>>

ClockTick ==
  /\ clock < MaxClock
  /\ clock' = clock + 1
  /\ UNCHANGED <<jar, fetches, written>>

ClientInit ==
  /\ clock = 1
  /\ jar = [p \in Partitions |-> << >>]
  /\ fetches = [f \in Fetchers |-> NoFetch]
  /\ written = << >>

FetchStep(f) ==
  \/ Navigate(f) \/ LoadFrame(f) \/ LoadResources(f) \/ ScriptFetch(f)
  \/ Prepare(f) \/ Streams(f) \/ Ask(f)
  \/ Fail(f) \/ Answer(f) \/ AnswerWithCookie(f)

ClientNext ==
  \/ \E f \in Fetchers : FetchStep(f)
  \/ \E d \in Documents : SetDocumentCookie(d)
  \/ ClockTick

ClientSpec == ClientInit /\ [][ClientNext]_clientVars

-----------------------------------------------------------------------------
Cookie == [name : {h.name : h \in SetCookies}, value : 1..MaxWrites,
           domain : Hosts \cup {"document.jar.invalid"}, hostOnly : BOOLEAN,
           path : {h.path : h \in SetCookies}, expires : SUBSET Nat,
           secure : BOOLEAN, httpOnly : BOOLEAN,
           sameSite : {"strict", "lax", "none"}]

ClientTypeOK ==
  /\ clock \in 1..MaxClock
  /\ DOMAIN jar = Partitions
  /\ \A p \in Partitions : \A i \in DOMAIN jar[p] : jar[p][i] \in Cookie
  /\ \A f \in Fetchers :
       /\ fetches[f].phase \in {"idle", "prepare", "streams", "ask", "wait", "done"}
       /\ fetches[f].url \in Urls \cup {Malformed}
       /\ fetches[f].redirects \in 0..MaxRedirects
  /\ Len(written) <= MaxWrites

\* A store is the map its documentation makes of it: for each name, domain and
\* path the last cookie written under that resource and top-level site, by a
\* response or by a script, unless that write deleted it; and no identity
\* twice (set, remove, set_from_set_cookie and set_document_cookie).
JarIsLatest ==
  LET Identity(c) == <<c.name, c.domain, c.path>>
      Replaced(k) ==
        \E j \in k + 1..Len(written) :
          /\ written[j].top = written[k].top /\ written[j].site = written[k].site
          /\ Identity(written[j].cookie) = Identity(written[k].cookie)
  IN \A p \in Sites \X Sites :
       /\ \A i, j \in DOMAIN jar[p] : Identity(jar[p][i]) = Identity(jar[p][j]) => i = j
       /\ ToSet(jar[p]) = {written[k].cookie : k \in
            {n \in DOMAIN written : /\ <<written[n].site, written[n].top>> = p
                                    /\ written[n].live /\ ~Replaced(n)}}

\* A request carries only cookies written for its own site under its own
\* top-level site, at every hop of a redirect chain and although a Domain
\* attribute may name any domain; none when its credentials mode leaves them
\* out; and on a request another site began only those whose SameSite lets
\* them go there.  A navigation keeps the posture of its first destination.
SentAsAllowed ==
  \A f \in Fetchers :
    LET r == fetches[f] site == SiteOf(r.sent.url) IN
    \A c \in ToSet(r.sent.cookies) :
      LET w == written[c.value] IN
      /\ w.site = site /\ w.top = r.client.top
      /\ c.hostOnly => w.host = r.sent.url.host
      /\ r.client.cookies
      /\ r.client.cookieOrigin # NoOrigin => r.client.cookieOrigin = OriginOf(r.sent.url)
      /\ r.context = "subresource" /\ site # r.client.top => c.sameSite = "none"
      /\ (/\ r.context # "subresource" /\ site = SiteOf(r.urls[1])
          /\ r.from.initiator \notin {Browser, site}) =>
           /\ c.sameSite # "strict"
           /\ ~r.from.safe => c.sameSite = "none"

\* A document at the top level and the requests it makes to its own address
\* see the same cookies: what only the request carries is HttpOnly, what only
\* the script reads is Secure on an insecure page or of another path.
RoundTrip ==
  \A d \in Documents :
    (~d.sandboxed /\ d.top = SiteOf(d.url)) =>
      LET sent == ToSet(RequestCookies(ScriptClient(d, "same-origin"), d.url, "subresource"))
          read == ToSet(DocumentCookies(d)) IN
      /\ \A c \in sent \ read : c.httpOnly
      /\ \A c \in read \ sent : (c.secure /\ ~d.url.secure) \/ ~IsPrefix(c.path, d.url.path)

\* A chain sends one request and as many more as redirects are allowed, over
\* HTTP/2 too, where the first request is not sent again.
ChainsBounded == \A f \in Fetchers : fetches[f].asked <= MaxRedirects + 1

\* Each answer stands where its request stood, what was cached, failed or was
\* asked for again included, and a fetch that returned has them all.
AnswersPlaced ==
  \A f \in Fetchers : \A i \in DOMAIN fetches[f].results :
    /\ fetches[f].results[i] \in {0, i}
    /\ fetches[f].phase = "done" => fetches[f].results[i] = i

\* The client and its cookies.
ClientInv ==
  /\ ClientTypeOK /\ JarIsLatest /\ SentAsAllowed /\ RoundTrip
  /\ ChainsBounded /\ AnswersPlaced
=============================================================================
