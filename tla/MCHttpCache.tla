---------------------------- MODULE MCHttpCache ----------------------------
(***************************************************************************)
(* The network side: the response cache of HttpCache, the dates its        *)
(* lifetimes come from (HttpDate) and the client with its cookie jar       *)
(* (HttpClient).  They share no state: a lifetime is a constant of the     *)
(* first, the second keeps no state of the program, and what the client    *)
(* returns is any answer to the cache.  Each is explored while the others  *)
(* rest: focus, fixed by the initial state, names the one that moves.      *)
(* Nothing tells two renderers apart.                                      *)
(***************************************************************************)
EXTENDS HttpCache, HttpDate, HttpClient, TLC

RendererSymmetry == Permutations(Renderers)

\* A site of two hosts, one under the other, and a site without TLS.
MCHosts == {"x", "s.x", "y"}

MCSiteDomain == [h \in MCHosts |-> IF h = "s.x" THEN "x" ELSE h]

MCParents == [h \in MCHosts |-> IF h = "s.x" THEN {"x"} ELSE {}]

Root == [secure |-> TRUE, host |-> "x", path |-> << >>]

Sub == [secure |-> TRUE, host |-> "s.x", path |-> <<"p">>]

Other == [secure |-> FALSE, host |-> "y", path |-> << >>]

MCUrls == {Root, Sub, Other}

\* A page at the top level and a sandboxed frame of another site in it.
MCDocuments ==
  {[url |-> Sub, top |-> SiteOf(Sub), sandboxed |-> FALSE],
   [url |-> Other, top |-> SiteOf(Sub), sandboxed |-> TRUE]}

\* One batch for HTTP/2, one for HTTP/1.1 with an address that is none.
MCBatches == {<<Root, Root>>, <<Other, Malformed>>}

Header == [name |-> "n", domain |-> "", path |-> << >>, maxAge |-> {}, expires |-> {},
           secure |-> FALSE, httpOnly |-> FALSE, sameSite |-> "lax"]

MCSetCookies ==
  {[Header EXCEPT !.domain = "x", !.sameSite = "strict"],
   [Header EXCEPT !.path = <<"p">>, !.secure = TRUE, !.sameSite = "none"],
   [Header EXCEPT !.httpOnly = TRUE, !.maxAge = {1}, !.expires = {0}],
   [Header EXCEPT !.maxAge = {0}]}

VARIABLE focus

netVars == <<vars, dateVars, clientVars, focus>>

NetInit ==
  /\ Init /\ DateInit /\ ClientInit
  /\ focus \in {"cache", "dates", "client"}
  /\ focus # "cache" => origin = CHOOSE rep \in Representation : rep.version = 1

NetNext ==
  /\ UNCHANGED focus
  /\ \/ focus = "cache" /\ Next /\ UNCHANGED <<dateVars, clientVars>>
     \/ focus = "dates" /\ DateNext /\ UNCHANGED <<vars, clientVars>>
     \/ focus = "client" /\ ClientNext /\ UNCHANGED <<vars, dateVars>>

NetSpec == NetInit /\ [][NetNext]_netVars
=============================================================================
