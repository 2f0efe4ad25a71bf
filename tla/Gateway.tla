------------------------------ MODULE Gateway -------------------------------
(***************************************************************************)
(* What stands between a browser and what it wants: the sync server's      *)
(* configuration, tokens, CORS and request limits, and the proxy that      *)
(* forwards git requests.                                                  *)
(***************************************************************************)
EXTENDS Absent, Integers, Sequences, SequencesExt, FiniteSets

CONSTANT MAX_REDIRECTS      \* redirects the proxy follows

ASSUME GatewayAssumption == MAX_REDIRECTS \in Nat

Everyone == "*"

(***************************************************************************)
(* Starting the server; Null when it does not start.                       *)
(***************************************************************************)
DefaultMaxObjectSize == 4

Load(env) ==
    LET size == IF env.maxObjectSize = Null THEN DefaultMaxObjectSize ELSE env.maxObjectSize IN
    IF env.dataDir = Null \/ env.tokensFile = Null \/ size <= 0 THEN Null
    ELSE [maxObjectSize |-> size, tokens |-> env.tokensFile, origins |-> env.origins]

\* A line is a comment, or names an account and the hash of its token; the hash of a
\* token is written as the token itself.
ParseTokens(lines) ==
    LET entries == {i \in DOMAIN lines : ~lines[i].comment}
        Clash == \E i, j \in entries : i # j /\ lines[i].hash = lines[j].hash
    IN  IF entries = {} \/ Clash \/ \E i \in entries : ~lines[i].valid THEN Null
        ELSE [h \in {lines[i].hash : i \in entries} |->
                lines[CHOOSE i \in entries : lines[i].hash = h].account]

Serving(env) == Load(env) # Null /\ ParseTokens(env.tokensFile) # Null

Lookup(registry, token) ==
    IF token \in DOMAIN registry THEN registry[token] ELSE Null

(***************************************************************************)
(* A request to the server: its status, whether the page may read the      *)
(* answer, and the account the store was asked to serve, Null when the     *)
(* request did not get as far; stored is what the store then says.         *)
(***************************************************************************)
Answer(status, allowed, account) ==
    [status |-> status, readable |-> allowed, account |-> account]

originListed(origins, origin) == origin # Null /\ (Everyone \in origins \/ origin \in origins)

\* Mutant: a method the adapter uses is left out.
GetAndPut == {"GET", "PUT", "OPTIONS"}
AllowMethods == {"GET", "PUT", "DELETE", "OPTIONS"}
AllowHeaders == {"Authorization", "Content-Type", "If-None-Match"}

\* Without a list there is no middleware, and OPTIONS is answered without CORS headers.
PreflightGrants(origins, request) ==
    /\ origins # {} /\ originListed(origins, request.origin)
    /\ request.method \in AllowMethods
    /\ request.headers \subseteq AllowHeaders

StoreStatus(result) ==
    CASE result = "ok"            -> 201
      [] result = "notFound"      -> 404
      [] result = "invalidName"   -> 400
      [] result = "alreadyExists" -> 409
      [] result = "quotaExceeded" -> 507
      [] OTHER                    -> 500

handlePut(size, max, stored, allowed, account) ==
    IF size > max THEN Answer(413, allowed, Null)
    ELSE IF size = 0 THEN Answer(400, allowed, Null)
    ELSE Answer(StoreStatus(stored), allowed, account)
handleOther(stored, allowed, account) ==
    Answer(IF stored = "ok" THEN 200 ELSE StoreStatus(stored), allowed, account)

ServeHTTP(env, request, stored) ==
    LET config == Load(env)
        allowed == config.origins # {} /\ originListed(config.origins, request.origin)
        account == Lookup(ParseTokens(config.tokens), request.token)
    IN  IF account = Null THEN Answer(401, allowed, Null)
        ELSE IF request.method = "PUT"
        THEN handlePut(request.size, config.maxObjectSize, stored, allowed, account)
        ELSE handleOther(stored, allowed, account)

(***************************************************************************)
(* The server adapter in a page: what its call is told, and the account    *)
(* the store served meanwhile.  A request whose preflight is refused is    *)
(* never sent; one whose answer the page may not read has been served all  *)
(* the same.  (The flag retryable of the error thrown is only shown: the   *)
(* next cycle comes whatever it says.)                                     *)
(***************************************************************************)
AdapterHeaders(method) ==
    IF method = "PUT" THEN {"Authorization", "Content-Type"} ELSE {"Authorization"}

Call(env, request, stored) ==
    LET answer == ServeHTTP(env, request, stored)
        told == IF (request.origin = Null \/ answer.readable) /\ answer.status < 300
                THEN "ok" ELSE "error"
    IN  IF request.origin # Null /\ ~PreflightGrants(Load(env).origins, request)
        THEN [told |-> "error", account |-> Null]
        ELSE [told |-> told, account |-> answer.account]

(***************************************************************************)
(* The git proxy.  A host is a sequence of labels, the last one first;     *)
(* upstream says where each redirects to, Null when it answers itself and  *)
(* Unreadable when the Location it sends is no URL.                        *)
(***************************************************************************)
originAllowed(origin, allowed) == origin = Null \/ allowed = {} \/ Everyone \in allowed \/ origin \in allowed

\* Mutant: a name that merely begins with the same label is let through.
sharesLabel(host, allowed) == \E entry \in allowed : host[1] = entry[1]
\* The host itself or a subdomain of it.
hostAllowed(host, allowed) == \E entry \in allowed : IsPrefix(entry, host)

Unreadable == <<>>
Reply(status, fetched) == [status |-> status, fetched |-> fetched]

\* One round of the loop of forward: fetch a host, and stop or go where it redirects to.
Hop(s, request, hosts, upstream) ==
    LET to == upstream[s.current]
        After(status, current, done) ==
            [status |-> status, current |-> current, done |-> done,
             fetched |-> Append(s.fetched, s.current)]
    IN  IF s.done THEN s
        ELSE IF to = Null THEN After(200, s.current, TRUE)
        ELSE IF to = Unreadable THEN After(502, s.current, TRUE)
        ELSE IF ~hostAllowed(to, hosts) THEN After(403, s.current, TRUE)
        ELSE IF request.method # "GET" THEN After(502, s.current, TRUE)
        ELSE After(302, to, FALSE)

Hops(request, hosts, upstream) ==
    LET Upto[i \in 0 .. MAX_REDIRECTS + 1] ==
            IF i = 0 THEN [current |-> request.host, status |-> 0, fetched |-> <<>>, done |-> FALSE]
            ELSE Hop(Upto[i - 1], request, hosts, upstream)
    IN  Upto

forward(request, hosts, upstream) ==
    LET end == Hops(request, hosts, upstream)[MAX_REDIRECTS + 1] IN Reply(end.status, end.fetched)

isGitRequest(request) == request.endpoint = (IF request.method = "GET" THEN "refs" ELSE "pack")

proxyFetch(request, config, upstream) ==
    LET granted == originAllowed(request.origin, config.origins) IN
    CASE request.method = "OPTIONS" -> Reply(IF granted THEN 204 ELSE 403, <<>>)
      [] request.method \notin {"GET", "POST", "OPTIONS"} -> Reply(405, <<>>)
      [] request.method \in {"GET", "POST"} ->
            IF ~granted THEN Reply(403, <<>>)
            ELSE IF request.host = Null THEN Reply(400, <<>>)
            ELSE IF ~hostAllowed(request.host, config.hosts) THEN Reply(403, <<>>)
            ELSE IF ~isGitRequest(request) THEN Reply(403, <<>>)
            ELSE forward(request, config.hosts, upstream)
=============================================================================
