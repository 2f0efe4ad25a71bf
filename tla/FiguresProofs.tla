--------------------------- MODULE FiguresProofs ----------------------------
(***************************************************************************)
(* What the figures of the app and the answers of the two servers come to  *)
(* for any input: the server adapter's calls, the git proxy, the import of *)
(* a statement, the balance sheet, the reports, the bills of a card, the   *)
(* windows of a budget and the occurrences of a rule.  A general theorem   *)
(* says it of one computation; the theorem after it, of the inputs that    *)
(* the run of MCFigures tries.                                             *)
(***************************************************************************)
EXTENDS MCFigures, LoopProofs, SequenceTheorems

\* A file the server accepts lists a token once: the account it is looked up for is the
\* one of its line, and a token that no line has is not found.
LEMMA LookupEntry ==
    ASSUME NEW lines, ParseTokens(lines) # Null, NEW token
    PROVE  /\ \A i \in DOMAIN lines :
                ~lines[i].comment /\ lines[i].hash = token =>
                    /\ Lookup(ParseTokens(lines), token) = lines[i].account
                    /\ lines[i].valid
           /\ (~\E i \in DOMAIN lines : ~lines[i].comment /\ lines[i].hash = token) =>
                Lookup(ParseTokens(lines), token) = Null
<1> DEFINE entries == {i \in DOMAIN lines : ~lines[i].comment}
           registry == [h \in {lines[i].hash : i \in entries} |->
                            lines[CHOOSE i \in entries : lines[i].hash = h].account]
<1>1. /\ \A i, j \in entries : lines[i].hash = lines[j].hash => i = j
      /\ \A i \in entries : lines[i].valid
      /\ ParseTokens(lines) = registry
  BY DEF ParseTokens
<1>2. ASSUME NEW i \in entries, lines[i].hash = token
      PROVE  Lookup(registry, token) = lines[i].account
  <2>1. (CHOOSE j \in entries : lines[j].hash = token) = i
    <3> HIDE DEF entries
    <3> QED
      BY <1>1, <1>2
  <2>2. token \in DOMAIN registry
    BY <1>2
  <2>3. registry[token] = lines[CHOOSE j \in entries : lines[j].hash = token].account
    <3> HIDE DEF entries
    <3> QED
      BY <2>2
  <2> HIDE DEF registry, entries
  <2> QED
    BY <2>1, <2>2, <2>3 DEF Lookup
<1>3. ASSUME ~\E i \in entries : lines[i].hash = token
      PROVE  Lookup(registry, token) = Null
  BY <1>3 DEF Lookup
<1> HIDE DEF registry
<1> QED
  BY <1>1, <1>2, <1>3

\* A server that starts has the configuration of its environment.
LEMMA Loaded ==
    ASSUME NEW env, Serving(env), env.maxObjectSize \in Int \cup {Null}
    PROVE  /\ Load(env).tokens = env.tokensFile
           /\ Load(env).origins = env.origins
           /\ Load(env).maxObjectSize \in Nat \ {0}
BY DEF Serving, Load, DefaultMaxObjectSize

\* A page that is let in gets through its preflight, whatever the adapter asks for.
LEMMA Preflight ==
    ASSUME NEW env, Serving(env), env.maxObjectSize \in Int \cup {Null}, NEW request,
           request.method \in {"GET", "PUT", "DELETE"},
           request.headers = AdapterHeaders(request.method),
           request.origin # Null
    PROVE  /\ PreflightGrants(Load(env).origins, request) <=>
                    request.origin \in env.origins \/ Everyone \in env.origins
           /\ (Load(env).origins # {} /\ originListed(Load(env).origins, request.origin)) <=>
                    request.origin \in env.origins \/ Everyone \in env.origins
<1>1. request.method \in AllowMethods /\ request.headers \subseteq AllowHeaders
  BY DEF AllowMethods, AllowHeaders, AdapterHeaders
<1> QED
  BY <1>1, Loaded DEF PreflightGrants, originListed

(***************************************************************************)
(* With any configuration the server starts with, a call of the adapter    *)
(* reaches the store exactly when its page is let in, its token is listed  *)
(* and its body fits; the store serves the account of the token's line;    *)
(* and the page is told "ok" exactly when the store did what was asked.    *)
(***************************************************************************)
THEOREM CallIsHonest ==
    ASSUME NEW env, Serving(env), env.maxObjectSize \in Int \cup {Null},
           \A i \in DOMAIN env.tokensFile :
                env.tokensFile[i].valid => env.tokensFile[i].account # Null,
           NEW request,
           request.method \in {"GET", "PUT", "DELETE"},
           request.headers = AdapterHeaders(request.method),
           request.size \in Nat,
           NEW stored
    PROVE  Honest(env, request, stored)
<1> DEFINE lines == env.tokensFile
           entries == {l \in ToSet(lines) : ~l.comment}
           welcome == request.origin \in {Null} \cup env.origins \/ Everyone \in env.origins
           known == \E l \in entries : l.hash = request.token
           max == Load(env).maxObjectSize
           fits == request.method # "PUT" \/ request.size \in 1 .. max
           account == Lookup(ParseTokens(Load(env).tokens), request.token)
           allowed == Load(env).origins # {} /\ originListed(Load(env).origins, request.origin)
           answer == ServeHTTP(env, request, stored)
           result == Call(env, request, stored)
           barred == request.origin # Null /\ ~welcome
<1>1. max \in Nat \ {0} /\ ParseTokens(lines) # Null
  BY Loaded DEF Serving
<1>2. /\ account = Null <=> ~known
      /\ \A l \in entries : l.hash = request.token => account = l.account
  <2>1. account = Lookup(ParseTokens(lines), request.token)
    BY Loaded
  <2>2. \A l : l \in entries <=> \E i \in DOMAIN lines : l = lines[i] /\ ~lines[i].comment
    BY DEF ToSet
  <2> HIDE DEF lines, entries, account
  <2>3. \A l \in entries : l.hash = request.token => account = l.account /\ account # Null
    BY <1>1, <2>1, <2>2, LookupEntry DEF lines
  <2>4. ~known => account = Null
    BY <1>1, <2>1, <2>2, LookupEntry
  <2> QED
    BY <2>3, <2>4
<1>3. answer = IF account = Null THEN Answer(401, allowed, Null)
               ELSE IF request.method = "PUT"
               THEN handlePut(request.size, max, stored, allowed, account)
               ELSE handleOther(stored, allowed, account)
  BY DEF ServeHTTP
<1>4. PICK code : /\ code = StoreStatus(stored) /\ code \in Int
                  /\ code < 300 <=> stored = "ok"
  BY DEF StoreStatus
<1>5. /\ answer.readable = allowed
      /\ answer.account = IF fits THEN account ELSE Null
      /\ answer.status < 300 <=> answer.account # Null /\ stored = "ok"
  <2> HIDE DEF answer, account, allowed, max
  <2>1. CASE account = Null
    BY <1>3, <2>1 DEF Answer
  <2>2. CASE account # Null /\ request.method = "PUT"
    BY <1>1, <1>3, <1>4, <2>2 DEF Answer, handlePut
  <2>3. CASE account # Null /\ request.method # "PUT"
    BY <1>3, <1>4, <2>3 DEF Answer, handleOther
  <2> QED
    BY <2>1, <2>2, <2>3
<1>6. CASE barred
  <2>1. ~PreflightGrants(Load(env).origins, request)
    BY <1>6, Preflight
  <2>2. result = [told |-> "error", account |-> Null]
    BY <1>6, <2>1 DEF Call
  <2> HIDE DEF result
  <2>3. result.told # "ok" /\ result.account = Null /\ ~welcome
    BY <1>6, <2>2
  <2> QED
    BY <2>3 DEF Honest, result
<1>7. CASE ~barred
  <2>1. request.origin # Null => PreflightGrants(Load(env).origins, request) /\ allowed
    BY <1>7, Preflight
  <2>2. result = [told |-> IF answer.status < 300 THEN "ok" ELSE "error", account |-> answer.account]
    BY <1>5, <2>1 DEF Call
  <2>3. welcome
    BY <1>7
  <2> HIDE DEF result, answer, account, allowed, known, fits, entries, welcome
  <2>4. result.account = answer.account /\ (result.told = "ok" <=> answer.status < 300)
    BY <2>2
  <2>5. result.account # Null <=> welcome /\ known /\ fits
    BY <1>2, <1>5, <2>3, <2>4
  <2>6. result.account # Null => \A l \in entries : l.hash = request.token => l.account = result.account
    BY <1>2, <1>5, <2>4
  <2>7. result.told = "ok" <=> result.account # Null /\ stored = "ok"
    BY <1>5, <2>4
  <2> QED
    BY <2>5, <2>6, <2>7 DEF Honest, result, entries, known, fits, welcome
<1> QED
  BY <1>6, <1>7

----------------------------------------------------------------------------
\* The loop of forward in the git proxy.

HopState(D) == [current : D, status : Nat, fetched : Seq(D), done : BOOLEAN]

LEMMA HopType ==
    ASSUME NEW request, NEW hosts, NEW upstream, NEW D, \A h \in D : upstream[h] \in D \cup {Null, Unreadable},
           NEW s \in HopState(D)
    PROVE  Hop(s, request, hosts, upstream) \in HopState(D)
<1>1. s.current \in D /\ s.status \in Nat /\ s.fetched \in Seq(D) /\ s.done \in BOOLEAN
  BY DEF HopState
<1>2. Append(s.fetched, s.current) \in Seq(D)
  BY <1>1
<1>3. upstream[s.current] \in D \cup {Null, Unreadable}
  BY <1>1
<1> QED
  BY <1>1, <1>2, <1>3 DEF Hop, HopState

LEMMA HopsUnfold ==
    ASSUME NEW request, NEW hosts, NEW upstream, NEW D, request.host \in D,
           \A h \in D : upstream[h] \in D \cup {Null, Unreadable}
    PROVE  LET Rounds == MAX_REDIRECTS + 1
               f == Hops(request, hosts, upstream)
           IN  /\ f \in [0 .. Rounds -> HopState(D)]
               /\ f[0] = [current |-> request.host, status |-> 0, fetched |-> <<>>, done |-> FALSE]
               /\ \A i \in 1 .. Rounds : f[i] = Hop(f[i - 1], request, hosts, upstream)
<1> DEFINE Rounds == MAX_REDIRECTS + 1
           States == HopState(D)
           start == [current |-> request.host, status |-> 0, fetched |-> <<>>, done |-> FALSE]
           Round == [i \in 1 .. Rounds |-> [s \in States |-> Hop(s, request, hosts, upstream)]]
<1>1. Rounds \in Nat
  BY GatewayAssumption
<1>2. start \in States
  BY DEF HopState
<1>3. Round \in [1 .. Rounds -> [States -> States]]
  BY HopType
<1>4. PICK f : /\ f \in [0 .. Rounds -> States] /\ f[0] = start
               /\ \A i \in 1 .. Rounds : f[i] = Round[i][f[i - 1]]
  <2>1. IsLoop(Round, Rounds, States, start)
    BY <1>1, <1>2, <1>3 DEF IsLoop
  <2> HIDE DEF Rounds, States, start, Round
  <2>2. PICK f \in Runs(Round, Rounds, States, start) : TRUE
    BY <2>1, Iteration
  <2> QED
    BY <2>2 DEF Runs
<1>5. \A i \in 1 .. Rounds : f[i] = Hop(f[i - 1], request, hosts, upstream)
  <2> SUFFICES ASSUME NEW i \in 1 .. Rounds PROVE f[i] = Hop(f[i - 1], request, hosts, upstream)
    OBVIOUS
  <2>1. f[i - 1] \in States
    BY <1>1, <1>4
  <2> HIDE DEF States
  <2> QED
    BY <1>4, <2>1
<1>6. f = [i \in 0 .. Rounds |-> IF i = 0 THEN start ELSE Hop(f[i - 1], request, hosts, upstream)]
  <2> HIDE DEF States, start
  <2> QED
    BY <1>1, <1>4, <1>5
<1> DEFINE F == Hops(request, hosts, upstream)
<1>7. F = [i \in 0 .. Rounds |-> IF i = 0 THEN start ELSE Hop(F[i - 1], request, hosts, upstream)]
  BY <1>6, Zenon DEF Hops
<1> HIDE DEF F, States, start
<1>8. F[0] = start /\ \A i \in 1 .. Rounds : F[i] = Hop(F[i - 1], request, hosts, upstream)
  BY <1>1, <1>7
<1> DEFINE S == {j \in Nat : j <= Rounds => F[j] \in States}
<1>9. \A i \in Nat : i \in S
  <2>1. 0 \in S
    BY <1>2, <1>8
  <2>2. ASSUME NEW j \in Nat, j \in S PROVE j + 1 \in S
    <3> SUFFICES ASSUME j + 1 <= Rounds PROVE F[j + 1] \in States
      OBVIOUS
    <3>1. F[j + 1] = Hop(F[j], request, hosts, upstream) /\ F[j] \in States
      BY <1>1, <1>8, <2>2
    <3> QED
      BY <3>1, HopType DEF States
  <2> HIDE DEF S
  <2> QED
    BY <2>1, <2>2, NatSet
<1>10. F \in [0 .. Rounds -> States]
  BY <1>1, <1>7, <1>9
<1> QED
  BY <1>8, <1>10 DEF F, States, start

\* What the loop of forward keeps: it has fetched listed hosts only and is at one, it has
\* fetched no more than one host a round, and a request with a body is over after one.
LEMMA HopsStay ==
    ASSUME NEW request, NEW hosts, NEW upstream, NEW D, request.host \in D,
           \A h \in D : upstream[h] \in D \cup {Null, Unreadable},
           hostAllowed(request.host, hosts)
    PROVE  LET end == Hops(request, hosts, upstream)[MAX_REDIRECTS + 1] IN
           /\ \A i \in DOMAIN end.fetched : hostAllowed(end.fetched[i], hosts)
           /\ Len(end.fetched) <= IF request.method = "GET" THEN MAX_REDIRECTS + 1 ELSE 1
<1> DEFINE Rounds == MAX_REDIRECTS + 1
           F == Hops(request, hosts, upstream)
           Kept(s, i) == /\ hostAllowed(s.current, hosts)
                         /\ \A k \in DOMAIN s.fetched : hostAllowed(s.fetched[k], hosts)
                         /\ Len(s.fetched) <= i
                         /\ request.method # "GET" => /\ Len(s.fetched) <= 1
                                                      /\ i = 0 \/ s.done
           S == {i \in Nat : i <= Rounds => Kept(F[i], i)}
<1>1. /\ F \in [0 .. Rounds -> HopState(D)]
      /\ F[0] = [current |-> request.host, status |-> 0, fetched |-> <<>>, done |-> FALSE]
      /\ \A i \in 1 .. Rounds : F[i] = Hop(F[i - 1], request, hosts, upstream)
  BY HopsUnfold
<1>2. Rounds \in Nat
  BY GatewayAssumption
<1> HIDE DEF F, Rounds
<1>3. 0 \in S
  <2>1. Kept(F[0], 0)
    BY <1>1
  <2> QED
    BY <2>1
<1>4. ASSUME NEW i \in Nat, i \in S PROVE i + 1 \in S
  <2> SUFFICES ASSUME i + 1 <= Rounds PROVE Kept(F[i + 1], i + 1)
    OBVIOUS
  <2> DEFINE s == F[i]
             t == F[i + 1]
             to == upstream[s.current]
             Fetched == Append(s.fetched, s.current)
  <2>1. t = Hop(s, request, hosts, upstream) /\ s \in HopState(D) /\ Kept(s, i)
    BY <1>1, <1>2, <1>4
  <2>2. s.current \in D /\ s.fetched \in Seq(D) /\ s.done \in BOOLEAN
    BY <2>1 DEF HopState
  <2> HIDE DEF s, t
  <2>3. CASE s.done
    <3>1. t = s
      BY <2>1, <2>3 DEF Hop
    <3>2. Len(s.fetched) \in Nat
      BY <2>2
    <3>3. Kept(s, i + 1)
      BY <2>1, <2>3, <3>2
    <3> QED
      BY <3>1, <3>3 DEF t
  <2>4. CASE ~s.done
    <3>1. /\ t.fetched = Fetched
          /\ t.current \in {s.current, to}
          /\ t.current = to => hostAllowed(to, hosts) \/ to = s.current
          /\ request.method # "GET" => t.done
      BY <2>4, <2>1 DEF Hop
    <3>2. \A k \in DOMAIN Fetched : hostAllowed(Fetched[k], hosts)
      BY <2>1, <2>2
    <3>3. Len(Fetched) = Len(s.fetched) + 1 /\ Len(s.fetched) \in Nat
      BY <2>2
    <3>4. request.method # "GET" => i = 0 /\ Len(s.fetched) <= 0
      BY <2>1, <2>4
    <3> QED
      <4>1. hostAllowed(t.current, hosts)
        BY <2>1, <3>1
      <4>2. \A k \in DOMAIN t.fetched : hostAllowed(t.fetched[k], hosts)
        BY <3>1, <3>2
      <4>3. Len(t.fetched) <= i + 1
        BY <2>1, <3>1, <3>3
      <4>4. request.method # "GET" => Len(t.fetched) <= 1 /\ t.done
        BY <3>1, <3>3, <3>4
      <4> HIDE DEF Fetched
      <4> QED
        BY <4>1, <4>2, <4>3, <4>4 DEF t
  <2> QED
    BY <2>2, <2>3, <2>4
<1> HIDE DEF S
<1>5. Rounds \in S
  BY <1>2, <1>3, <1>4, NatSet
<1>6. Kept(F[Rounds], Rounds)
  BY <1>2, <1>5 DEF S
<1> QED
  BY <1>2, <1>6 DEF F, Rounds

(***************************************************************************)
(* Wherever the hosts of the world redirect to, the proxy fetches from     *)
(* nothing but listed hosts and their subdomains, at most once more than   *)
(* it follows redirects, and once when the request has a body.             *)
(***************************************************************************)
THEOREM ProxyIsHome ==
    ASSUME NEW request, NEW config, NEW upstream, NEW Labels,
           config.hosts \subseteq Seq(Labels),
           DOMAIN upstream \subseteq Seq(Labels),
           \A h \in DOMAIN upstream : upstream[h] \in DOMAIN upstream \cup {Null, Unreadable},
           request.host \in DOMAIN upstream \cup {Null}
    PROVE  Home(request, config, upstream)
<1> DEFINE reply == proxyFetch(request, config, upstream)
           D == DOMAIN upstream
           Bound == IF request.method = "GET" THEN MAX_REDIRECTS + 1 ELSE 1
           Fetches == /\ request.method \in {"GET", "POST"} /\ request.host # Null
                      /\ hostAllowed(request.host, config.hosts)
                      /\ reply = forward(request, config.hosts, upstream)
<1>1. reply.fetched = << >> \/ Fetches
  BY DEF proxyFetch, Reply
<1>2. Bound \in Nat
  BY GatewayAssumption
<1>3. CASE reply.fetched = << >>
  BY <1>2, <1>3 DEF Home
<1>4. CASE Fetches
  <2> DEFINE end == Hops(request, config.hosts, upstream)[MAX_REDIRECTS + 1]
  <2>1. reply.fetched = end.fetched
    BY <1>4 DEF forward, Reply
  <2>2. request.host \in D
    BY <1>4
  <2>3. /\ \A i \in DOMAIN end.fetched : hostAllowed(end.fetched[i], config.hosts)
        /\ Len(end.fetched) <= Bound
    BY <1>4, <2>2, HopsStay
  <2>4. end.fetched \in Seq(D)
    <3>1. Hops(request, config.hosts, upstream) \in [0 .. MAX_REDIRECTS + 1 -> HopState(D)]
      BY <2>2, HopsUnfold
    <3> QED
      BY <3>1, GatewayAssumption DEF HopState
  <2> HIDE DEF end, reply
  <2>5. ASSUME NEW i \in DOMAIN end.fetched
        PROVE  \E entry \in config.hosts : SubSeq(end.fetched[i], 1, Len(entry)) = entry
    <3>1. PICK entry \in config.hosts : IsPrefix(entry, end.fetched[i])
      BY <2>3 DEF hostAllowed
    <3>2. entry \in Seq(Labels) /\ end.fetched[i] \in Seq(Labels)
      BY <2>4
    <3> QED
      BY <3>1, <3>2 DEF IsPrefix
  <2> QED
    BY <2>1, <2>3, <2>5 DEF Home, reply
<1> QED
  BY <1>1, <1>3, <1>4

----------------------------------------------------------------------------
(***************************************************************************)
(* Any statement of lines that hold numbers where the columns say so:      *)
(* planned again after its import it gives nothing, its lines are all      *)
(* accounted for, and its rows have dates that exist.                      *)
(***************************************************************************)
THEOREM StatementSettles ==
    ASSUME NEW lines, Len(lines) \in Nat, DOMAIN lines = 1 .. Len(lines),
           \A i \in DOMAIN lines : Readable(lines[i]),
           NEW dayFirst \in BOOLEAN
    PROVE  Settled(lines, dayFirst)
<1> DEFINE first == planImport(lines, dayFirst, {})
           again == planImport(lines, dayFirst, KeysOf(first.ready))
<1>1. again.ready = <<>> /\ again.failed = first.failed
  BY PlanAgain
<1>2. Cardinality({i \in DOMAIN lines : lines[i].blank})
        + Len(first.ready) + first.duplicates + first.failed = Len(lines)
  BY PlanCounts
<1>3. ASSUME NEW k \in DOMAIN first.ready
      PROVE  LET r == first.ready[k] IN
             r.amount > 0 /\ r.date <= endOfMonth(r.date) /\ r.date >= startOfMonth(r.date)
  <2>1. PICK i \in 1 .. Len(lines) : /\ Gives(lines, dayFirst, i)
                                     /\ first.ready[k] = PlannedRow(lines[i], dayFirst)
    BY <1>3, PlanKeeps
  <2> QED
    BY <2>1, PlannedDated DEF Gives
<1> HIDE DEF first
<1>4. KeysOf(first.ready) = {duplicateKey(r) : r \in ToSet(first.ready)}
  BY DEF KeysOf, ToSet
<1>5. \A r \in ToSet(first.ready) :
            r.amount > 0 /\ r.date <= endOfMonth(r.date) /\ r.date >= startOfMonth(r.date)
  BY <1>3 DEF ToSet
<1> HIDE DEF again
<1> QED
  BY <1>1, <1>2, <1>4, <1>5, Zenon DEF Settled, first, again

----------------------------------------------------------------------------
\* The accounts screen.

\* A rate is above zero: RatesService refuses to save another.
IsRate(rate) == rate.num \in Nat \ {0} /\ rate.den \in Nat \ {0}
Quoted(rate) == rate = NoRate \/ IsRate(rate)

LEMMA ConvertType ==
    ASSUME NEW amount \in Int, NEW rate, IsRate(rate), NEW from, NEW to
    PROVE  convert(amount, rate, from, to) \in Int
<1> DEFINE scale == minorUnitExponent(to) - minorUnitExponent(from)
<1>1. \A x \in Int, d \in Nat \ {0} : roundHalfAwayFromZero(x, d) \in Int
  <2>1. \A x \in Int, d \in Nat \ {0} : 2 * Abs(x) + d \in Nat /\ 2 * d \in Nat \ {0}
    BY DEF Abs
  <2>2. \A y \in Nat, e \in Nat \ {0} : y \div e \in Int
    OBVIOUS
  <2> QED
    BY <2>1, <2>2 DEF roundHalfAwayFromZero
<1>2. scale \in -3 .. 3
  BY DEF minorUnitExponent
<1>3. ~(rate.num <= 0) /\ amount * rate.num \in Int
  <2>1. PICK n \in Nat \ {0} : n = rate.num
    BY DEF IsRate
  <2>2. ~(n <= 0) /\ amount * n \in Int
    OBVIOUS
  <2> QED
    BY <2>1, <2>2
<1>7. PICK x \in Int : x = amount * rate.num
  BY <1>3
<1>4. PICK d \in Nat \ {0} : d = rate.den
  BY DEF IsRate
<1> HIDE DEF scale
<1>5. CASE scale >= 0
  <2>1. 10^scale \in Nat
    <3>1. 10^0 \in Nat /\ 10^1 \in Nat /\ 10^2 \in Nat /\ 10^3 \in Nat
      OBVIOUS
    <3>2. scale \in {0, 1, 2, 3}
      BY <1>2, <1>5
    <3> QED
      BY <3>1, <3>2
  <2>2. x * 10^scale \in Int
    <3>1. \A i \in Int, j \in Nat : i * j \in Int
      OBVIOUS
    <3> QED
      BY <2>1, <3>1
  <2> QED
    BY <1>1, <1>3, <1>4, <1>5, <1>7, <2>2 DEF convert, scale
<1>6. CASE ~(scale >= 0)
  <2>1. 10^(-scale) \in Nat \ {0}
    <3>1. 10^1 \in Nat \ {0} /\ 10^2 \in Nat \ {0} /\ 10^3 \in Nat \ {0}
      OBVIOUS
    <3>2. -scale \in {1, 2, 3}
      BY <1>2, <1>6
    <3> QED
      BY <3>1, <3>2
  <2>2. d * 10^(-scale) \in Nat \ {0}
    <3>1. \A i \in Nat \ {0}, j \in Nat \ {0} : i * j \in Nat \ {0}
      OBVIOUS
    <3> QED
      BY <2>1, <3>1
  <2> QED
    BY <1>1, <1>3, <1>4, <1>6, <1>7, <2>2 DEF convert, scale
<1> QED
  BY <1>5, <1>6

\* A transaction moves an account by whole units.
LEMMA BalanceType ==
    ASSUME NEW account, account.openingBalance \in Int,
           NEW txns, IsFiniteSet(txns), \A t \in txns : t.amount \in Int
    PROVE  balanceOf(account, txns) \in Int
<1> DEFINE f == [t \in txns |-> signedFor(account.id, t)]
<1>1. \A t \in txns : signedFor(account.id, t) \in Int
  BY DEF signedFor
<1>2. Summable(f, txns) /\ DOMAIN f = txns
  BY <1>1 DEF Summable
<1>3. SumFunctionOnSet(f, txns) \in Int
  BY <1>2, SumRemove
<1>4. balanceOf(account, txns) = account.openingBalance + SumFunctionOnSet(f, txns)
  BY <1>2 DEF balanceOf, SumFunction
<1> HIDE DEF f
<1> QED
  BY <1>3, <1>4

(***************************************************************************)
(* Any finite ledger whose groups have ids of their own: the sections put  *)
(* every account that counts in one place, with its sign turned where the  *)
(* sheet turns it back, so that assets less liabilities are what net worth *)
(* adds up account by account.                                             *)
(***************************************************************************)
THEOREM SheetIsNetWorth ==
    ASSUME NEW accounts, NEW groups, NEW txns, NEW reporting, NEW rates,
           IsFiniteSet(accounts), IsFiniteSet(groups), IsFiniteSet(txns),
           \A t \in txns : t.amount \in Int,
           \A a \in accounts : a.openingBalance \in Int /\ Quoted(rates[a.currency]),
           \A g, h \in groups : g.id = h.id => g = h
    PROVE  SheetAgrees(accounts, groups, txns, reporting, rates)
<1> DEFINE shown == {a \in accounts : ~a.archived}
           Value(a) == ValueInReporting(a, txns, reporting, rates)
           Known(a) == a.currency = reporting \/ rates[a.currency] # NoRate
           value == [a \in accounts |-> IF Known(a) THEN Value(a) ELSE 0]
           Counted(X) == Priced(X, reporting, rates)
           Sum(f, X) == SumFunctionOnSet(f, X)
           Members(g) == {a \in shown : a.groupId = g.id}
           loose == ungrouped(shown, groups)
           used == {h \in groups : Members(h) # {}}
           GroupSection(g) == sectionFor(g.id, g.type, Members(g), txns, reporting, rates)
           looseSection == sectionFor(Null, "default", loose, txns, reporting, rates)
           sections == buildSections(shown, groups, txns, reporting, rates)
           Side(side) == {s \in sections : s.side = side}
           Right(s, X) ==
            /\ s.accounts = X /\ s.side \in {"asset", "liability"}
            /\ s.subtotal = IF s.side = "asset" THEN Sum(value, Counted(X)) ELSE -Sum(value, Counted(X))
           assets == SumFunction([s \in Side("asset") |-> s.subtotal])
           liabilities == SumFunction([s \in Side("liability") |-> s.subtotal])
<1>1. \A a \in accounts : Known(a) => Value(a) \in Int
  BY BalanceType, ConvertType DEF ValueInReporting, Quoted
<1> HIDE DEF Value
<1>2. \A X \in SUBSET accounts : Summable(value, X)
  BY <1>1, FS_Subset DEF Summable
<1>3. ASSUME NEW X \in SUBSET accounts
      PROVE  SumFunction([a \in Counted(X) |-> Value(a)]) = Sum(value, Counted(X))
  <2>1. Counted(X) \in SUBSET accounts /\ \A a \in Counted(X) : Known(a)
    BY DEF Priced
  <2> HIDE DEF Counted
  <2> DEFINE f == [a \in Counted(X) |-> Value(a)]
  <2>2. DOMAIN f = Counted(X) /\ \A a \in Counted(X) : f[a] = value[a]
    BY <2>1
  <2> HIDE DEF f, value
  <2>3. Sum(f, Counted(X)) = Sum(value, Counted(X))
    BY <1>2, <2>1, <2>2, SumAgree
  <2> QED
    BY <2>2, <2>3 DEF SumFunction, f
\* What a section shows, with its side's sign, is what its accounts come to.
<1>4. ASSUME NEW id, NEW type, NEW X \in SUBSET accounts
      PROVE  Right(sectionFor(id, type, X, txns, reporting, rates), X)
  <2>1. PICK total : total = SumFunction([a \in Counted(X) |-> Value(a)])
    OBVIOUS
  <2>2. total = Sum(value, Counted(X))
    BY <1>3, <2>1
  <2>3. PICK s : s = sectionFor(id, type, X, txns, reporting, rates)
    OBVIOUS
  <2>4. /\ s.accounts = X /\ s.side = sideOfType(type)
        /\ s.subtotal = displayBalance(total, readsAsOwed(type))
    BY <2>1, <2>3 DEF sectionFor, Value
  <2>5. /\ sideOfType(type) \in {"asset", "liability"}
        /\ readsAsOwed(type) <=> sideOfType(type) # "asset"
    BY DEF sideOfType, readsAsOwed
  <2>6. s.subtotal = IF s.side = "asset" THEN total ELSE -total
    BY <2>4, <2>5 DEF displayBalance
  <2> HIDE DEF Sum, value, Counted
  <2> QED
    BY <2>2, <2>3, <2>4, <2>5, <2>6
<1>5. \A s : s \in sections <=> (\E g \in used : s = GroupSection(g)) \/ (loose # {} /\ s = looseSection)
  BY DEF buildSections
<1> HIDE DEF sections
<1>6. \A g \in groups : Members(g) \in SUBSET shown /\ Right(GroupSection(g), Members(g))
  <2>1. \A g \in groups : Members(g) \in SUBSET shown /\ Members(g) \in SUBSET accounts
    OBVIOUS
  <2> HIDE DEF Members, Right
  <2> QED
    BY <1>4, <2>1
<1>7. loose \in SUBSET shown /\ Right(looseSection, loose)
  <2>1. loose \in SUBSET shown /\ loose \in SUBSET accounts
    BY DEF ungrouped
  <2> HIDE DEF loose, Right
  <2> QED
    BY <1>4, <2>1
<1> HIDE DEF GroupSection, looseSection, Sum, Counted, value
<1>8. ASSUME NEW s \in sections
      PROVE  s.accounts \in SUBSET shown /\ Right(s, s.accounts)
  <2>1. CASE \E g \in used : s = GroupSection(g)
    <3>1. PICK g \in groups : s = GroupSection(g)
      BY <2>1
    <3>2. Members(g) \in SUBSET shown /\ Right(s, Members(g))
      BY <1>6, <3>1
    <3> HIDE DEF Members
    <3> QED
      BY <3>2
  <2>2. CASE loose # {} /\ s = looseSection
    <3> HIDE DEF loose
    <3> QED
      BY <1>7, <2>2
  <2> QED
    BY <1>5, <2>1, <2>2
<1>9. ASSUME NEW a \in shown PROVE \E s \in sections : a \in s.accounts
  <2>1. CASE GroupOf(a, groups) = {}
    <3>1. a \in loose
      BY <2>1 DEF ungrouped
    <3> HIDE DEF loose, looseSection
    <3> QED
      BY <1>5, <1>7, <3>1
  <2>2. CASE GroupOf(a, groups) # {}
    <3>1. PICK g \in groups : g.id = a.groupId
      BY <2>2 DEF GroupOf
    <3>2. a \in Members(g) /\ g \in used
      BY <3>1
    <3>3. GroupSection(g) \in sections /\ GroupSection(g).accounts = Members(g)
      BY <1>5, <1>6, <3>2
    <3> HIDE DEF GroupSection, Members
    <3> QED
      BY <3>2, <3>3
  <2> QED
    BY <2>1, <2>2
<1>10. ASSUME NEW s \in sections, NEW t \in sections, NEW a, a \in s.accounts, a \in t.accounts
       PROVE  s = t
  <2>1. \A g \in used : a \in Members(g) => a \notin loose
    BY DEF ungrouped, GroupOf
  <2>2. \A g, h \in used : a \in Members(g) /\ a \in Members(h) => g = h
    OBVIOUS
  <2>3. \A g \in used : g \in groups
    OBVIOUS
  <2> HIDE DEF GroupSection, Members, loose, looseSection, used
  <2> QED
    BY <1>5, <1>6, <1>7, <1>10, <2>1, <2>2, <2>3
<1>11. IsFiniteSet(sections)
  <2> DEFINE named == {GroupSection(g) : g \in used}
             rest == IF loose = {} THEN {} ELSE {looseSection}
  <2>1. IsFiniteSet(used)
    <3>1. used \subseteq groups
      OBVIOUS
    <3> HIDE DEF used
    <3> QED
      BY <3>1, FS_Subset
  <2>2. IsFiniteSet(named)
    <3> HIDE DEF used, GroupSection
    <3> DEFINE f == [g \in used |-> GroupSection(g)]
    <3>1. f \in Surjection(used, named)
      BY DEF Surjection
    <3> HIDE DEF f, named
    <3> QED
      BY <2>1, <3>1, FS_Surjection DEF ExistsSurjection
  <2>3. IsFiniteSet(rest)
    BY FS_EmptySet, FS_Singleton
  <2>4. sections = named \cup rest
    <3> HIDE DEF used, GroupSection, loose, looseSection
    <3> QED
      BY <1>5
  <2> HIDE DEF named, rest
  <2> QED
    BY <2>2, <2>3, <2>4, FS_Union
<1> HIDE DEF GroupSection, Members, loose, looseSection, used
<1> DEFINE all == Counted(shown)
           key == [a \in all |-> CHOOSE s \in sections : a \in s.accounts]
           worth == [s \in sections |-> Sum(value, Counted(s.accounts))]
<1>12. all \in SUBSET accounts /\ all \subseteq shown
  BY DEF Priced, Counted
<1>13. ASSUME NEW a \in all PROVE key[a] \in sections /\ a \in key[a].accounts
  <2>1. \E s \in sections : a \in s.accounts
    BY <1>9, <1>12
  <2> HIDE DEF all
  <2> QED
    BY <2>1
<1>14. ASSUME NEW s \in sections PROVE {a \in all : key[a] = s} = Counted(s.accounts)
  <2>1. \A a : a \in Counted(s.accounts) <=> a \in all /\ a \in s.accounts
    BY <1>8 DEF Priced, Counted
  <2> HIDE DEF all, key, Counted
  <2>2. \A a \in all : key[a] = s <=> a \in s.accounts
    BY <1>10, <1>13
  <2> QED
    BY <2>1, <2>2
<1>15. \A s \in sections : Counted(s.accounts) \in SUBSET accounts
  BY <1>8 DEF Priced, Counted
<1> HIDE DEF value, key, Counted, all
<1>16. Sum(worth, sections) = Sum(value, all)
  <2>1. Summable(value, all)
    BY <1>2, <1>12
  <2>2. \A s \in sections : worth[s] = SumFunctionOnSet(value, {a \in all : key[a] = s})
    BY <1>14 DEF Sum
  <2>3. \A a \in all : key[a] \in sections
    BY <1>13
  <2> HIDE DEF worth
  <2> QED
    <3>1. Filed(value, all, key, sections, worth)
      BY <1>11, <2>1, <2>2, <2>3 DEF Filed
    <3> QED
      BY <3>1, SumFibres DEF Sum
<1> USE DEF Sum
<1>17. \A X \in SUBSET sections : Summable(worth, X)
  <2>1. \A s \in sections : worth[s] \in Int
    BY <1>2, <1>15, SumRemove
  <2> HIDE DEF worth
  <2> QED
    BY <1>11, <2>1, FS_Subset DEF Summable
<1>18. \A s \in sections : worth[s] = Sum(value, Counted(s.accounts))
  OBVIOUS
<1> HIDE DEF worth
<1>19. PICK A, L : A = Side("asset") /\ L = Side("liability")
  OBVIOUS
<1>20. A \in SUBSET sections /\ L \in SUBSET sections /\ A \cup L = sections /\ A \cap L = {}
  BY <1>8, <1>19
<1>21. Sum(worth, sections) = Sum(worth, A) + Sum(worth, L)
  BY <1>17, <1>20, SumUnion
<1>22. assets = Sum(worth, A)
  <2> DEFINE f == [s \in A |-> s.subtotal]
  <2>1. DOMAIN f = A /\ \A s \in A : f[s] = worth[s]
    BY <1>8, <1>18, <1>19
  <2>2. assets = SumFunctionOnSet(f, DOMAIN f)
    BY <1>19 DEF SumFunction
  <2> HIDE DEF f
  <2>3. Sum(f, A) = Sum(worth, A)
    BY <1>17, <1>20, <2>1, SumAgree
  <2> QED
    BY <2>1, <2>2, <2>3
<1>23. liabilities = -Sum(worth, L)
  <2> DEFINE f == [s \in L |-> s.subtotal]
  <2>1. DOMAIN f = L /\ \A s \in L : f[s] = -worth[s]
    BY <1>8, <1>18, <1>19
  <2>2. liabilities = SumFunctionOnSet(f, DOMAIN f)
    BY <1>19 DEF SumFunction
  <2> HIDE DEF f
  <2>3. Sum(f, L) = -Sum(worth, L)
    BY <1>17, <1>20, <2>1, SumNegated
  <2> QED
    BY <2>1, <2>2, <2>3
<1>24. balanceSheet(sections).net = assets - liabilities
  <2> HIDE DEF assets, liabilities
  <2> QED
    BY DEF balanceSheet, assets, liabilities
<1>25. netWorth(accounts, txns, reporting, rates) = Sum(value, all)
  <2>1. shown \in SUBSET accounts
    OBVIOUS
  <2>2. SumFunction([a \in Counted(shown) |-> Value(a)]) = Sum(value, Counted(shown))
    BY <1>3, <2>1
  <2> QED
    BY <2>2 DEF netWorth, all, Value, Counted
<1>26. Sum(worth, A) \in Int /\ Sum(worth, L) \in Int
  BY <1>17, <1>20, SumRemove
<1> HIDE DEF assets, liabilities, Sum
<1>27. balanceSheet(sections).net = Sum(worth, A) + Sum(worth, L)
  BY <1>22, <1>23, <1>24, <1>26
<1> QED
  BY <1>16, <1>21, <1>25, <1>27 DEF SheetAgrees, sections

----------------------------------------------------------------------------
\* The calendar, for the reports.

\* The months since the beginning of the calendar.
MonthNumber(date) == YearOf(date) * 12 + MonthOf(date) - 1

LEMMA MonthLength ==
    ASSUME NEW year, NEW month
    PROVE  daysInMonth(year, month) \in {28, 29, 30, 31}
BY DEF daysInMonth

\* A date is its year, month and day.
LEMMA FormatParts ==
    ASSUME NEW y \in Nat, NEW m \in 1 .. 12, NEW d \in 1 .. 31
    PROVE  /\ format(y, m, d) \in Nat
           /\ YearOf(format(y, m, d)) = y /\ MonthOf(format(y, m, d)) = m /\ DayOf(format(y, m, d)) = d
           /\ monthKey(format(y, m, d)) = y * 100 + m
<1>1. PICK n \in Nat : n = y * 10000 + m * 100 + d
  OBVIOUS
<1>2. n \div 10000 = y
  BY <1>1
<1>3. n \div 100 = y * 100 + m
  BY <1>1
<1>4. (y * 100 + m) % 100 = m
  OBVIOUS
<1>5. n % 100 = d
  BY <1>1
<1> QED
  BY <1>1, <1>2, <1>3, <1>4, <1>5 DEF format, YearOf, MonthOf, DayOf, monthKey

LEMMA DayFormed ==
    ASSUME NEW y \in Nat, NEW m \in 1 .. 12, NEW d \in 1 .. 31, NEW day, day = format(y, m, d)
    PROVE  day \in Nat /\ YearOf(day) = y /\ MonthOf(day) = m /\ DayOf(day) = d
<1>1. day = y * 10000 + m * 100 + d /\ day \in Nat
  BY DEF format
<1>2. day \div 10000 = y
  BY <1>1
<1>3. day \div 100 = y * 100 + m
  BY <1>1
<1>4. (y * 100 + m) % 100 = m
  OBVIOUS
<1>5. day % 100 = d
  BY <1>1
<1> QED
  BY <1>1, <1>2, <1>3, <1>4, <1>5 DEF YearOf, MonthOf, DayOf

LEMMA DayParts ==
    ASSUME NEW date, IsDay(date)
    PROVE  /\ YearOf(date) \in Nat /\ MonthOf(date) \in 1 .. 12 /\ DayOf(date) \in 1 .. 31
           /\ DayOf(date) <= daysInMonth(YearOf(date), MonthOf(date))
           /\ date = YearOf(date) * 10000 + MonthOf(date) * 100 + DayOf(date)
           /\ monthKey(date) = YearOf(date) * 100 + MonthOf(date)
           /\ MonthNumber(date) \in Nat
<1>1. date \in Nat /\ MonthOf(date) \in 1 .. 12 /\ DayOf(date) \in 1 .. 31
      /\ DayOf(date) <= daysInMonth(YearOf(date), MonthOf(date))
  BY MonthLength DEF IsDay
<1>2. YearOf(date) \in Nat
  BY <1>1 DEF YearOf
<1>3. date = YearOf(date) * 10000 + MonthOf(date) * 100 + DayOf(date)
  BY <1>1 DEF YearOf, MonthOf, DayOf
<1>4. monthKey(date) = YearOf(date) * 100 + MonthOf(date)
  BY <1>1 DEF YearOf, MonthOf, monthKey
<1> QED
  BY <1>1, <1>2, <1>3, <1>4 DEF MonthNumber

LEMMA MonthAdded ==
    ASSUME NEW date, IsDay(date), NEW k \in Int, MonthNumber(date) + k \in Nat
    PROVE  LET moved == addMonths(startOfMonth(date), k) IN
           /\ IsDay(moved) /\ DayOf(moved) = 1
           /\ MonthNumber(moved) = MonthNumber(date) + k
<1>1. PICK y \in Nat, m \in 1 .. 12 : y = YearOf(date) /\ m = MonthOf(date)
  BY DayParts
<1>2. startOfMonth(date) = format(y, m, 1)
  BY <1>1 DEF startOfMonth
<1>0. 1 \in 1 .. 31
  OBVIOUS
<1>3. YearOf(format(y, m, 1)) = y /\ MonthOf(format(y, m, 1)) = m /\ DayOf(format(y, m, 1)) = 1
  BY <1>0, FormatParts
<1>4. PICK n \in Nat : n = y * 12 + (m - 1) + k
  BY <1>1 DEF MonthNumber
<1>5. PICK yy \in Nat, mm \in 1 .. 12 : yy = n \div 12 /\ mm = (n % 12) + 1
  BY <1>4
<1>6. Least(1, daysInMonth(yy, mm)) = 1
  BY MonthLength DEF Least
<1>7. addMonths(startOfMonth(date), k) = format(yy, mm, 1)
  BY <1>2, <1>3, <1>4, <1>5, <1>6 DEF addMonths
<1>8. yy * 12 + mm - 1 = n
  BY <1>5
<1>9. /\ format(yy, mm, 1) \in Nat /\ YearOf(format(yy, mm, 1)) = yy
      /\ MonthOf(format(yy, mm, 1)) = mm /\ DayOf(format(yy, mm, 1)) = 1
  BY <1>0, FormatParts
<1>10. 1 \in 1 .. daysInMonth(yy, mm)
  BY MonthLength
<1> HIDE DEF MonthOf
<1> QED
  BY <1>1, <1>4, <1>7, <1>8, <1>9, <1>10 DEF IsDay, MonthNumber

\* The day after a day: years.
LEMMA YearLength ==
    ASSUME NEW y \in Int
    PROVE  /\ DaysBeforeYear(y) \in Int
           /\ DaysBeforeYear(y + 1) = DaysBeforeYear(y) + (IF Leap(y) THEN 366 ELSE 365)
<1>1. PICK a \in Int : a = y - 1
  OBVIOUS
<1>2. DaysBeforeYear(y) = 365 * a + a \div 4 - a \div 100 + a \div 400
  BY <1>1 DEF DaysBeforeYear
<1>3. DaysBeforeYear(y + 1) = 365 * y + y \div 4 - y \div 100 + y \div 400
  BY DEF DaysBeforeYear
<1>4. /\ y \div 4 = a \div 4 + (IF y % 4 = 0 THEN 1 ELSE 0)
      /\ y \div 100 = a \div 100 + (IF y % 100 = 0 THEN 1 ELSE 0)
      /\ y \div 400 = a \div 400 + (IF y % 400 = 0 THEN 1 ELSE 0)
  BY <1>1
<1>5. (y % 400 = 0 => y % 100 = 0) /\ (y % 100 = 0 => y % 4 = 0)
  OBVIOUS
<1> QED
  BY <1>1, <1>2, <1>3, <1>4, <1>5 DEF Leap

LEMMA YearFound ==
    ASSUME NEW n \in Int
    PROVE  \E y \in (n * 400) \div 146097 - 1 .. (n * 400) \div 146097 + 2 :
                DaysBeforeYear(y) < n /\ n <= DaysBeforeYear(y + 1)
<1>1. PICK g \in Int : g = (n * 400) \div 146097
  OBVIOUS
<1>2. 146097 * g <= n * 400 /\ n * 400 < 146097 * g + 146097
  BY <1>1
<1>3. ASSUME NEW a \in Int
      PROVE  LET D == 365 * a + a \div 4 - a \div 100 + a \div 400 IN
             /\ 400 * D <= 146097 * a + 400
             /\ 400 * D >= 146097 * a - 800
  <2>1. /\ 4 * (a \div 4) <= a /\ a <= 4 * (a \div 4) + 3
    OBVIOUS
  <2>2. /\ 100 * (a \div 100) <= a /\ a <= 100 * (a \div 100) + 99
    OBVIOUS
  <2>3. /\ 400 * (a \div 400) <= a /\ a <= 400 * (a \div 400) + 399
    OBVIOUS
  <2> QED
    BY <2>1, <2>2, <2>3
<1>4. DaysBeforeYear(g - 1) < n
  BY <1>2, <1>3 DEF DaysBeforeYear
<1>5. n <= DaysBeforeYear(g + 3)
  BY <1>2, <1>3 DEF DaysBeforeYear
<1>6. /\ DaysBeforeYear(g - 1) \in Int /\ DaysBeforeYear(g) \in Int /\ DaysBeforeYear(g + 1) \in Int
      /\ DaysBeforeYear(g + 2) \in Int /\ DaysBeforeYear(g + 3) \in Int
  BY YearLength
<1>7. (g - 1) + 1 = g /\ (g + 1) + 1 = g + 2 /\ (g + 2) + 1 = g + 3
  OBVIOUS
<1>8. \E y \in {g - 1, g, g + 1, g + 2} : DaysBeforeYear(y) < n /\ n <= DaysBeforeYear(y + 1)
  BY <1>4, <1>5, <1>6, <1>7
<1> QED
  BY <1>1, <1>8

\* Months.
LEMMA MonthFound ==
    ASSUME NEW n \in Int, NEW y \in Int, DaysBeforeYear(y) < n, n <= DaysBeforeYear(y + 1)
    PROVE  \E m \in 1 .. 12 : MonthStart(y, m) < n /\ n <= MonthStart(y, m) + daysInMonth(y, m)
<1>1. PICK b \in Int : b = DaysBeforeYear(y)
  BY YearLength
<1>2. PICK l \in {0, 1} : l = IF Leap(y) THEN 1 ELSE 0
  OBVIOUS
<1>3. b < n /\ n <= b + 365 + l
  BY <1>1, <1>2, YearLength
<1>4. /\ MonthStart(y, 1) = b /\ MonthStart(y, 2) = b + 31 /\ MonthStart(y, 3) = b + 59 + l
      /\ MonthStart(y, 4) = b + 90 + l /\ MonthStart(y, 5) = b + 120 + l /\ MonthStart(y, 6) = b + 151 + l
      /\ MonthStart(y, 7) = b + 181 + l /\ MonthStart(y, 8) = b + 212 + l /\ MonthStart(y, 9) = b + 243 + l
      /\ MonthStart(y, 10) = b + 273 + l /\ MonthStart(y, 11) = b + 304 + l /\ MonthStart(y, 12) = b + 334 + l
  BY <1>1, <1>2 DEF MonthStart, DaysBeforeMonth
<1>5. /\ daysInMonth(y, 1) = 31 /\ daysInMonth(y, 2) = 28 + l /\ daysInMonth(y, 3) = 31
      /\ daysInMonth(y, 4) = 30 /\ daysInMonth(y, 5) = 31 /\ daysInMonth(y, 6) = 30
      /\ daysInMonth(y, 7) = 31 /\ daysInMonth(y, 8) = 31 /\ daysInMonth(y, 9) = 30
      /\ daysInMonth(y, 10) = 31 /\ daysInMonth(y, 11) = 30 /\ daysInMonth(y, 12) = 31
  BY <1>2 DEF daysInMonth
<1>6. \E m \in {1, 2, 3, 4, 5, 6, 7, 8, 9, 10, 11, 12} :
         MonthStart(y, m) < n /\ n <= MonthStart(y, m) + daysInMonth(y, m)
  BY <1>3, <1>4, <1>5
<1> QED
  BY <1>6

LEMMA DayFound ==
    ASSUME NEW n \in Nat \ {0}
    PROVE  IsDay(DateOfDay(n)) /\ YearOf(DateOfDay(n)) >= 1 /\ UTCDay(DateOfDay(n)) = n
<1> DEFINE guess == (n * 400) \div 146097
           year == CHOOSE y \in guess - 1 .. guess + 2 :
                        DaysBeforeYear(y) < n /\ n <= DaysBeforeYear(y + 1)
           month == CHOOSE m \in 1 .. 12 :
                        /\ MonthStart(year, m) < n
                        /\ n <= MonthStart(year, m) + daysInMonth(year, m)
<1>1. DateOfDay(n) = format(year, month, n - MonthStart(year, month))
  BY DEF DateOfDay
<1>0. \E y \in guess - 1 .. guess + 2 : DaysBeforeYear(y) < n /\ n <= DaysBeforeYear(y + 1)
  BY YearFound
<1>3. guess \in Int
  OBVIOUS
<1> HIDE DEF guess
<1>2. year \in guess - 1 .. guess + 2 /\ DaysBeforeYear(year) < n /\ n <= DaysBeforeYear(year + 1)
  BY <1>0, Zenon
<1>4. year \in Int
  BY <1>2, <1>3
<1> HIDE DEF year
<1>5. month \in 1 .. 12 /\ MonthStart(year, month) < n
      /\ n <= MonthStart(year, month) + daysInMonth(year, month)
  BY <1>2, <1>4, MonthFound
<1> HIDE DEF month
<1>6. year >= 1
  <2> SUFFICES ASSUME year <= 0 PROVE FALSE
    BY <1>4
  <2>1. DaysBeforeYear(year + 1) = 365 * year + year \div 4 - year \div 100 + year \div 400
    BY <1>4 DEF DaysBeforeYear
  <2>2. 365 * year + year \div 4 - year \div 100 + year \div 400 <= 0
    <3>1. year \div 4 <= 0 /\ year \div 400 <= 0 /\ year \div 100 >= year /\ year \div 4 \in Int
          /\ year \div 100 \in Int /\ year \div 400 \in Int
      BY <1>4
    <3> QED
      BY <1>4, <3>1
  <2> QED
    BY <1>2, <2>1, <2>2
<1>7. PICK s \in Int : s = MonthStart(year, month)
  <2>1. DaysBeforeYear(year) \in Int
    BY <1>4, YearLength
  <2>2. DaysBeforeMonth[month] \in Int
    BY <1>5 DEF DaysBeforeMonth
  <2> QED
    BY <2>1, <2>2 DEF MonthStart
<1>8. PICK l \in {28, 29, 30, 31} : l = daysInMonth(year, month)
  BY MonthLength
<1>9. PICK d \in 1 .. 31 : d = n - s /\ d <= l
  BY <1>5, <1>7, <1>8
<1>10. DateOfDay(n) = format(year, month, d)
  BY <1>1, <1>7, <1>9
<1>11. year \in Nat
  BY <1>4, <1>6
<1>12. /\ format(year, month, d) \in Nat /\ YearOf(format(year, month, d)) = year
       /\ MonthOf(format(year, month, d)) = month /\ DayOf(format(year, month, d)) = d
  BY <1>5, <1>11, FormatParts
<1>13. UTCDay(DateOfDay(n)) = n
  BY <1>7, <1>9, <1>10, <1>12 DEF UTCDay
<1> QED
  BY <1>5, <1>6, <1>8, <1>9, <1>10, <1>12, <1>13 DEF IsDay

LEMMA CountedFromOne ==
    ASSUME NEW date, IsDay(date), YearOf(date) >= 1
    PROVE  UTCDay(date) \in Nat \ {0}
<1>1. PICK y \in Nat \ {0}, m \in 1 .. 12, d \in 1 .. 31 : y = YearOf(date) /\ m = MonthOf(date) /\ d = DayOf(date)
  BY DayParts
<1>2. DaysBeforeYear(y) >= 0 /\ DaysBeforeYear(y) \in Int
  <2>1. PICK a \in Nat : a = y - 1
    BY <1>1
  <2>2. DaysBeforeYear(y) = 365 * a + a \div 4 - a \div 100 + a \div 400
    BY <2>1 DEF DaysBeforeYear
  <2>3. /\ a \div 4 >= 0 /\ a \div 400 >= 0 /\ a \div 100 <= a
        /\ a \div 4 \in Int /\ a \div 400 \in Int /\ a \div 100 \in Int
    BY <2>1
  <2> QED
    BY <2>2, <2>3
<1>3. DaysBeforeMonth[m] \in Nat
  BY DEF DaysBeforeMonth
<1>4. MonthStart(y, m) \in Nat
  BY <1>2, <1>3 DEF MonthStart
<1> QED
  BY <1>1, <1>4 DEF UTCDay

LEMMA DaysAdded ==
    ASSUME NEW date, IsDay(date), YearOf(date) >= 1, NEW k \in Nat
    PROVE  /\ IsDay(addDays(date, k)) /\ YearOf(addDays(date, k)) >= 1
           /\ UTCDay(addDays(date, k)) = UTCDay(date) + k
<1>1. UTCDay(date) + k \in Nat \ {0}
  BY CountedFromOne
<1> QED
  BY <1>1, DayFound DEF addDays

LEMMA NextIsDay ==
    ASSUME NEW date, IsDay(date), YearOf(date) >= 1
    PROVE  /\ IsDay(addDays(date, 1)) /\ YearOf(addDays(date, 1)) >= 1
           /\ UTCDay(addDays(date, 1)) = UTCDay(date) + 1
BY DaysAdded

----------------------------------------------------------------------------
\* The months of a range.

\* A range of days, of no more months than the walk goes through.
IsRange(range) ==
    /\ IsDay(range.from) /\ IsDay(range.to) /\ range.from <= range.to
    /\ MonthNumber(range.to) - MonthNumber(range.from) < MONTHS_GUARD

MonthCount(range) == MonthNumber(range.to) - MonthNumber(range.from) + 1

\* Days are in the order of their months.
LEMMA MonthOrder ==
    ASSUME NEW d, NEW e, IsDay(d), IsDay(e)
    PROVE  /\ MonthNumber(d) \in Nat /\ MonthNumber(e) \in Nat
           /\ d <= e => MonthNumber(d) <= MonthNumber(e)
           /\ MonthNumber(d) < MonthNumber(e) => d < e
           /\ MonthNumber(d) = MonthNumber(e) <=> monthKey(d) = monthKey(e)
<1>1. PICK y \in Nat, m \in 1 .. 12, n \in 1 .. 31 :
        d = y * 10000 + m * 100 + n /\ MonthNumber(d) = y * 12 + m - 1 /\ monthKey(d) = y * 100 + m
  BY DayParts DEF MonthNumber
<1>2. PICK z \in Nat, k \in 1 .. 12, l \in 1 .. 31 :
        e = z * 10000 + k * 100 + l /\ MonthNumber(e) = z * 12 + k - 1 /\ monthKey(e) = z * 100 + k
  BY DayParts DEF MonthNumber
<1> QED
  BY <1>1, <1>2

LEMMA MonthsWalked ==
    ASSUME NEW range, IsRange(range)
    PROVE  LET months == monthsIn(range) IN
           /\ MonthCount(range) \in Nat \ {0} /\ DOMAIN months = 1 .. MonthCount(range)
           /\ \A i \in 1 .. MonthCount(range) :
                \E first : /\ IsDay(first) /\ DayOf(first) = 1
                           /\ MonthNumber(first) = MonthNumber(range.from) + i - 1
                           /\ months[i] = monthKey(first)
<1> DEFINE months == monthsIn(range)
<1>1. PICK a \in Nat, b \in Nat : a = MonthNumber(range.from) /\ b = MonthNumber(range.to) /\ a <= b
                                   /\ b - a < MONTHS_GUARD
  BY MonthOrder DEF IsRange
<1>2. MonthCount(range) = b - a + 1 /\ MonthCount(range) \in Nat \ {0}
  BY <1>1 DEF MonthCount
<1>3. (YearOf(range.to) - YearOf(range.from)) * 12 + (MonthOf(range.to) - MonthOf(range.from)) + 1 = b - a + 1
  <2>1. PICK y \in Nat, m \in 1 .. 12 : y = YearOf(range.from) /\ m = MonthOf(range.from)
    BY DayParts DEF IsRange
  <2>2. PICK z \in Nat, k \in 1 .. 12 : z = YearOf(range.to) /\ k = MonthOf(range.to)
    BY DayParts DEF IsRange
  <2>3. a = y * 12 + m - 1 /\ b = z * 12 + k - 1
    BY <1>1, <2>1, <2>2 DEF MonthNumber
  <2> QED
    BY <2>1, <2>2, <2>3
<1>4. Least(b - a + 1, MONTHS_GUARD) = b - a + 1
  BY <1>1 DEF Least, MONTHS_GUARD
<1>5. ~(range.to < range.from)
  BY DayParts DEF IsRange, IsDay
<1>6. months = [i \in 1 .. b - a + 1 |-> monthKey(addMonths(startOfMonth(range.from), i - 1))]
  BY <1>3, <1>4, <1>5 DEF monthsIn
<1> HIDE DEF months
<1>7. ASSUME NEW i \in 1 .. b - a + 1
      PROVE  \E first : /\ IsDay(first) /\ DayOf(first) = 1
                        /\ MonthNumber(first) = a + i - 1
                        /\ months[i] = monthKey(first)
  <2>1. PICK first : first = addMonths(startOfMonth(range.from), i - 1)
    OBVIOUS
  <2>2. IsDay(range.from) /\ i - 1 \in Int /\ a + (i - 1) \in Nat
    BY <1>1 DEF IsRange
  <2>3. IsDay(first) /\ DayOf(first) = 1 /\ MonthNumber(first) = a + (i - 1)
    BY <1>1, <2>1, <2>2, MonthAdded
  <2>4. a + (i - 1) = a + i - 1
    BY <1>1
  <2> QED
    BY <1>6, <2>1, <2>3, <2>4
<1>8. DOMAIN months = 1 .. b - a + 1
  BY <1>6
<1> QED
  BY <1>1, <1>2, <1>7, <1>8 DEF months

\* Every day of a range is in one of its months.
LEMMA MonthOfDay ==
    ASSUME NEW range, IsRange(range), NEW d, IsDay(d), within(d, range)
    PROVE  LET place == MonthNumber(d) - MonthNumber(range.from) + 1 IN
           /\ place \in DOMAIN monthsIn(range)
           /\ \A i \in DOMAIN monthsIn(range) : monthKey(d) = monthsIn(range)[i] <=> place = i
<1>1. PICK a \in Nat, b \in Nat, c \in Nat :
            /\ a = MonthNumber(range.from) /\ b = MonthNumber(range.to) /\ c = MonthNumber(d)
            /\ a <= c /\ c <= b
  BY MonthOrder DEF IsRange, within
<1>2. DOMAIN monthsIn(range) = 1 .. b - a + 1
  BY <1>1, MonthsWalked DEF MonthCount
<1>3. ASSUME NEW i \in 1 .. b - a + 1 PROVE monthKey(d) = monthsIn(range)[i] <=> c - a + 1 = i
  <2>1. PICK first : /\ IsDay(first) /\ MonthNumber(first) = a + i - 1
                     /\ monthsIn(range)[i] = monthKey(first)
    BY <1>1, MonthsWalked DEF MonthCount
  <2>2. monthKey(d) = monthKey(first) <=> MonthNumber(d) = MonthNumber(first)
    BY <2>1, MonthOrder
  <2> QED
    BY <1>1, <2>1, <2>2
<1> QED
  BY <1>1, <1>2, <1>3

\* The last day of a month of the range, cut off at the end of the range.
LEMMA LastDays ==
    ASSUME NEW range, IsRange(range), NEW i \in 1 .. MonthCount(range), NEW d, IsDay(d)
    PROVE  LET last == lastDayOf(monthsIn(range)[i], range) IN
           /\ last \in Nat
           /\ d <= last <=> d <= range.to /\ MonthNumber(d) <= MonthNumber(range.from) + i - 1
           /\ i < MonthCount(range) => (d <= last <=> MonthNumber(d) <= MonthNumber(range.from) + i - 1)
<1>1. PICK first : /\ IsDay(first) /\ DayOf(first) = 1 /\ monthsIn(range)[i] = monthKey(first)
                   /\ MonthNumber(first) = MonthNumber(range.from) + i - 1
  BY MonthsWalked
<1>2. PICK y \in Nat, m \in 1 .. 12 :
        y = YearOf(first) /\ m = MonthOf(first) /\ monthKey(first) = y * 100 + m
        /\ MonthNumber(first) = y * 12 + m - 1
  BY <1>1, DayParts DEF MonthNumber
<1>3. PICK l \in {28, 29, 30, 31} : l = daysInMonth(y, m)
  BY MonthLength
<1>4. endOfMonth(monthKey(first) * 100 + 1) = y * 10000 + m * 100 + l
  <2>1. (y * 100 + m) * 100 + 1 = format(y, m, 1)
    BY DEF format
  <2>2. YearOf(format(y, m, 1)) = y /\ MonthOf(format(y, m, 1)) = m
    <3>1. 1 \in 1 .. 31
      OBVIOUS
    <3> QED
      BY <3>1, FormatParts
  <2> QED
    BY <1>2, <1>3, <2>1, <2>2 DEF endOfMonth, format
<1>5. PICK end \in Nat : end = y * 10000 + m * 100 + l
  OBVIOUS
<1>6. lastDayOf(monthsIn(range)[i], range) = Least(end, range.to)
  BY <1>1, <1>4, <1>5 DEF lastDayOf
<1>0. PICK z \in Nat, k \in 1 .. 12, n \in 1 .. 31 : z = YearOf(d) /\ k = MonthOf(d) /\ n = DayOf(d)
  BY DayParts
<1>7. d = z * 10000 + k * 100 + n /\ n <= daysInMonth(z, k) /\ MonthNumber(d) = z * 12 + k - 1
  BY <1>0, DayParts DEF MonthNumber
<1>8. d <= end <=> MonthNumber(d) <= MonthNumber(first)
  <2>1. CASE z = y /\ k = m
    BY <1>2, <1>3, <1>5, <1>7, <2>1
  <2>2. CASE ~(z = y /\ k = m)
    BY <1>2, <1>5, <1>7, <2>2
  <2> QED
    BY <2>1, <2>2
<1>9. range.to \in Nat /\ d \in Nat
  BY DEF IsRange, IsDay
<1>10. d <= Least(end, range.to) <=> d <= end /\ d <= range.to
  BY <1>5, <1>9 DEF Least
<1>11. ASSUME i < MonthCount(range), d <= end PROVE d <= range.to
  <2>1. PICK a \in Nat, b \in Nat : a = MonthNumber(range.from) /\ b = MonthNumber(range.to)
    BY DayParts DEF IsRange
  <2>2. MonthNumber(d) < b
    BY <1>1, <1>7, <1>8, <1>11, <2>1 DEF MonthCount
  <2>3. d < range.to
    BY <2>1, <2>2, MonthOrder DEF IsRange
  <2> QED
    BY <1>9, <2>3
<1>12. Least(end, range.to) \in Nat
  BY <1>5, <1>9 DEF Least
<1> QED
  BY <1>1, <1>6, <1>8, <1>10, <1>11, <1>12

\* Past the first, the days of a month are those after the last day of the month before.
LEMMA MonthBetween ==
    ASSUME NEW range, IsRange(range), NEW i \in DOMAIN monthsIn(range) \ {1}, NEW d, IsDay(d)
    PROVE  LET before == lastDayOf(monthsIn(range)[i - 1], range)
               last == lastDayOf(monthsIn(range)[i], range)
           IN  /\ d <= before => d <= last
               /\ within(d, range) /\ monthKey(d) = monthsIn(range)[i] <=> d <= last /\ ~(d <= before)
<1>1. PICK a \in Nat, c \in Nat : a = MonthNumber(range.from) /\ c = MonthNumber(d)
  BY DayParts DEF IsRange
<1>2. MonthCount(range) \in Nat /\ i \in 2 .. MonthCount(range) /\ i - 1 \in 1 .. MonthCount(range)
      /\ i \in 1 .. MonthCount(range) /\ i - 1 < MonthCount(range)
  BY MonthsWalked
<1>3. d <= lastDayOf(monthsIn(range)[i], range) <=> d <= range.to /\ c <= a + i - 1
  BY <1>1, <1>2, LastDays
<1>4. /\ d <= lastDayOf(monthsIn(range)[i - 1], range) <=> c <= a + (i - 1) - 1
      /\ d <= lastDayOf(monthsIn(range)[i - 1], range) => d <= range.to
  BY <1>1, <1>2, LastDays
<1>5. ASSUME within(d, range)
      PROVE  monthKey(d) = monthsIn(range)[i] <=> c - a + 1 = i
  BY <1>1, <1>5, MonthOfDay
<1>6. within(d, range) <=> range.from <= d /\ d <= range.to
  BY DEF within, IsRange, IsDay
<1>7. c > a => range.from <= d
  <2>1. a < c => range.from < d
    BY <1>1, MonthOrder DEF IsRange
  <2> QED
    BY <1>1, <2>1 DEF IsRange, IsDay
<1> QED
  BY <1>1, <1>2, <1>3, <1>4, <1>5, <1>6, <1>7

----------------------------------------------------------------------------
\* What a set of transactions comes to.

\* A transaction as it is entered, and what it is worth in the reporting currency.
Entered(t) == IsDay(t.date) /\ t.amount \in Int /\ Quoted(t.rate)
Worths(txns, reporting) == [t \in txns |-> inReporting(t, reporting)]
Counting(X, kind, reporting) == {t \in Convertible(X, reporting) : t.kind = kind}
Comes(txns, X, kind, reporting) ==
    SumFunctionOnSet(Worths(txns, reporting), Counting(X, kind, reporting))

IsBook(txns) == IsFiniteSet(txns) /\ \A t \in txns : Entered(t)

LEMMA WorthType ==
    ASSUME NEW txns, NEW reporting, IsBook(txns), NEW X \in SUBSET Convertible(txns, reporting)
    PROVE  Summable(Worths(txns, reporting), X)
<1>1. X \in SUBSET txns
  BY DEF Convertible
<1>2. IsFiniteSet(X)
  BY <1>1, FS_Subset DEF IsBook
<1>3. ASSUME NEW t \in X PROVE Worths(txns, reporting)[t] \in Int
  <2>1. t \in txns /\ inReporting(t, reporting) # Null
    BY DEF Convertible
  <2>2. Worths(txns, reporting)[t] = inReporting(t, reporting)
    BY <2>1 DEF Worths
  <2>3. t.amount \in Int /\ Quoted(t.rate)
    BY <2>1 DEF IsBook, Entered
  <2>4. t.rate # NoRate => convert(t.amount, t.rate, t.currency, reporting) \in Int
    BY <2>3, ConvertType DEF Quoted
  <2> QED
    BY <2>1, <2>2, <2>3, <2>4 DEF inReporting
<1> QED
  BY <1>2, <1>3 DEF Summable

LEMMA SumShown ==
    ASSUME NEW txns, NEW reporting, IsBook(txns), NEW X \in SUBSET txns
    PROVE  sumInReporting(X, reporting).total
             = SumFunctionOnSet(Worths(txns, reporting), Convertible(X, reporting))
<1> DEFINE C == Convertible(X, reporting)
           f == [t \in C |-> inReporting(t, reporting)]
<1>1. C \in SUBSET Convertible(txns, reporting) /\ C \in SUBSET txns
  BY DEF Convertible
<1>2. sumInReporting(X, reporting).total = SumFunction(f)
  BY DEF sumInReporting
<1> HIDE DEF C
<1>3. DOMAIN f = C /\ \A t \in C : f[t] = Worths(txns, reporting)[t]
  BY <1>1 DEF Worths
<1> HIDE DEF f
<1>4. Summable(Worths(txns, reporting), C)
  BY <1>1, WorthType
<1>5. SumFunctionOnSet(f, C) = SumFunctionOnSet(Worths(txns, reporting), C)
  BY <1>3, <1>4, SumAgree
<1>6. SumFunction(f) = SumFunctionOnSet(f, C)
  BY <1>3 DEF SumFunction
<1> QED
  BY <1>2, <1>5, <1>6 DEF C

LEMMA ComesType ==
    ASSUME NEW txns, NEW reporting, IsBook(txns), NEW X \in SUBSET txns, NEW kind
    PROVE  /\ Summable(Worths(txns, reporting), Counting(X, kind, reporting))
           /\ Comes(txns, X, kind, reporting) \in Int
<1>1. Counting(X, kind, reporting) \in SUBSET Convertible(txns, reporting)
  BY DEF Counting, Convertible
<1>2. Summable(Worths(txns, reporting), Counting(X, kind, reporting))
  BY <1>1, WorthType
<1> QED
  BY <1>2, SumRemove DEF Comes

LEMMA TotalsShown ==
    ASSUME NEW txns, NEW reporting, IsBook(txns), NEW X \in SUBSET txns, NEW range
    PROVE  LET totals == totalsFor(X, range, reporting)
               Y == {t \in X : within(t.date, range)}
           IN  /\ totals.income = Comes(txns, Y, "income", reporting)
               /\ totals.expense = Comes(txns, Y, "expense", reporting)
               /\ totals.net = Comes(txns, Y, "income", reporting) - Comes(txns, Y, "expense", reporting)
<1> DEFINE Y == {t \in X : within(t.date, range)}
<1>1. ASSUME NEW kind
      PROVE  sumInReporting(InRange(X, range, kind), reporting).total = Comes(txns, Y, kind, reporting)
  <2>1. InRange(X, range, kind) \in SUBSET txns
    BY DEF InRange
  <2>2. Convertible(InRange(X, range, kind), reporting) = Counting(Y, kind, reporting)
    BY DEF Convertible, Counting, InRange
  <2> QED
    BY <2>1, <2>2, SumShown DEF Comes
<1> HIDE DEF Y
<1>2. /\ sumInReporting(InRange(X, range, "income"), reporting).total = Comes(txns, Y, "income", reporting)
      /\ sumInReporting(InRange(X, range, "expense"), reporting).total = Comes(txns, Y, "expense", reporting)
  BY <1>1
<1>3. /\ totalsFor(X, range, reporting).income = Comes(txns, Y, "income", reporting)
      /\ totalsFor(X, range, reporting).expense = Comes(txns, Y, "expense", reporting)
      /\ totalsFor(X, range, reporting).net = Comes(txns, Y, "income", reporting) - Comes(txns, Y, "expense", reporting)
  BY <1>2 DEF totalsFor
<1> QED
  BY <1>3 DEF Y

LEMMA ComesSplit ==
    ASSUME NEW txns, NEW reporting, IsBook(txns), NEW X \in SUBSET txns, NEW Y \in SUBSET txns,
           X \cap Y = {}, NEW kind
    PROVE  Comes(txns, X \cup Y, kind, reporting)
             = Comes(txns, X, kind, reporting) + Comes(txns, Y, kind, reporting)
<1>1. /\ Counting(X \cup Y, kind, reporting) = Counting(X, kind, reporting) \cup Counting(Y, kind, reporting)
      /\ Counting(X, kind, reporting) \cap Counting(Y, kind, reporting) = {}
  BY DEF Counting, Convertible
<1>2. /\ Summable(Worths(txns, reporting), Counting(X, kind, reporting))
      /\ Summable(Worths(txns, reporting), Counting(Y, kind, reporting))
  BY ComesType
<1> QED
  BY <1>1, <1>2, SumUnion DEF Comes

\* Added up part by part, a kind of transaction comes to the same.
Divided(txns, X, kind, reporting, key, K, w) ==
    /\ IsFiniteSet(K) /\ \A t \in X : key[t] \in K
    /\ \A k \in K : w[k] = Comes(txns, {t \in X : key[t] = k}, kind, reporting)

LEMMA ComesFiled ==
    ASSUME NEW txns, NEW reporting, IsBook(txns), NEW X \in SUBSET txns, NEW kind,
           NEW key, NEW K, NEW w, Divided(txns, X, kind, reporting, key, K, w)
    PROVE  SumFunctionOnSet(w, K) = Comes(txns, X, kind, reporting)
<1> USE DEF Divided
<1> DEFINE f == Worths(txns, reporting)
           S == Counting(X, kind, reporting)
<1>1. Summable(f, S)
  BY ComesType
<1>2. S \in SUBSET X
  BY DEF Counting, Convertible
<1>3. \A k : Counting({t \in X : key[t] = k}, kind, reporting) = {t \in S : key[t] = k}
  BY DEF Counting, Convertible
<1>4. \A k \in K : w[k] = SumFunctionOnSet(f, {t \in S : key[t] = k})
  BY <1>3 DEF Comes
<1> HIDE DEF f, S
<1>5. Filed(f, S, key, K, w)
  BY <1>1, <1>2, <1>4 DEF Filed
<1>6. SumFunctionOnSet(w, K) = SumFunctionOnSet(f, S)
  BY <1>5, SumFibres
<1> QED
  BY <1>6 DEF Comes, f, S

----------------------------------------------------------------------------
\* The reports screen.

\* The totals of a range are the sum of its months.
LEMMA MonthsAddUp ==
    ASSUME NEW txns, NEW reporting, IsBook(txns), NEW range, IsRange(range)
    PROVE  LET flow == flowByMonth(txns, range, reporting) IN
           totalsFor(txns, range, reporting).net = SumFunction([i \in DOMAIN flow |-> flow[i].net])
<1> DEFINE months == monthsIn(range)
           N == DOMAIN months
           flow == flowByMonth(txns, range, reporting)
           X == {t \in txns : within(t.date, range)}
           key == [t \in X |-> MonthNumber(t.date) - MonthNumber(range.from) + 1]
           Part(i) == {t \in X : key[t] = i}
           income == [i \in N |-> Comes(txns, Part(i), "income", reporting)]
           expense == [i \in N |-> Comes(txns, Part(i), "expense", reporting)]
           net == [i \in N |-> flow[i].net]
<1>1. PICK n \in Nat : N = 1 .. n
  BY MonthsWalked
<1>2. IsFiniteSet(N)
  <2>1. PICK a \in Int : a = 1
    OBVIOUS
  <2>2. IsFiniteSet(a .. n)
    BY FS_Interval
  <2> QED
    BY <1>1, <2>1, <2>2
<1>3. ASSUME NEW t \in X
      PROVE  /\ key[t] = MonthNumber(t.date) - MonthNumber(range.from) + 1 /\ key[t] \in N
             /\ \A i \in N : monthKey(t.date) = months[i] <=> key[t] = i
  <2>1. IsDay(t.date) /\ within(t.date, range)
    BY DEF IsBook, Entered
  <2> QED
    BY <2>1, MonthOfDay
<1>4. DOMAIN flow = N
  BY DEF flowByMonth
<1>5. ASSUME NEW i \in N
      PROVE  /\ Part(i) \in SUBSET txns
             /\ flow[i].net = Comes(txns, Part(i), "income", reporting) - Comes(txns, Part(i), "expense", reporting)
  <2> DEFINE Y == {t \in txns : within(t.date, range) /\ monthKey(t.date) = months[i]}
  <2>1. flow[i] = totalsFor(Y, range, reporting)
    BY DEF flowByMonth
  <2>2. Y \in SUBSET txns /\ {t \in Y : within(t.date, range)} = Y
    OBVIOUS
  <2>3. Y = Part(i)
    BY <1>3
  <2> HIDE DEF Y, flow, Part
  <2>4. totalsFor(Y, range, reporting).net = Comes(txns, Y, "income", reporting) - Comes(txns, Y, "expense", reporting)
    BY <2>2, TotalsShown
  <2> QED
    BY <2>1, <2>2, <2>3, <2>4
<1>6. X \in SUBSET txns
  OBVIOUS
<1>7. /\ \A t \in X : key[t] \in N
      /\ \A i \in N : income[i] = Comes(txns, {t \in X : key[t] = i}, "income", reporting)
      /\ \A i \in N : expense[i] = Comes(txns, {t \in X : key[t] = i}, "expense", reporting)
  BY <1>3
<1>8. totalsFor(txns, range, reporting).net = Comes(txns, X, "income", reporting) - Comes(txns, X, "expense", reporting)
  BY TotalsShown
<1>9. /\ \A i \in N : income[i] \in Int /\ expense[i] \in Int
      /\ \A i \in N : net[i] = income[i] - expense[i]
  BY <1>5, ComesType
<1>10. SumFunction([i \in DOMAIN flow |-> flow[i].net]) = SumFunctionOnSet(net, N)
  <2>1. [i \in DOMAIN flow |-> flow[i].net] = net /\ DOMAIN net = N
    BY <1>4
  <2> HIDE DEF net, N, flow
  <2> QED
    BY <2>1 DEF SumFunction
<1> HIDE DEF N, X, key, income, expense, net, flow
<1>15. /\ Divided(txns, X, "income", reporting, key, N, income)
       /\ Divided(txns, X, "expense", reporting, key, N, expense)
  BY <1>2, <1>7 DEF Divided
<1>11. SumFunctionOnSet(income, N) = Comes(txns, X, "income", reporting)
  BY <1>6, <1>15, ComesFiled
<1>12. SumFunctionOnSet(expense, N) = Comes(txns, X, "expense", reporting)
  BY <1>6, <1>15, ComesFiled
<1>13. Summable(income, N) /\ Summable(expense, N)
  BY <1>2, <1>9 DEF Summable
<1>14. SumFunctionOnSet(net, N) = SumFunctionOnSet(income, N) - SumFunctionOnSet(expense, N)
  BY <1>9, <1>13, SumMinus
<1> QED
  BY <1>8, <1>10, <1>11, <1>12, <1>14 DEF flow

\* The totals of a range are the sum of its categories.
LEMMA CategoriesAddUp ==
    ASSUME NEW txns, NEW reporting, IsBook(txns), NEW range, NEW categories
    PROVE  totalsFor(txns, range, reporting).expense
             = SumFunction(spendByCategory(txns, range, reporting, categories))
<1> DEFINE Y == {t \in txns : within(t.date, range)}
           S == Convertible(InRange(txns, range, "expense"), reporting)
           Key(t) == IF t.categoryId = Null THEN Null ELSE rootIdOf(t.categoryId, categories)
           key == [t \in S |-> Key(t)]
           K == {Key(t) : t \in S}
           f == Worths(txns, reporting)
           rows == spendByCategory(txns, range, reporting, categories)
<1>1. totalsFor(txns, range, reporting).expense = SumFunctionOnSet(f, S)
  <2>1. totalsFor(txns, range, reporting).expense = Comes(txns, Y, "expense", reporting)
    <3>1. txns \in SUBSET txns
      OBVIOUS
    <3> QED
      BY <3>1, TotalsShown, SMTT(60)
  <2>2. Counting(Y, "expense", reporting) = S
    BY DEF Counting, Convertible, InRange
  <2> QED
    BY <2>1, <2>2 DEF Comes
<1>2. S \in SUBSET Convertible(txns, reporting) /\ S \in SUBSET txns
  BY DEF Convertible, InRange
<1>3. rows = [k \in K |-> sumInReporting({t \in S : Key(t) = k}, reporting).total]
  BY DEF spendByCategory
<1>4. \A X \in SUBSET S : Convertible(X, reporting) = X
  BY DEF Convertible
<1> HIDE DEF S, Key, rows
<1>5. ASSUME NEW k \in K PROVE rows[k] = SumFunctionOnSet(f, {t \in S : key[t] = k})
  <2>1. PICK X \in SUBSET S : X = {t \in S : Key(t) = k} /\ X = {t \in S : key[t] = k}
    OBVIOUS
  <2>2. rows[k] = sumInReporting(X, reporting).total
    BY <1>3, <2>1
  <2>3. sumInReporting(X, reporting).total = SumFunctionOnSet(f, Convertible(X, reporting))
    BY <1>2, SumShown
  <2> QED
    BY <1>4, <2>1, <2>2, <2>3
<1>6. Summable(f, S)
  BY <1>2, WorthType
<1>7. IsFiniteSet(K)
  <2>1. IsFiniteSet(S)
    BY <1>6 DEF Summable
  <2>2. key \in Surjection(S, K)
    BY DEF Surjection
  <2> HIDE DEF key, K
  <2> QED
    BY <2>1, <2>2, FS_Surjection
<1>8. \A t \in S : key[t] \in K
  OBVIOUS
<1>9. DOMAIN rows = K
  BY <1>3
<1> HIDE DEF key, K, f
<1>10. Filed(f, S, key, K, rows)
  BY <1>5, <1>6, <1>7, <1>8 DEF Filed
<1>11. SumFunctionOnSet(rows, K) = SumFunctionOnSet(f, S)
  BY <1>10, SumFibres
<1> QED
  BY <1>1, <1>9, <1>11 DEF SumFunction, rows

\* The accounts a report starts from come to whole units.
LEMMA OpeningType ==
    ASSUME NEW accounts, NEW reporting, NEW rates, IsFiniteSet(accounts),
           \A a \in accounts : a.openingBalance \in Int /\ Quoted(rates[a.currency])
    PROVE  openingNetWorth(accounts, reporting, rates) \in Int
<1> DEFINE S == {b \in accounts : b.currency = reporting \/ rates[b.currency] # NoRate}
           f == [a \in S |-> inReporting([amount |-> a.openingBalance, currency |-> a.currency,
                                          rate |-> rates[a.currency]], reporting)]
<1>1. S \in SUBSET accounts /\ IsFiniteSet(S)
  BY FS_Subset
<1>2. \A a \in S : f[a] \in Int
  <2>1. \A a \in S : rates[a.currency] # NoRate =>
            convert(a.openingBalance, rates[a.currency], a.currency, reporting) \in Int
    BY <1>1, ConvertType DEF Quoted
  <2> QED
    BY <1>1, <2>1 DEF inReporting
<1>3. openingNetWorth(accounts, reporting, rates) = SumFunction(f) /\ DOMAIN f = S
  BY DEF openingNetWorth
<1> HIDE DEF S, f
<1>4. Summable(f, S)
  BY <1>1, <1>2 DEF Summable
<1> QED
  BY <1>3, <1>4, SumRemove DEF SumFunction

\* Net worth moves, from one month to the next, by what the month comes to.
LEMMA WorthMoves ==
    ASSUME NEW txns, NEW reporting, IsBook(txns), NEW range, IsRange(range),
           NEW accounts, NEW rates, IsFiniteSet(accounts),
           \A a \in accounts : a.openingBalance \in Int /\ Quoted(rates[a.currency])
    PROVE  LET worth == netWorthOver(accounts, txns, range, reporting, rates)
               flow == flowByMonth(txns, range, reporting)
           IN  \A i \in DOMAIN worth \ {1} : worth[i].amount - worth[i - 1].amount = flow[i].net
<1> DEFINE months == monthsIn(range)
           worth == netWorthOver(accounts, txns, range, reporting, rates)
           flow == flowByMonth(txns, range, reporting)
           Upto(j) == {t \in txns : t.date <= lastDayOf(months[j], range)}
           Net(X) == Comes(txns, X, "income", reporting) - Comes(txns, X, "expense", reporting)
<1>1. PICK opening \in Int : opening = openingNetWorth(accounts, reporting, rates)
  BY OpeningType
<1>2. DOMAIN worth = DOMAIN months /\ DOMAIN flow = DOMAIN months
  BY DEF netWorthOver, flowByMonth
<1>3. \A t \in txns : IsDay(t.date) /\ t.date >= 0
  BY DEF IsBook, Entered, IsDay
<1>4. ASSUME NEW j \in DOMAIN months PROVE worth[j].amount = opening + Net(Upto(j))
  <2> DEFINE last == lastDayOf(months[j], range)
             span == [from |-> 0, to |-> last]
  <2>1. worth[j].amount = opening + totalsFor(txns, span, reporting).net
    BY <1>1 DEF netWorthOver
  <2>2. {t \in txns : within(t.date, span)} = Upto(j)
    BY <1>3 DEF within
  <2> HIDE DEF span, Upto
  <2>3. totalsFor(txns, span, reporting).net = Net(Upto(j))
    BY <2>2, TotalsShown
  <2> QED
    BY <2>1, <2>3
<1>5. ASSUME NEW i \in DOMAIN months \ {1} PROVE worth[i].amount - worth[i - 1].amount = flow[i].net
  <2> DEFINE Y == {t \in txns : within(t.date, range) /\ monthKey(t.date) = months[i]}
  <2>1. i - 1 \in DOMAIN months
    BY MonthsWalked
  <2>2. Upto(i) = Upto(i - 1) \cup Y /\ Upto(i - 1) \cap Y = {}
    BY <1>3, MonthBetween
  <2>3. /\ Y \in SUBSET txns /\ Upto(i - 1) \in SUBSET txns /\ Upto(i) \in SUBSET txns
        /\ {t \in Y : within(t.date, range)} = Y
    OBVIOUS
  <2>4. flow[i] = totalsFor(Y, range, reporting)
    BY DEF flowByMonth
  <2>5. worth[i].amount = opening + Net(Upto(i)) /\ worth[i - 1].amount = opening + Net(Upto(i - 1))
    BY <1>4, <2>1
  <2> HIDE DEF Y, Upto, worth, flow, months
  <2>6. flow[i].net = Net(Y)
    BY <2>3, <2>4, TotalsShown
  <2>7. /\ Comes(txns, Upto(i), "income", reporting) = Comes(txns, Upto(i - 1), "income", reporting) + Comes(txns, Y, "income", reporting)
        /\ Comes(txns, Upto(i), "expense", reporting) = Comes(txns, Upto(i - 1), "expense", reporting) + Comes(txns, Y, "expense", reporting)
    BY <2>2, <2>3, ComesSplit
  <2>8. /\ Comes(txns, Upto(i - 1), "income", reporting) \in Int /\ Comes(txns, Y, "income", reporting) \in Int
        /\ Comes(txns, Upto(i - 1), "expense", reporting) \in Int /\ Comes(txns, Y, "expense", reporting) \in Int
    BY <2>3, ComesType
  <2> QED
    BY <2>5, <2>6, <2>7, <2>8
<1> QED
  BY <1>2, <1>5

\* Categories as the screens keep them: ids of their own, and two levels.
TwoLevels(table) ==
    /\ Len(table) \in Nat /\ DOMAIN table = 1 .. Len(table)
    /\ \A c, k \in ToSet(table) : c.id = k.id => c = k
    /\ \A c, k \in ToSet(table) : c.parentId = k.id => k.parentId = Null
    /\ \A c \in ToSet(table) : c.id # Null

\* What a budget on a top-level category covers: the category and its subcategories.
LEMMA CoveredIs ==
    ASSUME NEW table, TwoLevels(table), NEW root, root # Null
    PROVE  withDescendants({root}, table) = {root} \cup {c.id : c \in {k \in ToSet(table) : k.parentId = root}}
<1> DEFINE N == Len(table)
           Row(j) == table[j]
           Known(i) == {root} \cup {Row(j).id : j \in {k \in 1 .. i : Row(k).parentId = root}}
           g == [i \in 0 .. N |-> Known(i)]
           F == coveredUpto({root}, table)
<1>1. N \in Nat /\ \A j \in 1 .. N : Row(j) \in ToSet(table)
  BY DEF TwoLevels, ToSet
<1>2. Known(0) = {root}
  OBVIOUS
<1>3. ASSUME NEW i \in 1 .. N
      PROVE  Known(i) = IF Row(i).parentId \in Known(i - 1) THEN Known(i - 1) \cup {Row(i).id} ELSE Known(i - 1)
  <2>1. Row(i).parentId \in Known(i - 1) <=> Row(i).parentId = root
    <3>1. ASSUME NEW j \in 1 .. i - 1, Row(j).parentId = root PROVE Row(i).parentId # Row(j).id
      <4>1. j \in 1 .. N
        BY <1>1
      <4> QED
        BY <1>1, <3>1, <4>1 DEF TwoLevels
    <3> QED
      BY <3>1
  <2>2. 1 .. i = (1 .. i - 1) \cup {i}
    BY <1>1
  <2>3. Known(i) = IF Row(i).parentId = root THEN Known(i - 1) \cup {Row(i).id} ELSE Known(i - 1)
    BY <2>2
  <2> QED
    BY <2>1, <2>3
<1> HIDE DEF Known, Row
<1>4. g = [i \in 0 .. N |-> IF i = 0 THEN {root}
                            ELSE IF Row(i).parentId \in g[i - 1] THEN g[i - 1] \cup {Row(i).id} ELSE g[i - 1]]
  <2> SUFFICES ASSUME NEW i \in 0 .. N
               PROVE  g[i] = IF i = 0 THEN {root}
                             ELSE IF Row(i).parentId \in g[i - 1] THEN g[i - 1] \cup {Row(i).id} ELSE g[i - 1]
    OBVIOUS
  <2>1. CASE i = 0
    BY <1>1, <1>2, <2>1
  <2>2. CASE i # 0
    <3>1. i \in 1 .. N /\ i - 1 \in 0 .. N
      BY <1>1, <2>2
    <3>2. g[i] = Known(i) /\ g[i - 1] = Known(i - 1)
      BY <3>1
    <3> QED
      BY <1>3, <2>2, <3>1, <3>2
  <2> QED
    BY <2>1, <2>2
<1> HIDE DEF g
<1>5. F = [i \in 0 .. N |-> IF i = 0 THEN {root}
                            ELSE IF Row(i).parentId \in F[i - 1] THEN F[i - 1] \cup {Row(i).id} ELSE F[i - 1]]
  BY <1>4, Zenon DEF coveredUpto, Row
<1> HIDE DEF F
<1>10. /\ F[0] = {root}
      /\ \A i \in 1 .. N : F[i] = IF Row(i).parentId \in F[i - 1] THEN F[i - 1] \cup {Row(i).id} ELSE F[i - 1]
  <2>1. 0 \in 0 .. N /\ \A i \in 1 .. N : i \in 0 .. N /\ i # 0
    BY <1>1
  <2> QED
    BY <1>5, <2>1, Zenon
<1> DEFINE S == {j \in Nat : j <= N => F[j] = Known(j)}
<1>6. \A j \in Nat : j \in S
  <2>1. 0 \in S
    BY <1>1, <1>2, <1>10
  <2>2. ASSUME NEW j \in Nat, j \in S PROVE j + 1 \in S
    <3> SUFFICES ASSUME j + 1 <= N PROVE F[j + 1] = Known(j + 1)
      OBVIOUS
    <3>1. j + 1 \in 1 .. N /\ (j + 1) - 1 = j /\ F[j] = Known(j)
      BY <1>1, <2>2
    <3>2. F[j + 1] = IF Row(j + 1).parentId \in F[j] THEN F[j] \cup {Row(j + 1).id} ELSE F[j]
      BY <1>10, <3>1
    <3> QED
      BY <1>3, <3>1, <3>2
  <2> HIDE DEF S
  <2> QED
    BY <2>1, <2>2, NatSet
<1>7. F[N] = Known(N)
  BY <1>1, <1>6
<1>8. Known(N) = {root} \cup {c.id : c \in {k \in ToSet(table) : k.parentId = root}}
  BY DEF Known, Row, ToSet, TwoLevels
<1> QED
  BY <1>7, <1>8 DEF withDescendants, F

\* A budget on a top-level category spends what the report files under it.
LEMMA BudgetCovers ==
    ASSUME NEW txns, NEW reporting, IsBook(txns), NEW range, NEW table, TwoLevels(table),
           NEW root, root \in IdsOf(ToSet(table)),
           \A c \in ToSet(table) : c.id = root => c.parentId = Null
    PROVE  LET rows == spendByCategory(txns, range, reporting, ToSet(table))
               window == [from |-> range.from, to |-> range.to, index |-> 0]
           IN  spendDetail([currency |-> reporting], window, txns, withDescendants({root}, table)).total
                    = IF root \in DOMAIN rows THEN rows[root] ELSE 0
<1> DEFINE all == ToSet(table)
           window == [from |-> range.from, to |-> range.to, index |-> 0]
           S == Convertible(InRange(txns, range, "expense"), reporting)
           Key(t) == IF t.categoryId = Null THEN Null ELSE rootIdOf(t.categoryId, all)
           covered == withDescendants({root}, table)
           X == {t \in S : Key(t) = root}
           Y == {t \in txns : countsTowards(t, covered) /\ within(t.date, window)}
           f == Worths(txns, reporting)
           rows == spendByCategory(txns, range, reporting, all)
<1>0. root # Null
  BY DEF TwoLevels, IdsOf
<1>1. covered = {root} \cup {c.id : c \in {k \in all : k.parentId = root}}
  BY <1>0, CoveredIs
<1>2. ASSUME NEW id, id # Null PROVE rootIdOf(id, all) = root <=> id \in covered
  <2> DEFINE parents == {c.parentId : c \in {k \in all : k.id = id}} \ {Null}
  <2>1. rootIdOf(id, all) = IF parents \cap IdsOf(all) = {} THEN id ELSE CHOOSE p \in parents : TRUE
    BY DEF rootIdOf
  <2>2. \A p, q \in parents : p = q
    BY DEF TwoLevels
  <2>3. CASE id = root
    <3>1. parents = {}
      BY <2>3
    <3> QED
      BY <1>1, <2>1, <2>3, <3>1
  <2>4. CASE id # root
    <3>1. id \in covered <=> root \in parents
      BY <1>0, <1>1, <2>4
    <3>2. CASE root \in parents
      <4>1. parents = {root} /\ root \in IdsOf(all)
        BY <2>2, <3>2
      <4>2. (CHOOSE p \in {root} : TRUE) = root
        OBVIOUS
      <4> QED
        BY <2>1, <3>1, <3>2, <4>1, <4>2
    <3>3. CASE root \notin parents
      <4>1. CASE parents \cap IdsOf(all) = {}
        BY <2>1, <2>4, <3>1, <3>3, <4>1
      <4>2. CASE parents \cap IdsOf(all) # {}
        <5>1. (CHOOSE p \in parents : TRUE) \in parents
          BY <4>2
        <5> QED
          BY <2>1, <3>1, <3>3, <4>2, <5>1
      <4> QED
        BY <4>1, <4>2
    <3> QED
      BY <3>2, <3>3
  <2> QED
    BY <2>3, <2>4
<1>3. Null \notin covered
  BY <1>0, <1>1 DEF TwoLevels
<1> HIDE DEF covered
<1>4. Convertible(Y, reporting) = X
  <2>1. \A t : within(t.date, window) <=> within(t.date, range)
    BY DEF within
  <2>2. \A t : t.categoryId \in covered <=> Key(t) = root
    BY <1>0, <1>2, <1>3
  <2> HIDE DEF Key, window
  <2> QED
    BY <2>1, <2>2 DEF Convertible, InRange, countsTowards
<1>5. Y \in SUBSET txns /\ X \in SUBSET txns /\ X \in SUBSET Convertible(txns, reporting)
  BY DEF Convertible, InRange
<1>6. spendDetail([currency |-> reporting], window, txns, covered).total = sumInReporting(Y, reporting).total
  BY DEF spendDetail
<1>7. sumInReporting(Y, reporting).total = SumFunctionOnSet(f, X)
  BY <1>4, <1>5, SumShown
<1>8. Convertible(X, reporting) = X
  BY DEF Convertible
<1>9. sumInReporting(X, reporting).total = SumFunctionOnSet(f, X)
  BY <1>5, <1>8, SumShown
<1>10. rows = [k \in {Key(t) : t \in S} |-> sumInReporting({t \in S : Key(t) = k}, reporting).total]
  BY DEF spendByCategory
<1>11. CASE root \in DOMAIN rows
  <2>1. rows[root] = sumInReporting(X, reporting).total
    BY <1>10, <1>11
  <2> QED
    BY <1>6, <1>7, <1>9, <1>11, <2>1 DEF covered
<1>12. CASE root \notin DOMAIN rows
  <2>1. X = {}
    BY <1>10, <1>12
  <2>2. SumFunctionOnSet(f, X) = 0
    <3>1. Summable(f, X)
      BY <1>5, WorthType
    <3> HIDE DEF X
    <3> QED
      BY <2>1, <3>1, SumRemove
  <2> QED
    BY <1>6, <1>7, <1>12, <2>2 DEF covered
<1> QED
  BY <1>11, <1>12

(***************************************************************************)
(* Any book of transactions, any accounts and rates, any range of up to a  *)
(* hundred years and any two-level table: the totals of a report are the   *)
(* sum of its months and of its categories, net worth moves by the months, *)
(* and a budget on a top-level category covers what is filed under it.     *)
(***************************************************************************)
THEOREM ReportsAddUp ==
    ASSUME NEW txns, NEW reporting, IsBook(txns), NEW range, IsRange(range),
           NEW accounts, NEW rates, IsFiniteSet(accounts),
           \A a \in accounts : a.openingBalance \in Int /\ Quoted(rates[a.currency]),
           NEW table, TwoLevels(table), NEW root,
           \A c \in ToSet(table) : c.id = root => c.parentId = Null
    PROVE  ReportAddsUp(accounts, txns, range, reporting, rates, table, root)
<1> DEFINE totals == totalsFor(txns, range, reporting)
           flow == flowByMonth(txns, range, reporting)
           rows == spendByCategory(txns, range, reporting, ToSet(table))
           worth == netWorthOver(accounts, txns, range, reporting, rates)
           window == [from |-> range.from, to |-> range.to, index |-> 0]
<1>1. totals.net = SumFunction([i \in DOMAIN flow |-> flow[i].net])
  BY MonthsAddUp
<1>2. totals.expense = SumFunction(rows)
  BY CategoriesAddUp
<1>3. \A i \in DOMAIN worth \ {1} : worth[i].amount - worth[i - 1].amount = flow[i].net
  BY WorthMoves
<1>4. root \in IdsOf(ToSet(table)) =>
        spendDetail([currency |-> reporting], window, txns, withDescendants({root}, table)).total
            = IF root \in DOMAIN rows THEN rows[root] ELSE 0
  BY BudgetCovers
<1> QED
  BY <1>1, <1>2, <1>3, <1>4, Zenon DEF ReportAddsUp

----------------------------------------------------------------------------
\* The calls the run looks at are among those.

LEMMA FilesName ==
    ASSUME NEW file \in TokenFiles, NEW i \in DOMAIN file
    PROVE  file[i].account # Null
<1>1. \A account, hash : TokenLine(account, hash).account = account
  BY DEF TokenLine
<1>2. TokenComment.account = ""
  BY DEF TokenComment
<1>3. "ann" # Null /\ "bob" # Null /\ "" # Null
  BY FiguresAssumption
<1>4. \A j \in DOMAIN file : file[j].account \in {"ann", "bob", ""}
  <2> DEFINE Good(l) == l.account \in {"ann", "bob", ""}
  <2>1. /\ Good(TokenLine("ann", "t1")) /\ Good(TokenLine("bob", "t2"))
        /\ Good(TokenLine("bob", "t1")) /\ Good(TokenLine("", "t2")) /\ Good(TokenComment)
    BY <1>1, <1>2
  <2> HIDE DEF Good
  <2>2. \A l, m : Good(l) /\ Good(m) => \A j \in DOMAIN <<l, m>> : Good(<<l, m>>[j])
    OBVIOUS
  <2>3. \A j \in DOMAIN file : Good(file[j])
    <3>1. CASE file = << >>
      BY <3>1
    <3>2. CASE file # << >>
      BY <2>1, <2>2, <3>2 DEF TokenFiles
    <3> QED
      BY <3>1, <3>2
  <2> QED
    BY <2>3 DEF Good
<1> QED
  BY <1>3, <1>4

LEMMA CallsFit ==
    ASSUME NEW c \in Calls
    PROVE  Honest(c.env, c.request, c.stored)
<1>0. c.env \in {e \in Envs : Serving(e)} /\ c.request \in Requests
  BY SMT DEF Calls
<1>1. /\ c.request.method \in Methods /\ c.request.headers = AdapterHeaders(c.request.method)
      /\ c.request.size \in {0, 2, 3, 4, 5}
  BY <1>0, SMT DEF Requests
<1>2. c.request.size \in Nat
  BY <1>1
<1> DEFINE env == c.env
<1>3. Serving(env) /\ env.maxObjectSize \in Int \cup {Null}
  BY <1>0 DEF Envs
<1>4. env.tokensFile \in TokenFiles
  BY <1>0, <1>3 DEF Envs, Serving, Load
<1>5. \A i \in DOMAIN env.tokensFile : env.tokensFile[i].account # Null
  BY <1>4, FilesName
<1> QED
  BY <1>1, <1>2, <1>3, <1>5, CallIsHonest DEF Methods

\* Cases of different kinds are told apart.
LEMMA Apart ==
    ASSUME Init
    PROVE  /\ case.is = "call" => case \in Calls
           /\ case.is = "proxy" => case \in Proxied
           /\ case.is = "import" => case \in Imports
           /\ case.is = "books" => case \in Books
           /\ case.is = "report" => case \in Reports
           /\ case.is = "card" => case \in Cards
           /\ case.is = "budget" => case \in Budgets
           /\ case.is = "rule" => case \in Rules
<1>1. (\A c \in Rules : c.is = "rule") /\ \A c \in Budgets : c.is = "budget"
  <2>1. \A c \in Rules : c.is = "rule"
    BY SMT DEF Rules
  <2>2. \A c \in Budgets : c.is = "budget"
    BY SMT DEF Budgets
  <2> QED
    BY <2>1, <2>2
<1>2. (\A c \in Books : c.is = "books") /\ (\A c \in Reports : c.is = "report")
      /\ \A c \in Cards : c.is = "card"
  <2>1. \A c \in Cards : c.is = "card"
    BY SMT DEF Cards
  <2>2. (\A c \in Books : c.is = "books") /\ \A c \in Reports : c.is = "report"
    BY SMT DEF Books, Reports
  <2> QED
    BY <2>1, <2>2
<1>3. (\A c \in Amounts : c.is = "amount") /\ \A c \in Imports : c.is = "import"
  BY SMT DEF Amounts, Imports
<1>4. \A c \in Files : c.is = "file"
  BY SMT DEF Files
<1>5. \A c \in Proxied : c.is = "proxy"
  BY SMT DEF Proxied
<1>6. \A c \in Calls : c.is = "call"
  BY SMT DEF Calls
<1> QED
  BY <1>1, <1>2, <1>3, <1>4, <1>5, <1>6 DEF Init, Dated

(***************************************************************************)
(* The run's property, from the theorem above: every call it picks meets   *)
(* the hypotheses.                                                         *)
(***************************************************************************)
THEOREM CallsHonest == Spec => []CallsAreHonest
<1>1. Init => CallsAreHonest
  BY Apart, CallsFit DEF CallsAreHonest
<1>2. CallsAreHonest /\ [NextDay]_vars => CallsAreHonest'
  BY DEF CallsAreHonest, NextDay, vars
<1> QED
  BY <1>1, <1>2, PTL DEF Spec

\* Requests through the proxy.
LEMMA ProxiedFit ==
    ASSUME NEW c \in Proxied
    PROVE  Home(c.request, c.config, c.upstream)
<1> DEFINE Labels == {"com", "git", "www", "gitx"}
<1>1. /\ c.config \in ProxyConfigs /\ c.request \in ProxyRequests
      /\ c.upstream \in [Hosts -> Hosts \cup {Null, Unreadable}]
  BY SMT DEF Proxied
<1>2. c.request.host \in Hosts \cup {Null}
  BY <1>1, SMT DEF ProxyRequests
<1>3. c.config.hosts \in {{}, {<<"com", "git">>}}
  BY <1>1, SMT DEF ProxyConfigs
<1>4. Hosts \subseteq Seq(Labels)
  BY DEF Hosts
<1>5. c.config.hosts \subseteq Seq(Labels)
  <2>1. <<"com", "git">> \in Seq(Labels)
    OBVIOUS
  <2>2. c.config.hosts = {} \/ c.config.hosts = {<<"com", "git">>}
    BY <1>3, Zenon
  <2> HIDE DEF Labels
  <2> QED
    BY <2>1, <2>2
<1>6. DOMAIN c.upstream = Hosts /\ \A h \in Hosts : c.upstream[h] \in Hosts \cup {Null, Unreadable}
  BY <1>1
<1> HIDE DEF Labels
<1> QED
  BY <1>2, <1>4, <1>5, <1>6, ProxyIsHome

(***************************************************************************)
(* The run's property, from the theorem above.                             *)
(***************************************************************************)
THEOREM ProxiesStayHome == Spec => []ProxyStaysHome
<1>1. Init => ProxyStaysHome
  BY Apart, ProxiedFit DEF ProxyStaysHome
<1>2. ProxyStaysHome /\ [NextDay]_vars => ProxyStaysHome'
  BY DEF ProxyStaysHome, NextDay, vars
<1> QED
  BY <1>1, <1>2, PTL DEF Spec

\* The statements of the run.
LEMMA ImportsFit ==
    ASSUME NEW c \in Imports
    PROVE  Settled(c.lines, c.dayFirst)
<1>1. PICK a \in Lines, b \in Lines : c.lines = <<a, b>>
  BY DEF Imports
<1>2. c.dayFirst \in BOOLEAN
  BY DEF Imports
<1>3. \A l \in Lines : Readable(l)
  <2>1. \A first, second \in Nat, amount \in Int \cup {Null} : Readable(Line(first, second, amount))
    BY DEF Readable, Line
  <2>2. Readable([Line(1, 1, 1) EXCEPT !.blank = TRUE])
    BY DEF Readable, Line
  <2>3. ASSUME NEW l \in Lines, l # [Line(1, 1, 1) EXCEPT !.blank = TRUE] PROVE Readable(l)
    <3>1. PICK d \in {2, 13, 31}, m \in {2, 3, 13}, x \in {-5, 5, 0, Null} : l = Line(d, m, x)
      BY <2>3 DEF Lines
    <3>2. d \in Nat /\ m \in Nat /\ x \in Int \cup {Null}
      OBVIOUS
    <3> QED
      BY <2>1, <3>1, <3>2
  <2> QED
    BY <2>2, <2>3
<1>4. /\ Len(c.lines) = 2 /\ DOMAIN c.lines = 1 .. Len(c.lines)
      /\ c.lines[1] = a /\ c.lines[2] = b
  BY <1>1
<1>5. \A i \in DOMAIN c.lines : Readable(c.lines[i])
  BY <1>3, <1>4
<1> QED
  BY <1>2, <1>4, <1>5, StatementSettles

(***************************************************************************)
(* The run's property, from the theorem above.                             *)
(***************************************************************************)
THEOREM ImportsSettle == Spec => []ImportSettles
<1>1. Init => ImportSettles
  BY Apart, ImportsFit DEF ImportSettles
<1>2. ImportSettles /\ [NextDay]_vars => ImportSettles'
  BY DEF ImportSettles, NextDay, vars
<1> QED
  BY <1>1, <1>2, PTL DEF Spec

LEMMA Four ==
    ASSUME NEW a, NEW b, NEW c, NEW d
    PROVE  IsFiniteSet({a, b, c, d})
<1>1. IsFiniteSet({a}) /\ IsFiniteSet({b}) /\ IsFiniteSet({c}) /\ IsFiniteSet({d})
  BY FS_Singleton
<1>2. IsFiniteSet({a} \cup {b})
  BY <1>1, FS_Union
<1>3. IsFiniteSet(({a} \cup {b}) \cup {c})
  BY <1>1, <1>2, FS_Union
<1>4. IsFiniteSet((({a} \cup {b}) \cup {c}) \cup {d})
  BY <1>1, <1>3, FS_Union
<1>5. (({a} \cup {b}) \cup {c}) \cup {d} = {a, b, c, d}
  OBVIOUS
<1> QED
  BY <1>4, <1>5

LEMMA SpentFinite ==
    /\ IsFiniteSet(Spent)
    /\ \A t \in Spent :
        /\ t.amount \in Int /\ t.rate \in {NoRate, [num |-> 1, den |-> 7]}
        /\ t.date \in {20240131, 20240229, 20240301, 20240302, 20240228, 20240303, 20240330}
<1> DEFINE a == Txn(1, "expense", 40, 20240131)
           b == Txn(2, "expense", 70, 20240229)
           c == Txn(3, "expense", 15, 20240301)
           d == [Txn(4, "expense", 30, 20240301) EXCEPT !.categoryId = "lunch", !.payee = "",
                    !.currency = "JPY", !.rate = [num |-> 1, den |-> 7]]
           e == [Txn(5, "expense", 9, 20240302) EXCEPT !.currency = "JPY", !.categoryId = Null]
           f == [Txn(6, "income", 500, 20240228) EXCEPT !.categoryId = "pay"]
           g == [Txn(7, "transfer", 60, 20240303) EXCEPT !.accountId = "bank",
                    !.counterAccountId = "card", !.categoryId = Null]
           h == Txn(8, "expense", 20, 20240330)
           i == Txn(9, "income", 5, 20240330)
<1>0. /\ a.amount = 40 /\ b.amount = 70 /\ c.amount = 15 /\ d.amount = 30 /\ e.amount = 9
      /\ f.amount = 500 /\ g.amount = 60 /\ h.amount = 20 /\ i.amount = 5
  BY DEF Txn
<1>7. /\ a.date = 20240131 /\ b.date = 20240229 /\ c.date = 20240301 /\ d.date = 20240301
      /\ e.date = 20240302 /\ f.date = 20240228 /\ g.date = 20240303 /\ h.date = 20240330
      /\ i.date = 20240330
  BY SMT DEF Txn
<1>8. /\ d.rate = [num |-> 1, den |-> 7]
      /\ \A t \in {a, b, c, e, f, g, h, i} : t.rate = NoRate
  BY SMT DEF Txn
<1>1. Spent = {a, b, c, d, e, f, g, h, i}
  BY SMT DEF Spent
<1> HIDE DEF a, b, c, d, e, f, g, h, i
<1>2. IsFiniteSet({a, b, c, d}) /\ IsFiniteSet({e, f, g, h}) /\ IsFiniteSet({i})
  BY Four, FS_Singleton
<1>3. IsFiniteSet(({a, b, c, d} \cup {e, f, g, h}) \cup {i})
  <2>1. PICK X, Y, Z : X = {a, b, c, d} /\ Y = {e, f, g, h} /\ Z = {i}
    OBVIOUS
  <2>2. IsFiniteSet((X \cup Y) \cup Z)
    BY <1>2, <2>1, FS_Union, Zenon
  <2> QED
    BY <2>1, <2>2, Zenon
<1>4. ({a, b, c, d} \cup {e, f, g, h}) \cup {i} = Spent
  BY <1>1
<1>5. IsFiniteSet(Spent)
  BY <1>3, <1>4, Zenon
<1>6. \A t \in Spent : t.amount \in {5, 9, 15, 20, 30, 40, 60, 70, 500}
  BY <1>0, <1>1
<1>9. \A t \in Spent : t.date \in {20240131, 20240229, 20240301, 20240302, 20240228, 20240303, 20240330}
  BY <1>1, <1>7, SMT
<1>10. \A t \in Spent : t.rate \in {NoRate, [num |-> 1, den |-> 7]}
  BY <1>1, <1>8
<1> QED
  BY <1>5, <1>6, <1>9, <1>10, SMT

\* The ledgers of the run.
LEMMA BooksFit ==
    ASSUME NEW c \in Books
    PROVE  SheetAgrees({c.card, c.bank}, Groups, Spent, "USD", Rates)
<1>1. c.card \in CardAccounts /\ c.bank \in BankAccounts
  BY DEF Books
<1>2. Quoted(Rates["USD"]) /\ Quoted(Rates["JPY"])
  BY DEF Quoted, IsRate, Rates
<1>3. c.card.openingBalance = -25 /\ c.card.currency \in {"USD", "JPY"}
  BY <1>1 DEF CardAccounts, Account
<1>4. c.bank.openingBalance = 300 /\ c.bank.currency = "USD"
  BY <1>1 DEF BankAccounts, Account
<1>5. IsFiniteSet({c.card, c.bank}) /\ IsFiniteSet(Groups)
  <2> DEFINE x == [id |-> "cards", type |-> "credit-card"]
             y == [id |-> "cash", type |-> "cash"]
             z == [id |-> "spare", type |-> "loan"]
  <2>1. Groups = {x, y, z}
    BY DEF Groups
  <2> HIDE DEF x, y, z
  <2>2. IsFiniteSet({x, y, z, z}) /\ {x, y, z, z} = {x, y, z}
    BY Four
  <2>3. IsFiniteSet({c.card, c.bank, c.bank, c.bank}) /\ {c.card, c.bank, c.bank, c.bank} = {c.card, c.bank}
    BY Four
  <2> QED
    BY <2>1, <2>2, <2>3, Zenon
<1>6. \A g, h \in Groups : g.id = h.id => g = h
  BY DEF Groups
<1>7. \A a \in {c.card, c.bank} : a.openingBalance \in Int /\ Quoted(Rates[a.currency])
  BY <1>2, <1>3, <1>4
<1> QED
  BY <1>5, <1>6, <1>7, SpentFinite, SheetIsNetWorth

(***************************************************************************)
(* The run's property, from the theorem above.                             *)
(***************************************************************************)
THEOREM SheetsAgree == Spec => []BalanceSheetIsNetWorth
<1>1. Init => BalanceSheetIsNetWorth
  BY Apart, BooksFit DEF BalanceSheetIsNetWorth
<1>2. BalanceSheetIsNetWorth /\ [NextDay]_vars => BalanceSheetIsNetWorth'
  BY DEF BalanceSheetIsNetWorth, NextDay, vars
<1> QED
  BY <1>1, <1>2, PTL DEF Spec

----------------------------------------------------------------------------
\* The reports of the run, on any day it comes to.

LEMMA PresetFits ==
    ASSUME NEW date, IsDay(date), YearOf(date) >= 1, NEW preset \in Presets
    PROVE  IsRange(rangeFor(preset, date))
<1>0. PICK y \in Nat, m \in 1 .. 12, d \in 1 .. 31 : y = YearOf(date) /\ m = MonthOf(date) /\ d = DayOf(date)
  BY DayParts
<1>1. /\ y = YearOf(date) /\ m = MonthOf(date)
      /\ date = y * 10000 + m * 100 + d /\ y >= 1
  BY <1>0, DayParts
<1>9. date = y * 10000 + m * 100 + d
  BY <1>1
<1>2. MonthNumber(date) = y * 12 + m - 1
  BY <1>1 DEF MonthNumber
<1>3. ASSUME NEW n \in 0 .. 11
      PROVE  IsRange([from |-> addMonths(startOfMonth(date), -n), to |-> date])
  <2>1. PICK k \in Int : k = -n
    OBVIOUS
  <2>2. MonthNumber(date) + k \in Nat
    BY <1>1, <1>2, <2>1
  <2>3. PICK moved : moved = addMonths(startOfMonth(date), k)
    OBVIOUS
  <2>4. IsDay(moved) /\ DayOf(moved) = 1 /\ MonthNumber(moved) = MonthNumber(date) + k
    BY <2>2, <2>3, MonthAdded
  <2>5. PICK yy \in Nat, mm \in 1 .. 12 :
            yy = YearOf(moved) /\ mm = MonthOf(moved) /\ moved = yy * 10000 + mm * 100 + 1
    BY <2>4, DayParts
  <2>6. yy * 12 + mm - 1 = y * 12 + m - 1 - n
    BY <1>2, <2>1, <2>4, <2>5 DEF MonthNumber
  <2>7. moved <= date
    BY <1>1, <2>5, <2>6
  <2>8. MonthNumber(date) - MonthNumber(moved) < MONTHS_GUARD
    <3>1. PICK p \in Int, q \in Int : p = MonthNumber(date) /\ q = MonthNumber(moved)
      BY <1>2, <2>1, <2>4
    <3> QED
      BY <2>1, <2>4, <3>1 DEF MONTHS_GUARD
  <2> QED
    BY <2>1, <2>3, <2>4, <2>7, <2>8 DEF IsRange
<1>4. IsRange(currentMonth(date))
  <2>1. PICK l \in 28 .. 31 : l = daysInMonth(y, m)
    BY MonthLength
  <2>2. PICK first \in 1 .. 31, last \in 1 .. 31 : first = 1 /\ last = l
    OBVIOUS
  <2>3. PICK a, b : a = format(y, m, first) /\ b = format(y, m, last)
    OBVIOUS
  <2>4. a \in Nat /\ YearOf(a) = y /\ MonthOf(a) = m /\ DayOf(a) = first
    BY <2>3, DayFormed, Zenon
  <2>5. b \in Nat /\ YearOf(b) = y /\ MonthOf(b) = m /\ DayOf(b) = last
    BY <2>3, DayFormed, Zenon
  <2>6. IsDay(a) /\ IsDay(b)
    BY <2>1, <2>2, <2>4, <2>5 DEF IsDay
  <2>7. a <= b
    BY <2>2, <2>3 DEF format
  <2>8. MonthNumber(b) - MonthNumber(a) < MONTHS_GUARD
    BY <2>4, <2>5 DEF MonthNumber, MONTHS_GUARD
  <2>9. currentMonth(date) = [from |-> a, to |-> b]
    <3>1. y = YearOf(date) /\ m = MonthOf(date)
      BY <1>1
    <3>2. startOfMonth(date) = a
      BY <2>2, <2>3, <3>1, Zenon DEF startOfMonth
    <3>3. endOfMonth(date) = b
      BY <2>1, <2>2, <2>3, <3>1, Zenon DEF endOfMonth
    <3> QED
      BY <3>2, <3>3, Zenon DEF currentMonth
  <2> QED
    BY <2>6, <2>7, <2>8, <2>9 DEF IsRange
<1>5. IsRange([from |-> format(y, 1, 1), to |-> date])
  <2>1. PICK a : a = format(y, 1, 1)
    OBVIOUS
  <2>2. 1 \in 1 .. 12 /\ 1 \in 1 .. 31
    OBVIOUS
  <2>3. a \in Nat /\ YearOf(a) = y /\ MonthOf(a) = 1 /\ DayOf(a) = 1
    BY <2>1, <2>2, FormatParts
  <2>4. IsDay(a)
    BY <2>2, <2>3, MonthLength DEF IsDay
  <2>5. a <= date
    <3>1. a = y * 10000 + 101
      BY <2>1, SMT DEF format
    <3>2. y * 10000 + 101 <= y * 10000 + m * 100 + d
      BY SMT
    <3> QED
      BY <1>9, <3>1, <3>2, SMT
  <2>6. MonthNumber(date) - MonthNumber(a) < MONTHS_GUARD
    BY <1>2, <2>3 DEF MonthNumber, MONTHS_GUARD
  <2> QED
    BY <2>1, <2>4, <2>5, <2>6 DEF IsRange
<1>6. 2 \in 0 .. 11 /\ 5 \in 0 .. 11 /\ 11 \in 0 .. 11
  OBVIOUS
<1>7. /\ rangeFor("month", date) = currentMonth(date)
      /\ rangeFor("quarter", date) = [from |-> addMonths(startOfMonth(date), -2), to |-> date]
      /\ rangeFor("half", date) = [from |-> addMonths(startOfMonth(date), -5), to |-> date]
      /\ rangeFor("twelve", date) = [from |-> addMonths(startOfMonth(date), -11), to |-> date]
      /\ rangeFor("year", date) = [from |-> format(y, 1, 1), to |-> date]
  <2>1. rangeFor("month", date) = currentMonth(date)
    BY Zenon DEF rangeFor
  <2>2. rangeFor("quarter", date) = [from |-> addMonths(startOfMonth(date), -2), to |-> date]
    BY Zenon DEF rangeFor
  <2>3. rangeFor("half", date) = [from |-> addMonths(startOfMonth(date), -5), to |-> date]
    BY Zenon DEF rangeFor
  <2>4. rangeFor("twelve", date) = [from |-> addMonths(startOfMonth(date), -11), to |-> date]
    BY Zenon DEF rangeFor
  <2>5. rangeFor("year", date) = [from |-> format(YearOf(date), 1, 1), to |-> date]
    BY Zenon DEF rangeFor
  <2> QED
    BY <1>1, <2>1, <2>2, <2>3, <2>4, <2>5
<1>8. preset \in {"month", "quarter", "half", "twelve", "year"}
  BY DEF Presets
<1> QED
  BY <1>3, <1>4, <1>5, <1>6, <1>7, <1>8

LEMMA TablesFit ==
    ASSUME NEW table \in Tables
    PROVE  TwoLevels(table) /\ \A c \in ToSet(table) : c.id = "food" => c.parentId = Null
<1> DEFINE food == Category("food", Null)
           lunch == Category("lunch", "food")
           rent == Category("rent", Null)
<1>1. /\ food.id = "food" /\ lunch.id = "lunch" /\ rent.id = "rent"
      /\ food.parentId = Null /\ lunch.parentId = "food" /\ rent.parentId = Null
  BY DEF Category
<1>2. "food" # Null /\ "lunch" # Null /\ "rent" # Null
  BY FiguresAssumption
<1>3. table \in {<<food, lunch, rent>>, <<lunch, food>>, <<lunch>>, << >>}
  BY DEF Tables
<1> HIDE DEF food, lunch, rent
<1>4. /\ Len(table) \in Nat /\ DOMAIN table = 1 .. Len(table)
      /\ ToSet(table) \subseteq {food, lunch, rent}
  BY <1>3 DEF ToSet
<1>5. \A c \in ToSet(table) : c \in {food, lunch, rent}
  BY <1>4
<1> QED
  BY <1>1, <1>2, <1>4, <1>5 DEF TwoLevels

LEMMA SpentIsBook == IsBook(Spent)
<1> DEFINE Dates == {20240131, 20240229, 20240301, 20240302, 20240228, 20240303, 20240330}
<1>1. \A t \in Spent : t.date \in Dates /\ t.rate \in {NoRate, [num |-> 1, den |-> 7]}
  BY SpentFinite
<1>2. \A date \in Dates : IsDay(date)
  <2>1. /\ 31 \in 1 .. daysInMonth(2024, 1) /\ 28 \in 1 .. daysInMonth(2024, 2)
        /\ 29 \in 1 .. daysInMonth(2024, 2)
        /\ {1, 2, 3, 30} \subseteq 1 .. daysInMonth(2024, 3)
    <3>1. Leap(2024)
      BY SMT DEF Leap
    <3>2. daysInMonth(2024, 1) = 31 /\ daysInMonth(2024, 2) = 29 /\ daysInMonth(2024, 3) = 31
      BY <3>1 DEF daysInMonth
    <3> QED
      BY <3>2, SMT
  <2> QED
    BY <2>1, SMT DEF IsDay, YearOf, MonthOf, DayOf
<1>3. Quoted(NoRate) /\ Quoted([num |-> 1, den |-> 7])
  BY DEF Quoted, IsRate
<1> HIDE DEF Dates
<1> QED
  BY <1>1, <1>2, <1>3, SpentFinite DEF IsBook, Entered

\* The date stays a day the calendar has.
LEMMA AlwaysDay == Spec => [](IsDay(today) /\ YearOf(today) >= 1)
<1> DEFINE I == IsDay(today) /\ YearOf(today) >= 1
<1>1. Init => I
  BY FiguresAssumption DEF Init
<1>2. I /\ [NextDay]_vars => I'
  <2> SUFFICES ASSUME I, [NextDay]_vars PROVE I'
    OBVIOUS
  <2>1. CASE NextDay
    <3>1. today' = addDays(today, 1)
      BY <2>1 DEF NextDay
    <3> QED
      BY <3>1, NextIsDay
  <2>2. CASE UNCHANGED vars
    BY <2>2 DEF vars
  <2> QED
    BY <2>1, <2>2
<1> QED
  BY <1>1, <1>2, PTL DEF Spec

\* The case does not change.
LEMMA AlwaysReport == Spec => [](case.is = "report" => case \in Reports)
<1> DEFINE J == case.is = "report" => case \in Reports
<1>1. Init => J
  BY Apart
<1>2. J /\ [NextDay]_vars => J'
  BY DEF NextDay, vars
<1> QED
  BY <1>1, <1>2, PTL DEF Spec

(***************************************************************************)
(* The run's property, on every day there is from the first one on: the    *)
(* presets are ranges, the tables have two levels, and tomorrow is a day.  *)
(***************************************************************************)
THEOREM ReportsAlwaysAgree == Spec => []ReportsAgree
<1> DEFINE I == IsDay(today) /\ YearOf(today) >= 1
           J == case.is = "report" => case \in Reports
<1>1. I /\ J => ReportsAgree
  <2> SUFFICES ASSUME I, case \in Reports
               PROVE  ReportAddsUp({}, Spent, rangeFor(case.preset, today), "USD", Rates, case.table, "food")
    BY DEF ReportsAgree
  <2>1. case.table \in Tables /\ case.preset \in Presets
    BY DEF Reports
  <2>2. IsRange(rangeFor(case.preset, today))
    BY <2>1, PresetFits
  <2>3. IsFiniteSet({})
    BY FS_EmptySet
  <2>4. TwoLevels(case.table) /\ \A c \in ToSet(case.table) : c.id = "food" => c.parentId = Null
    BY <2>1, TablesFit
  <2> QED
    BY <2>2, <2>3, <2>4, SpentIsBook, ReportsAddUp
<1> QED
  BY <1>1, AlwaysDay, AlwaysReport, PTL

----------------------------------------------------------------------------
\* Days by the number of their month.

MonthSize(n) == daysInMonth(n \div 12, (n % 12) + 1)
On(n, d) == format(n \div 12, (n % 12) + 1, d)
FirstOf(n) == MonthStart(n \div 12, (n % 12) + 1)
Clipped(day, n) == Least(IF day < 1 THEN 1 ELSE day, MonthSize(n))

LEMMA SizeBounds == ASSUME NEW n PROVE MonthSize(n) \in 28 .. 31
<1>1. MonthSize(n) \in {28, 29, 30, 31}
  BY MonthLength DEF MonthSize
<1> QED
  BY <1>1

LEMMA OnParts ==
    ASSUME NEW n \in Nat, NEW d \in 1 .. 31
    PROVE  /\ On(n, d) \in Nat /\ YearOf(On(n, d)) = n \div 12
           /\ MonthOf(On(n, d)) = (n % 12) + 1 /\ DayOf(On(n, d)) = d
<1>1. PICK y \in Nat, m \in 1 .. 12 : y = n \div 12 /\ m = (n % 12) + 1
  OBVIOUS
<1>2. On(n, d) = format(y, m, d)
  BY <1>1, Zenon DEF On
<1>3. /\ format(y, m, d) \in Nat /\ YearOf(format(y, m, d)) = y
      /\ MonthOf(format(y, m, d)) = m /\ DayOf(format(y, m, d)) = d
  BY FormatParts
<1> HIDE DEF On
<1> QED
  BY <1>1, <1>2, <1>3

LEMMA DayIsOn ==
    ASSUME NEW date, IsDay(date)
    PROVE  /\ MonthNumber(date) \in Nat /\ DayOf(date) \in 1 .. MonthSize(MonthNumber(date))
           /\ DayOf(date) \in 1 .. 31
           /\ date = On(MonthNumber(date), DayOf(date))
           /\ YearOf(date) = MonthNumber(date) \div 12
<1>1. PICK y \in Nat, m \in 1 .. 12, d \in 1 .. 31 : y = YearOf(date) /\ m = MonthOf(date) /\ d = DayOf(date)
  BY DayParts
<1>2. PICK n \in Nat : n = y * 12 + m - 1
  OBVIOUS
<1>3. n \div 12 = y /\ (n % 12) + 1 = m
  BY <1>2
<1>4. MonthNumber(date) = n
  BY <1>1, <1>2 DEF MonthNumber
<1>5. date = y * 10000 + m * 100 + d
  BY <1>1, DayParts
<1>6. d \in 1 .. daysInMonth(y, m)
  BY <1>1 DEF IsDay
<1> QED
  BY <1>1, <1>3, <1>4, <1>5, <1>6 DEF On, MonthSize, format

LEMMA OnEarlier ==
    ASSUME NEW n \in Nat, NEW d \in 1 .. 31, NEW k \in Nat, NEW e \in 1 .. 31, n < k
    PROVE  On(n, d) < On(k, e)
<1>1. PICK y \in Nat, m \in 1 .. 12 : y = n \div 12 /\ m = (n % 12) + 1
  OBVIOUS
<1>2. PICK z \in Nat, j \in 1 .. 12 : z = k \div 12 /\ j = (k % 12) + 1
  OBVIOUS
<1>3. n = y * 12 + m - 1 /\ k = z * 12 + j - 1
  BY <1>1, <1>2
<1>4. On(n, d) = y * 10000 + m * 100 + d /\ On(k, e) = z * 10000 + j * 100 + e
  BY <1>1, <1>2 DEF On, format
<1>5. y * 10000 + m * 100 + d < z * 10000 + j * 100 + e
  BY <1>3
<1> QED
  BY <1>4, <1>5

LEMMA OnWithin ==
    ASSUME NEW n \in Nat, NEW d \in 1 .. 31, NEW e \in 1 .. 31
    PROVE  (On(n, d) < On(n, e) <=> d < e) /\ (On(n, d) <= On(n, e) <=> d <= e)
<1>1. PICK y \in Nat, m \in 1 .. 12 : y = n \div 12 /\ m = (n % 12) + 1
  OBVIOUS
<1>2. On(n, d) = y * 10000 + m * 100 + d /\ On(n, e) = y * 10000 + m * 100 + e
  BY <1>1 DEF On, format
<1> QED
  BY <1>2

LEMMA ClippedIs ==
    ASSUME NEW day \in Int, NEW n
    PROVE  Clipped(day, n) \in 1 .. MonthSize(n) /\ Clipped(day, n) \in 1 .. 31
BY SizeBounds DEF Clipped, Least

LEMMA InMonthOn ==
    ASSUME NEW n \in Nat, NEW d \in 1 .. 31, NEW day \in Int
    PROVE  InMonthOf(On(n, d), day) = On(n, Clipped(day, n))
<1>1. YearOf(On(n, d)) = n \div 12 /\ MonthOf(On(n, d)) = (n % 12) + 1
  BY OnParts
<1> QED
  BY <1>1, Zenon DEF InMonthOf, dayOfMonth, On, Clipped, MonthSize

LEMMA MonthsMoved ==
    ASSUME NEW n \in Nat, NEW d \in 1 .. 31, NEW k \in Int, n + k \in Nat
    PROVE  /\ addMonths(On(n, d), k) = On(n + k, Least(d, MonthSize(n + k)))
           /\ Least(d, MonthSize(n + k)) \in 1 .. MonthSize(n + k)
           /\ Least(d, MonthSize(n + k)) \in 1 .. 31
<1>1. PICK y \in Nat, m \in 1 .. 12 : y = n \div 12 /\ m = (n % 12) + 1
  OBVIOUS
<1>2. YearOf(On(n, d)) = y /\ MonthOf(On(n, d)) = m /\ DayOf(On(n, d)) = d
  BY <1>1, OnParts
<1>3. y * 12 + (m - 1) + k = n + k
  BY <1>1
<1>4. Least(d, MonthSize(n + k)) \in 1 .. MonthSize(n + k) /\ Least(d, MonthSize(n + k)) \in 1 .. 31
  BY SizeBounds DEF Least
<1>5. addMonths(On(n, d), k) = On(n + k, Least(d, MonthSize(n + k)))
  BY <1>2, <1>3, Zenon DEF addMonths, On, MonthSize
<1> QED
  BY <1>4, <1>5

LEMMA MonthsOn ==
    ASSUME NEW n \in Nat, NEW d \in 1 .. 31, NEW k \in Int, n + k \in Nat
    PROVE  \E e \in 1 .. 31 : addMonths(On(n, d), k) = On(n + k, e)
BY MonthsMoved

\* The months follow each other.
LEMMA MonthFollows ==
    ASSUME NEW n \in Nat
    PROVE  FirstOf(n) \in Int /\ FirstOf(n + 1) = FirstOf(n) + MonthSize(n)
<1>1. PICK y \in Nat, m \in 1 .. 12 : y = n \div 12 /\ m = (n % 12) + 1
  OBVIOUS
<1>2. PICK b \in Int : b = DaysBeforeYear(y)
  BY YearLength
<1>3. PICK l \in {0, 1} : l = IF Leap(y) THEN 1 ELSE 0
  OBVIOUS
<1>4. DaysBeforeYear(y + 1) = b + 365 + l
  BY <1>2, <1>3, YearLength
<1>5. /\ MonthStart(y, 1) = b /\ MonthStart(y, 2) = b + 31 /\ MonthStart(y, 3) = b + 59 + l
      /\ MonthStart(y, 4) = b + 90 + l /\ MonthStart(y, 5) = b + 120 + l /\ MonthStart(y, 6) = b + 151 + l
      /\ MonthStart(y, 7) = b + 181 + l /\ MonthStart(y, 8) = b + 212 + l /\ MonthStart(y, 9) = b + 243 + l
      /\ MonthStart(y, 10) = b + 273 + l /\ MonthStart(y, 11) = b + 304 + l /\ MonthStart(y, 12) = b + 334 + l
  BY <1>2, <1>3 DEF MonthStart, DaysBeforeMonth
<1>6. /\ daysInMonth(y, 1) = 31 /\ daysInMonth(y, 2) = 28 + l /\ daysInMonth(y, 3) = 31
      /\ daysInMonth(y, 4) = 30 /\ daysInMonth(y, 5) = 31 /\ daysInMonth(y, 6) = 30
      /\ daysInMonth(y, 7) = 31 /\ daysInMonth(y, 8) = 31 /\ daysInMonth(y, 9) = 30
      /\ daysInMonth(y, 10) = 31 /\ daysInMonth(y, 11) = 30 /\ daysInMonth(y, 12) = 31
  BY <1>3 DEF daysInMonth
<1>7. MonthStart(y + 1, 1) = b + 365 + l
  BY <1>4 DEF MonthStart, DaysBeforeMonth
<1>8. m \in {1, 2, 3, 4, 5, 6, 7, 8, 9, 10, 11, 12}
  OBVIOUS
<1>9. CASE m = 12
  <2>1. (n + 1) \div 12 = y + 1 /\ ((n + 1) % 12) + 1 = 1
    BY <1>1, <1>9
  <2>2. FirstOf(n + 1) = MonthStart(y + 1, 1) /\ FirstOf(n) = MonthStart(y, 12) /\ MonthSize(n) = daysInMonth(y, 12)
    BY <1>1, <1>9, <2>1, Zenon DEF FirstOf, MonthSize
  <2> QED
    BY <1>5, <1>6, <1>7, <2>2
<1>10. CASE m # 12
  <2>1. (n + 1) \div 12 = y /\ ((n + 1) % 12) + 1 = m + 1
    BY <1>1, <1>10
  <2>2. FirstOf(n + 1) = MonthStart(y, m + 1) /\ FirstOf(n) = MonthStart(y, m) /\ MonthSize(n) = daysInMonth(y, m)
    BY <1>1, <2>1, Zenon DEF FirstOf, MonthSize
  <2>3. MonthStart(y, m) \in Int /\ MonthStart(y, m + 1) = MonthStart(y, m) + daysInMonth(y, m)
    BY <1>5, <1>6, <1>8, <1>10
  <2> QED
    BY <2>2, <2>3
<1> QED
  BY <1>9, <1>10

LEMMA MonthsApart ==
    ASSUME NEW a \in Nat, NEW b \in Nat, a < b
    PROVE  FirstOf(a) \in Int /\ FirstOf(b) \in Int /\ FirstOf(a) + MonthSize(a) <= FirstOf(b)
<1> DEFINE S == {j \in Nat : FirstOf(a) + MonthSize(a) <= FirstOf(a + 1 + j)}
<1>1. 0 \in S
  <2>1. a + 1 + 0 = a + 1
    OBVIOUS
  <2> QED
    BY <2>1, MonthFollows, SizeBounds
<1>2. ASSUME NEW j \in Nat, j \in S PROVE j + 1 \in S
  <2>1. PICK n \in Nat : n = a + 1 + j
    OBVIOUS
  <2>2. n + 1 = a + 1 + (j + 1)
    BY <2>1
  <2>3. FirstOf(n + 1) = FirstOf(n) + MonthSize(n) /\ FirstOf(n) \in Int /\ MonthSize(n) \in Nat
    BY MonthFollows, SizeBounds
  <2>4. FirstOf(a) + MonthSize(a) <= FirstOf(n) /\ FirstOf(a) \in Int /\ MonthSize(a) \in Nat
    BY <1>2, <2>1, MonthFollows, SizeBounds
  <2>5. FirstOf(a) + MonthSize(a) <= FirstOf(n + 1)
    BY <2>3, <2>4
  <2>6. FirstOf(a) + MonthSize(a) <= FirstOf(a + 1 + (j + 1))
    BY <2>2, <2>5, Zenon
  <2> QED
    BY <2>6
<1> HIDE DEF S
<1>3. b - a - 1 \in S
  BY <1>1, <1>2, NatSet
<1>4. a + 1 + (b - a - 1) = b
  OBVIOUS
<1> QED
  BY <1>3, <1>4, MonthFollows DEF S

LEMMA DayNumber ==
    ASSUME NEW n \in Nat, NEW d \in 1 .. 31
    PROVE  UTCDay(On(n, d)) = FirstOf(n) + d
BY OnParts, Zenon DEF UTCDay, FirstOf

LEMMA SameDay ==
    ASSUME NEW n \in Nat, NEW k \in Nat, NEW d \in 1 .. MonthSize(n), NEW e \in 1 .. MonthSize(k),
           FirstOf(n) + d = FirstOf(k) + e
    PROVE  n = k /\ d = e
<1>1. FirstOf(n) \in Int /\ FirstOf(k) \in Int /\ MonthSize(n) \in Nat /\ MonthSize(k) \in Nat
  BY MonthFollows, SizeBounds
<1>2. ~(n < k)
  BY <1>1, MonthsApart
<1>3. ~(k < n)
  BY <1>1, MonthsApart
<1> QED
  BY <1>1, <1>2, <1>3

\* Tomorrow is the next day of the month, or the first of the next month.
LEMMA TomorrowIs ==
    ASSUME NEW n \in Nat, NEW d \in 1 .. MonthSize(n), n >= 12
    PROVE  addDays(On(n, d), 1) = IF d < MonthSize(n) THEN On(n, d + 1) ELSE On(n + 1, 1)
<1>1. d \in 1 .. 31 /\ MonthSize(n) \in 28 .. 31 /\ FirstOf(n) \in Int
  BY SizeBounds, MonthFollows
<1>2. PICK t : t = addDays(On(n, d), 1)
  OBVIOUS
<1>3. IsDay(On(n, d)) /\ YearOf(On(n, d)) >= 1
  <2>1. PICK date : date = On(n, d)
    OBVIOUS
  <2>2. date \in Nat /\ YearOf(date) = n \div 12 /\ MonthOf(date) = (n % 12) + 1 /\ DayOf(date) = d
    BY <1>1, <2>1, OnParts, Zenon
  <2>3. daysInMonth(YearOf(date), MonthOf(date)) = MonthSize(n)
    BY <2>2, Zenon DEF MonthSize
  <2>4. MonthOf(date) \in 1 .. 12 /\ YearOf(date) >= 1
    BY <2>2
  <2> QED
    BY <2>1, <2>2, <2>3, <2>4 DEF IsDay
<1>4. IsDay(t) /\ UTCDay(t) = FirstOf(n) + d + 1
  BY <1>1, <1>2, <1>3, NextIsDay, DayNumber
<1>5. PICK k \in Nat, e \in 1 .. 31 : t = On(k, e) /\ e \in 1 .. MonthSize(k)
  BY <1>4, DayIsOn
<1>6. FirstOf(k) + e = FirstOf(n) + d + 1
  BY <1>4, <1>5, DayNumber
<1>7. FirstOf(k) \in Int /\ MonthSize(k) \in Nat
  BY MonthFollows, SizeBounds
<1>8. CASE d < MonthSize(n)
  <2>1. PICK f \in 1 .. MonthSize(n) : f = d + 1
    BY <1>1, <1>8
  <2>2. FirstOf(n) + f = FirstOf(k) + e
    BY <1>1, <1>6, <1>7, <2>1
  <2> QED
    BY <1>2, <1>5, <1>8, <2>1, <2>2, SameDay
<1>9. CASE ~(d < MonthSize(n))
  <2>1. PICK j \in Nat : j = n + 1
    OBVIOUS
  <2>2. FirstOf(j) = FirstOf(n) + d
    BY <1>1, <1>9, <2>1, MonthFollows
  <2>3. PICK f \in 1 .. MonthSize(j) : f = 1 /\ FirstOf(j) + f = FirstOf(k) + e
    BY <1>1, <1>6, <1>7, <2>2, SizeBounds
  <2>4. j = k /\ f = e
    BY <1>5, <2>3, SameDay
  <2> QED
    BY <1>2, <1>5, <1>9, <2>1, <2>3, <2>4
<1> QED
  BY <1>8, <1>9

----------------------------------------------------------------------------
\* The days of a card.

LEMMA ClosedOn ==
    ASSUME NEW n \in Nat \ {0}, NEW d \in 1 .. 31, NEW day \in Int
    PROVE  lastStatementDate(day, On(n, d)) =
                IF Clipped(day, n) <= d THEN On(n, Clipped(day, n)) ELSE On(n - 1, Clipped(day, n - 1))
<1>1. PICK c \in 1 .. 31 : c = Clipped(day, n)
  BY ClippedIs
<1>2. InMonthOf(On(n, d), day) = On(n, c)
  BY <1>1, InMonthOn
<1>3. PICK k \in Nat : k = n - 1
  OBVIOUS
<1>4. PICK e \in 1 .. 31 : addMonths(On(n, c), -1) = On(k, e)
  <2>1. n + (-1) \in Nat /\ -1 \in Int /\ n + (-1) = k
    BY <1>3
  <2> QED
    BY <2>1, MonthsOn
<1>5. InMonthOf(On(k, e), day) = On(k, Clipped(day, k))
  BY InMonthOn
<1>6. On(n, c) <= On(n, d) <=> c <= d
  BY OnWithin, Zenon
<1> QED
  BY <1>1, <1>2, <1>3, <1>4, <1>5, <1>6 DEF lastStatementDate

LEMMA DueOn ==
    ASSUME NEW n \in Nat, NEW c \in 1 .. 31, NEW day \in Int
    PROVE  dueDateFor(day, On(n, c)) =
                IF c < Clipped(day, n) THEN On(n, Clipped(day, n)) ELSE On(n + 1, Clipped(day, n + 1))
<1>1. PICK e \in 1 .. 31 : e = Clipped(day, n)
  BY ClippedIs
<1>2. InMonthOf(On(n, c), day) = On(n, e)
  BY <1>1, InMonthOn
<1>3. PICK k \in Nat : k = n + 1
  OBVIOUS
<1>4. PICK f \in 1 .. 31 : addMonths(On(n, c), 1) = On(k, f)
  <2>1. PICK one \in Int : one = 1 /\ n + one = k
    BY <1>3
  <2>2. n + one \in Nat
    BY <2>1
  <2>3. \E f \in 1 .. 31 : addMonths(On(n, c), one) = On(n + one, f)
    BY <2>2, MonthsOn, Zenon
  <2> QED
    BY <2>1, <2>3
<1>5. InMonthOf(On(k, f), day) = On(k, Clipped(day, k))
  BY InMonthOn
<1>6. On(n, e) > On(n, c) <=> c < e
  <2>1. On(n, c) \in Nat /\ On(n, e) \in Nat
    BY OnParts
  <2>2. On(n, c) < On(n, e) <=> c < e
    BY OnWithin, Zenon
  <2> QED
    BY <2>1, <2>2
<1> QED
  BY <1>1, <1>2, <1>3, <1>4, <1>5, <1>6 DEF dueDateFor

\* A statement stays the last one, or the next one closes a month later and tomorrow.
LEMMA ClosingMoves ==
    ASSUME NEW n \in Nat, n >= 12, NEW d \in 1 .. MonthSize(n), NEW day \in Int
    PROVE  \E m \in Nat :
            LET now == lastStatementDate(day, On(n, d))
                tomorrow == addDays(On(n, d), 1)
                next == lastStatementDate(day, tomorrow)
            IN  /\ now = On(m, Clipped(day, m)) /\ now <= On(n, d)
                /\ next = now \/ (next = On(m + 1, Clipped(day, m + 1)) /\ next = tomorrow)
<1> DEFINE now == lastStatementDate(day, On(n, d))
           tomorrow == addDays(On(n, d), 1)
           next == lastStatementDate(day, tomorrow)
<1>1. d \in 1 .. 31 /\ MonthSize(n) \in 28 .. 31 /\ n \in Nat \ {0} /\ n + 1 \in Nat \ {0} /\ (n + 1) - 1 = n
  BY SizeBounds
<1>2. PICK p \in Nat : p = n - 1
  OBVIOUS
<1>3. p + 1 = n
  BY <1>2
<1>4. PICK c \in 1 .. 31 : c = Clipped(day, n) /\ c <= MonthSize(n)
  BY <1>1, ClippedIs
<1>5. PICK b \in 1 .. 31 : b = Clipped(day, p)
  BY ClippedIs
<1>6. now = IF c <= d THEN On(n, c) ELSE On(p, b)
  BY <1>1, <1>2, <1>4, <1>5, ClosedOn
<1>7. tomorrow = IF d < MonthSize(n) THEN On(n, d + 1) ELSE On(n + 1, 1)
  BY TomorrowIs
<1>8. now <= On(n, d)
  <2>1. On(n, c) \in Nat /\ On(p, b) \in Nat /\ On(n, d) \in Nat
    BY <1>1, OnParts
  <2>2. c <= d => On(n, c) <= On(n, d)
    BY <1>1, OnWithin, Zenon
  <2>3. On(p, b) < On(n, d)
    <3>1. p < n
      BY <1>2
    <3> QED
      BY <1>1, <3>1, OnEarlier, Zenon
  <2> HIDE DEF now
  <2> QED
    BY <1>6, <2>1, <2>2, <2>3
<1>9. CASE d < MonthSize(n)
  <2>1. d + 1 \in 1 .. 31 /\ tomorrow = On(n, d + 1)
    BY <1>1, <1>7, <1>9
  <2>2. next = IF c <= d + 1 THEN On(n, c) ELSE On(p, b)
    BY <1>1, <1>2, <1>4, <1>5, <2>1, ClosedOn
  <2> HIDE DEF now, next, tomorrow
  <2>3. CASE c <= d
    <3>1. now = On(n, Clipped(day, n)) /\ next = now
      BY <1>4, <1>6, <2>2, <2>3
    <3> QED
      BY <1>8, <3>1 DEF now, next, tomorrow
  <2>4. CASE ~(c <= d)
    <3>1. now = On(p, Clipped(day, p))
      BY <1>5, <1>6, <2>4
    <3>2. next = now \/ (next = On(p + 1, Clipped(day, p + 1)) /\ next = tomorrow)
      <4>1. CASE c <= d + 1
        <5>1. c = d + 1
          BY <2>4, <4>1
        <5> QED
          BY <1>3, <1>4, <2>1, <2>2, <4>1, <5>1
      <4>2. CASE ~(c <= d + 1)
        BY <1>6, <2>2, <2>4, <4>2
      <4> QED
        BY <4>1, <4>2
    <3> QED
      BY <1>8, <3>1, <3>2 DEF now, next, tomorrow
  <2> QED
    BY <2>3, <2>4
<1>10. CASE ~(d < MonthSize(n))
  <2>1. c <= d
    BY <1>1, <1>4, <1>10
  <2>2. now = On(n, Clipped(day, n)) /\ tomorrow = On(n + 1, 1) /\ 1 \in 1 .. 31
    BY <1>4, <1>6, <1>7, <1>10, <2>1
  <2>3. PICK f \in 1 .. 31 : f = Clipped(day, n + 1)
    BY ClippedIs
  <2>4. next = IF f <= 1 THEN On(n + 1, f) ELSE On(n, Clipped(day, n))
    BY <1>1, <2>2, <2>3, ClosedOn
  <2> HIDE DEF now, next, tomorrow
  <2>5. next = now \/ (next = On(n + 1, Clipped(day, n + 1)) /\ next = tomorrow)
    <3>1. CASE f <= 1
      <4>1. f = 1
        BY <3>1
      <4> QED
        BY <2>2, <2>3, <2>4, <4>1
    <3>2. CASE ~(f <= 1)
      BY <2>2, <2>4, <3>2
    <3> QED
      BY <3>1, <3>2
  <2> QED
    BY <1>8, <2>2, <2>5 DEF now, next, tomorrow
<1> QED
  BY <1>9, <1>10

\* A bill falls due after its statement closes, within a month.
LEMMA DueSoon ==
    ASSUME NEW m \in Nat, NEW closing \in Int, NEW day \in Int
    PROVE  LET closed == On(m, Clipped(closing, m)) IN
           /\ dueDateFor(day, closed) > closed
           /\ daysBetween(closed, dueDateFor(day, closed)) <= 31
<1>1. PICK c \in 1 .. 31 : c = Clipped(closing, m) /\ c <= MonthSize(m)
  BY ClippedIs, SizeBounds
<1>2. PICK e \in 1 .. 31, f \in 1 .. 31 : e = Clipped(day, m) /\ f = Clipped(day, m + 1)
  BY ClippedIs
<1>3. dueDateFor(day, On(m, c)) = IF c < e THEN On(m, e) ELSE On(m + 1, f)
  BY <1>2, DueOn
<1>0. m + 1 \in Nat /\ m < m + 1
  OBVIOUS
<1>4. On(m, c) \in Nat /\ On(m, e) \in Nat /\ On(m + 1, f) \in Nat
  BY <1>0, OnParts, Zenon
<1>5. (c < e => On(m, c) < On(m, e)) /\ On(m, c) < On(m + 1, f)
  BY <1>0, OnEarlier, OnWithin, Zenon
<1>6. PICK s \in Int, l \in 28 .. 31 : s = FirstOf(m) /\ l = MonthSize(m) /\ FirstOf(m + 1) = s + l
  BY MonthFollows, SizeBounds
<1>7. UTCDay(On(m, c)) = s + c /\ UTCDay(On(m, e)) = s + e /\ UTCDay(On(m + 1, f)) = s + l + f
  BY <1>6, DayNumber
<1>8. ~(c < e) => l - c + f <= 31
  <2>1. PICK q \in 28 .. 31 : q = MonthSize(m + 1)
    BY SizeBounds
  <2>2. PICK x \in Nat : x = IF day < 1 THEN 1 ELSE day
    OBVIOUS
  <2>3. e = Least(x, l) /\ f = Least(x, q)
    BY <1>2, <1>6, <2>1, <2>2 DEF Clipped
  <2> QED
    BY <1>1, <1>6, <2>3 DEF Least
<1>9. CASE c < e
  BY <1>1, <1>3, <1>4, <1>5, <1>7, <1>9 DEF daysBetween
<1>10. CASE ~(c < e)
  BY <1>1, <1>3, <1>4, <1>5, <1>7, <1>8, <1>10 DEF daysBetween
<1> QED
  BY <1>9, <1>10

\* Bills fall due in the order of their months.
LEMMA DueInOrder ==
    ASSUME NEW m \in Nat, NEW closing \in Int, NEW day \in Int
    PROVE  dueDateFor(day, On(m + 1, Clipped(closing, m + 1))) >= dueDateFor(day, On(m, Clipped(closing, m)))
<1>1. PICK c \in 1 .. 31, d \in 1 .. 31 : c = Clipped(closing, m) /\ d = Clipped(closing, m + 1)
  BY ClippedIs
<1>2. PICK e \in 1 .. 31, f \in 1 .. 31, g \in 1 .. 31 :
        e = Clipped(day, m) /\ f = Clipped(day, m + 1) /\ g = Clipped(day, m + 2)
  BY ClippedIs
<1>3. m + 1 \in Nat /\ m + 2 \in Nat /\ (m + 1) + 1 = m + 2
  OBVIOUS
<1>4. dueDateFor(day, On(m, c)) = IF c < e THEN On(m, e) ELSE On(m + 1, f)
  BY <1>2, DueOn
<1>5. dueDateFor(day, On(m + 1, d)) = IF d < f THEN On(m + 1, f) ELSE On(m + 2, g)
  BY <1>2, <1>3, DueOn
<1>6. On(m, e) \in Nat /\ On(m + 1, f) \in Nat /\ On(m + 2, g) \in Nat
  BY <1>3, OnParts
<1>7. On(m, e) < On(m + 1, f) /\ On(m + 1, f) < On(m + 2, g)
  <2>1. m < m + 1 /\ m + 1 < m + 2
    OBVIOUS
  <2> QED
    BY <1>3, <2>1, OnEarlier, Zenon
<1> QED
  BY <1>1, <1>4, <1>5, <1>6, <1>7

\* What is billed between two days.
LEMMA BilledBetween ==
    ASSUME NEW card, card.openingBalance \in Int, NEW txns, IsFiniteSet(txns),
           \A t \in txns : t.amount \in Int /\ t.date \in Int,
           NEW from \in Int, NEW to \in Int, from <= to
    PROVE  -balanceAsOf(card, txns, to) = -balanceAsOf(card, txns, from) + Charges(card, txns, from, to)
<1> DEFINE f == [t \in txns |-> signedFor(card.id, t)]
           A == {u \in txns : u.date <= from}
           B == {u \in txns : from < u.date /\ u.date <= to}
           C == {u \in txns : u.date <= to}
           fa == [t \in A |-> signedFor(card.id, t)]
           fc == [t \in C |-> signedFor(card.id, t)]
           fb == [t \in B |-> -signedFor(card.id, t)]
<1>1. \A t \in txns : signedFor(card.id, t) \in Int
  BY DEF signedFor
<1>2. Summable(f, A) /\ Summable(f, B) /\ Summable(f, C)
  <2>1. IsFiniteSet(A) /\ IsFiniteSet(B) /\ IsFiniteSet(C)
    BY FS_Subset
  <2> QED
    BY <1>1, <2>1 DEF Summable
<1>3. A \cup B = C /\ A \cap B = {}
  OBVIOUS
<1>4. (\A t \in A : fa[t] = f[t]) /\ (\A t \in C : fc[t] = f[t]) /\ (\A t \in B : fb[t] = -f[t])
  OBVIOUS
<1>5. DOMAIN fa = A /\ DOMAIN fb = B /\ DOMAIN fc = C
  OBVIOUS
<1>6. /\ balanceAsOf(card, txns, from) = card.openingBalance + SumFunctionOnSet(fa, DOMAIN fa)
      /\ balanceAsOf(card, txns, to) = card.openingBalance + SumFunctionOnSet(fc, DOMAIN fc)
      /\ Charges(card, txns, from, to) = SumFunctionOnSet(fb, DOMAIN fb)
  BY Zenon DEF balanceAsOf, Charges, SumFunction
<1> HIDE DEF f, fa, fb, fc, A, B, C
<1>7. SumFunctionOnSet(fa, A) = SumFunctionOnSet(f, A) /\ SumFunctionOnSet(fc, C) = SumFunctionOnSet(f, C)
  BY <1>2, <1>4, SumAgree
<1>8. SumFunctionOnSet(fb, B) = -SumFunctionOnSet(f, B)
  BY <1>2, <1>4, SumNegated
<1>9. SumFunctionOnSet(f, C) = SumFunctionOnSet(f, A) + SumFunctionOnSet(f, B)
  BY <1>2, <1>3, SumUnion
<1>10. SumFunctionOnSet(f, A) \in Int /\ SumFunctionOnSet(f, B) \in Int
  BY <1>2, SumRemove
<1>11. PICK a \in Int, b \in Int : a = SumFunctionOnSet(f, A) /\ b = SumFunctionOnSet(f, B)
  BY <1>10
<1>12. /\ balanceAsOf(card, txns, from) = card.openingBalance + a
       /\ balanceAsOf(card, txns, to) = card.openingBalance + (a + b)
       /\ Charges(card, txns, from, to) = -b
  BY <1>5, <1>6, <1>7, <1>8, <1>9, <1>11
<1> QED
  BY <1>12

(***************************************************************************)
(* Any card, any terms, any finite ledger, any day from the first year on: *)
(* statements close and fall due one after the other, and each bills what  *)
(* the one before it billed and every movement since.                      *)
(***************************************************************************)
THEOREM StatementsFollow ==
    ASSUME NEW card, card.openingBalance \in Int, card.statementDay \in Int, card.dueDay \in Int,
           NEW txns, IsFiniteSet(txns), \A t \in txns : t.amount \in Int /\ t.date \in Int,
           NEW date, IsDay(date), YearOf(date) >= 1
    PROVE  BillFollows(card, txns, date, addDays(date, 1))
<1> DEFINE tomorrow == addDays(date, 1)
           closed == lastStatementDate(card.statementDay, date)
           later == lastStatementDate(card.statementDay, tomorrow)
           now == summariseStatement(card, txns, date)
           next == summariseStatement(card, txns, tomorrow)
<1>1. /\ now.closedOn = closed /\ now.dueOn = dueDateFor(card.dueDay, closed)
      /\ now.statementBalance = -balanceAsOf(card, txns, closed)
  BY DEF summariseStatement
<1>2. /\ next.closedOn = later /\ next.dueOn = dueDateFor(card.dueDay, later)
      /\ next.statementBalance = -balanceAsOf(card, txns, later)
  BY DEF summariseStatement
<1>0. PICK n \in Nat : n = MonthNumber(date)
  BY DayIsOn
<1>3. PICK d \in 1 .. MonthSize(n) : date = On(n, d) /\ n >= 12
  <2>1. n \div 12 >= 1 /\ DayOf(date) \in 1 .. MonthSize(n) /\ date = On(n, DayOf(date))
    BY <1>0, DayIsOn
  <2>2. n >= 12
    BY <2>1
  <2> QED
    BY <2>1, <2>2
<1>4. PICK m \in Nat :
        /\ closed = On(m, Clipped(card.statementDay, m)) /\ closed <= date
        /\ \/ later = closed
           \/ later = On(m + 1, Clipped(card.statementDay, m + 1)) /\ later = tomorrow
  BY <1>3, ClosingMoves
<1> HIDE DEF tomorrow, closed, later, now, next
<1>5. dueDateFor(card.dueDay, closed) > closed /\ daysBetween(closed, dueDateFor(card.dueDay, closed)) <= 31
  BY <1>4, DueSoon
<1>6. CASE later = closed
  <2>1. next.closedOn = now.closedOn /\ next.dueOn = now.dueOn /\ next.statementBalance = now.statementBalance
    BY <1>1, <1>2, <1>6
  <2> QED
    BY <1>1, <1>4, <1>5, <2>1, Zenon DEF BillFollows, now, next, tomorrow
<1>7. CASE later # closed
  <2>1. later = On(m + 1, Clipped(card.statementDay, m + 1)) /\ later = tomorrow
    BY <1>4, <1>7
  <2>2. dueDateFor(card.dueDay, later) >= dueDateFor(card.dueDay, closed)
    BY <1>4, <2>1, DueInOrder
  <2>3. closed \in Int /\ later \in Int /\ closed <= later
    <3>0. PICK k \in Nat : k = m + 1
      OBVIOUS
    <3>1. PICK c \in 1 .. 31, e \in 1 .. 31 :
            c = Clipped(card.statementDay, m) /\ e = Clipped(card.statementDay, k)
      BY ClippedIs, Zenon
    <3>2. closed = On(m, c) /\ later = On(k, e) /\ m < k
      BY <1>4, <2>1, <3>0, <3>1
    <3>3. On(m, c) \in Nat /\ On(k, e) \in Nat
      BY OnParts
    <3>4. On(m, c) < On(k, e)
      BY <3>2, OnEarlier
    <3> QED
      BY <3>2, <3>3, <3>4
  <2>4. -balanceAsOf(card, txns, later) = -balanceAsOf(card, txns, closed) + Charges(card, txns, closed, later)
    BY <2>3, BilledBetween
  <2>5. /\ next.closedOn = tomorrow /\ next.closedOn # now.closedOn /\ next.dueOn >= now.dueOn
        /\ next.statementBalance = now.statementBalance + Charges(card, txns, now.closedOn, next.closedOn)
    BY <1>1, <1>2, <1>7, <2>1, <2>2, <2>4
  <2> QED
    BY <1>1, <1>4, <1>5, <2>5, Zenon DEF BillFollows, now, next, tomorrow
<1> QED
  BY <1>6, <1>7

\* The case does not change.
LEMMA AlwaysCard == Spec => [](case.is = "card" => case \in Cards)
<1> DEFINE J == case.is = "card" => case \in Cards
<1>1. Init => J
  BY Apart
<1>2. J /\ [NextDay]_vars => J'
  BY DEF NextDay, vars
<1> QED
  BY <1>1, <1>2, PTL DEF Spec

(***************************************************************************)
(* The run's action property, from the theorem above.                      *)
(***************************************************************************)
THEOREM CardsFollow == Spec => BillsFollow
<1> DEFINE I == IsDay(today) /\ YearOf(today) >= 1
           J == case.is = "card" => case \in Cards
           A == case.is = "card" => BillFollows(case, Spent, today, today')
<1>1. I /\ J /\ [NextDay]_vars => [A]_vars
  <2> SUFFICES ASSUME I, case \in Cards, NextDay
               PROVE  BillFollows(case, Spent, today, today')
    OBVIOUS
  <2>1. today' = addDays(today, 1)
    BY DEF NextDay
  <2>2. case.openingBalance \in Int /\ case.statementDay \in Int /\ case.dueDay \in Int
    BY SMT DEF Cards
  <2>3. IsFiniteSet(Spent) /\ \A t \in Spent : t.amount \in Int /\ t.date \in Int
    BY SpentIsBook DEF IsBook, Entered, IsDay
  <2> QED
    BY <2>1, <2>2, <2>3, StatementsFollow
<1> QED
  BY <1>1, AlwaysDay, AlwaysCard, PTL DEF Spec, BillsFollow

----------------------------------------------------------------------------
\* Days in the order of their numbers.

LEMMA DayOrder ==
    ASSUME NEW a, NEW b, IsDay(a), IsDay(b)
    PROVE  a \in Nat /\ b \in Nat /\ UTCDay(a) \in Int /\ UTCDay(b) \in Int /\ (a < b <=> UTCDay(a) < UTCDay(b))
<1>1. PICK n \in Nat, d \in 1 .. 31 : a = On(n, d) /\ d <= MonthSize(n)
  BY DayIsOn, SizeBounds
<1>2. PICK k \in Nat, e \in 1 .. 31 : b = On(k, e) /\ e <= MonthSize(k)
  BY DayIsOn, SizeBounds
<1>3. PICK s \in Int, t \in Int : s = FirstOf(n) /\ t = FirstOf(k)
  BY MonthFollows
<1>4. PICK l \in 28 .. 31, q \in 28 .. 31 : l = MonthSize(n) /\ q = MonthSize(k)
  BY SizeBounds
<1>5. UTCDay(a) = s + d /\ UTCDay(b) = t + e
  BY <1>1, <1>2, <1>3, DayNumber
<1>6. On(n, d) \in Nat /\ On(k, e) \in Nat
  BY OnParts
<1>7. CASE n < k
  <2>1. s + l <= t
    BY <1>3, <1>4, <1>7, MonthsApart
  <2>2. On(n, d) < On(k, e)
    BY <1>7, OnEarlier
  <2> QED
    BY <1>1, <1>2, <1>4, <1>5, <1>6, <2>1, <2>2
<1>8. CASE k < n
  <2>1. t + q <= s
    BY <1>3, <1>4, <1>8, MonthsApart
  <2>2. On(k, e) < On(n, d)
    BY <1>8, OnEarlier
  <2> QED
    BY <1>1, <1>2, <1>4, <1>5, <1>6, <2>1, <2>2
<1>9. CASE n = k
  <2>1. s = t
    BY <1>3, <1>9
  <2>2. On(n, d) < On(n, e) <=> d < e
    BY OnWithin, Zenon
  <2> QED
    BY <1>1, <1>2, <1>5, <1>6, <1>9, <2>1, <2>2
<1> QED
  BY <1>7, <1>8, <1>9

LEMMA DayAgain ==
    ASSUME NEW date, IsDay(date), YearOf(date) >= 1
    PROVE  DateOfDay(UTCDay(date)) = date
<1>1. PICK n \in Nat \ {0} : n = UTCDay(date)
  BY CountedFromOne
<1>2. PICK d : d = DateOfDay(n)
  OBVIOUS
<1>3. IsDay(d) /\ UTCDay(d) = n
  BY <1>2, DayFound
<1>4. ~(d < date) /\ ~(date < d) /\ d \in Nat /\ date \in Nat
  BY <1>1, <1>3, DayOrder
<1> QED
  BY <1>1, <1>2, <1>4

----------------------------------------------------------------------------
\* The index of a window.

Growing(f) == \A j \in Nat : f[j] \in Nat /\ f[j] < f[j + 1]
IsIndex(f, date, K) == K \in Nat /\ \A j \in Nat : f[j] <= date <=> j <= K
Starts(anchor) == [j \in Nat |-> windowStart(anchor, j)]

LEMMA Grows ==
    ASSUME NEW f, Growing(f), NEW a \in Nat, NEW b \in Nat, a < b
    PROVE  f[a] < f[b]
<1> DEFINE S == {j \in Nat : f[a] < f[a + 1 + j]}
<1>1. 0 \in S
  BY DEF Growing
<1>2. ASSUME NEW j \in Nat, j \in S PROVE j + 1 \in S
  <2>1. PICK n \in Nat : n = a + 1 + j
    OBVIOUS
  <2>2. f[a] < f[n] /\ f[a] \in Nat /\ f[n] \in Nat /\ f[n + 1] \in Nat /\ f[n] < f[n + 1]
    BY <1>2, <2>1 DEF Growing
  <2>3. n + 1 = a + 1 + (j + 1)
    BY <2>1
  <2>4. f[a] < f[n + 1]
    BY <2>2
  <2> QED
    BY <2>3, <2>4
<1> HIDE DEF S
<1>3. b - a - 1 \in S
  BY <1>1, <1>2, NatSet
<1>4. a + 1 + (b - a - 1) = b
  OBVIOUS
<1> QED
  BY <1>3, <1>4 DEF S

LEMMA IndexExists ==
    ASSUME NEW f, Growing(f), NEW date \in Nat, f[0] <= date
    PROVE  \E K \in Nat : IsIndex(f, date, K)
<1> DEFINE S == {j \in Nat : (f[j] <= date /\ f[j] >= j) \/ \E K \in Nat : f[K] <= date /\ f[K + 1] > date}
<1>1. 0 \in S
  BY DEF Growing
<1>2. ASSUME NEW j \in Nat, j \in S PROVE j + 1 \in S
  BY <1>2 DEF Growing
<1> HIDE DEF S
<1>3. date + 1 \in S
  BY <1>1, <1>2, NatSet
<1>4. PICK K \in Nat : f[K] <= date /\ f[K + 1] > date
  <2>1. ~(f[date + 1] <= date /\ f[date + 1] >= date + 1)
    BY DEF Growing
  <2> QED
    BY <1>3, <2>1 DEF S
<1>5. ASSUME NEW j \in Nat PROVE f[j] <= date <=> j <= K
  <2>1. f[j] \in Nat /\ f[K] \in Nat /\ f[K + 1] \in Nat
    BY DEF Growing
  <2>2. j < K => f[j] < f[K]
    BY Grows
  <2>3. K + 1 < j => f[K + 1] < f[j]
    BY Grows
  <2> QED
    BY <1>4, <2>1, <2>2, <2>3
<1> QED
  BY <1>5 DEF IsIndex

\* The loops come to the index from wherever they start.
LEMMA LoopsFind ==
    ASSUME NEW anchor, NEW date, NEW K, IsIndex(Starts(anchor), date, K), NEW e \in Nat,
           date \in Nat, \A j \in Nat : windowStart(anchor, j) \in Nat
    PROVE  Corrected(anchor, date, e) = K
<1> DEFINE at(j) == windowStart(anchor, j)
           down == [i \in 0 .. e |-> Least(i, K)]
           up == [i \in Nat |-> IF i <= K THEN K ELSE i]
           D == DownFrom(anchor, date, e)
           U == UpFrom(anchor, date)
<1>1. K \in Nat /\ \A j \in Nat : at(j) <= date <=> j <= K
  BY DEF IsIndex, Starts
<1>2. \A j \in Nat : at(j) > date <=> K < j
  BY <1>1
<1> HIDE DEF at
<1>3. down = [i \in 0 .. e |-> IF i > 0 /\ at(i) > date THEN down[i - 1] ELSE i]
  <2> SUFFICES ASSUME NEW i \in 0 .. e
               PROVE  down[i] = IF i > 0 /\ at(i) > date THEN down[i - 1] ELSE i
    OBVIOUS
  <2>1. CASE i > 0 /\ at(i) > date
    <3>1. i - 1 \in 0 .. e /\ K < i
      BY <1>2, <2>1
    <3>2. down[i] = K /\ down[i - 1] = K
      BY <1>1, <3>1 DEF Least
    <3> QED
      BY <2>1, <3>2
  <2>2. CASE ~(i > 0 /\ at(i) > date)
    <3>1. i <= K
      BY <1>1, <1>2, <2>2
    <3> QED
      BY <2>2, <3>1 DEF Least
  <2> QED
    BY <2>1, <2>2
<1>4. up = [i \in Nat |-> IF at(i + 1) <= date THEN up[i + 1] ELSE i]
  <2> SUFFICES ASSUME NEW i \in Nat
               PROVE  up[i] = IF at(i + 1) <= date THEN up[i + 1] ELSE i
    OBVIOUS
  <2>1. at(i + 1) <= date <=> i + 1 <= K
    BY <1>1
  <2> QED
    BY <1>1, <2>1
<1> HIDE DEF down, up
<1>5. D = [i \in 0 .. e |-> IF i > 0 /\ at(i) > date THEN D[i - 1] ELSE i]
  BY <1>3, Zenon DEF DownFrom, at
<1>6. U = [i \in Nat |-> IF at(i + 1) <= date THEN U[i + 1] ELSE i]
  BY <1>4, Zenon DEF UpFrom, at
<1> HIDE DEF D, U
<1>7. \A i \in 0 .. e : D[i] = IF i > 0 /\ at(i) > date THEN D[i - 1] ELSE i
  BY <1>5, Zenon
<1>8. \A i \in Nat : U[i] = IF at(i + 1) <= date THEN U[i + 1] ELSE i
  BY <1>6, Zenon
<1> DEFINE S == {j \in Nat : j <= e => D[j] = Least(j, K)}
<1>9. \A j \in Nat : j \in S
  <2>1. 0 \in S
    BY <1>1, <1>7 DEF Least
  <2>2. ASSUME NEW j \in Nat, j \in S PROVE j + 1 \in S
    <3> SUFFICES ASSUME j + 1 <= e PROVE D[j + 1] = Least(j + 1, K)
      OBVIOUS
    <3>1. j + 1 \in 0 .. e /\ (j + 1) - 1 = j /\ D[j] = Least(j, K) /\ j + 1 > 0
      BY <2>2
    <3>2. D[j + 1] = IF at(j + 1) > date THEN D[j] ELSE j + 1
      BY <1>7, <3>1
    <3>3. at(j + 1) > date <=> K < j + 1
      BY <1>2
    <3> QED
      BY <1>1, <3>1, <3>2, <3>3 DEF Least
  <2> HIDE DEF S
  <2> QED
    BY <2>1, <2>2, NatSet
<1> DEFINE T == {j \in Nat : j <= K => U[K - j] = K}
<1>10. \A j \in Nat : j \in T
  <2>1. 0 \in T
    <3>1. ~(at(K + 1) <= date)
      BY <1>1
    <3>2. U[K] = K
      BY <1>1, <1>8, <3>1
    <3> QED
      BY <1>1, <3>2
  <2>2. ASSUME NEW j \in Nat, j \in T PROVE j + 1 \in T
    <3> SUFFICES ASSUME j + 1 <= K PROVE U[K - (j + 1)] = K
      OBVIOUS
    <3>1. PICK i \in Nat : i = K - (j + 1) /\ i + 1 = K - j
      BY <1>1
    <3>2. at(i + 1) <= date /\ U[i + 1] = K
      BY <1>1, <2>2, <3>1
    <3> QED
      BY <1>8, <3>1, <3>2
  <2> HIDE DEF T
  <2> QED
    BY <2>1, <2>2, NatSet
<1>11. PICK i \in Nat : i = Least(e, K) /\ i <= K
  BY <1>1 DEF Least
<1>12. D[e] = i
  BY <1>9, <1>11
<1>13. U[i] = K
  <2>1. K - i \in Nat /\ K - (K - i) = i /\ K - i <= K
    BY <1>1, <1>11
  <2> QED
    BY <1>10, <2>1
<1> QED
  BY <1>12, <1>13 DEF Corrected, D, U

\* A budget starts on a day.
Anchored(anchor) == IsDay(anchor.startDate) /\ YearOf(anchor.startDate) >= 1

LEMMA OnIsDay ==
    ASSUME NEW n \in Nat, n >= 12, NEW d \in 1 .. MonthSize(n)
    PROVE  IsDay(On(n, d)) /\ YearOf(On(n, d)) >= 1
<1>1. d \in 1 .. 31
  BY SizeBounds
<1>2. PICK date : date = On(n, d)
  OBVIOUS
<1>3. date \in Nat /\ YearOf(date) = n \div 12 /\ MonthOf(date) = (n % 12) + 1 /\ DayOf(date) = d
  BY <1>1, <1>2, OnParts, Zenon
<1>4. daysInMonth(YearOf(date), MonthOf(date)) = MonthSize(n)
  BY <1>3, Zenon DEF MonthSize
<1>5. MonthOf(date) \in 1 .. 12 /\ YearOf(date) >= 1
  BY <1>3
<1> QED
  BY <1>2, <1>3, <1>4, <1>5 DEF IsDay

\* Months later is later.
LEMMA MonthsRise ==
    ASSUME NEW start, IsDay(start), YearOf(start) >= 1, NEW a \in Nat, NEW b \in Nat, a < b
    PROVE  /\ IsDay(addMonths(start, a)) /\ YearOf(addMonths(start, a)) >= 1
           /\ addMonths(start, a) < addMonths(start, b)
<1>1. PICK n \in Nat : n = MonthNumber(start)
  BY DayIsOn
<1>2. PICK d \in 1 .. 31 : start = On(n, d) /\ d <= MonthSize(n)
  BY <1>1, DayIsOn
<1>3. n >= 12
  <2>1. n \div 12 >= 1
    BY <1>1, DayIsOn
  <2> QED
    BY <2>1
<1>4. n + a \in Nat /\ n + b \in Nat /\ n + a < n + b /\ n + a >= 12 /\ a \in Int /\ b \in Int
  BY <1>3
<1>5. PICK e \in 1 .. 31 : addMonths(start, a) = On(n + a, e) /\ e \in 1 .. MonthSize(n + a)
  BY <1>2, <1>4, MonthsMoved, Zenon
<1>6. PICK f \in 1 .. 31 : addMonths(start, b) = On(n + b, f)
  BY <1>2, <1>4, MonthsMoved, Zenon
<1>7. IsDay(On(n + a, e)) /\ YearOf(On(n + a, e)) >= 1
  BY <1>4, <1>5, OnIsDay
<1>8. On(n + a, e) < On(n + b, f)
  BY <1>4, OnEarlier, Zenon
<1> QED
  BY <1>5, <1>6, <1>7, <1>8

\* Windows by a number of months follow each other.
LEMMA MonthlyStarts ==
    ASSUME NEW start, IsDay(start), YearOf(start) >= 1, NEW step \in {1, 12}, NEW j \in Nat
    PROVE  /\ IsDay(addMonths(start, j * step)) /\ YearOf(addMonths(start, j * step)) >= 1
           /\ addMonths(start, 0) = start
           /\ addMonths(start, j * step) < addMonths(start, (j + 1) * step)
<1>1. PICK a \in Nat, b \in Nat : a = j * step /\ b = (j + 1) * step /\ a < b
  BY SMT
<1>2. /\ IsDay(addMonths(start, a)) /\ YearOf(addMonths(start, a)) >= 1
      /\ addMonths(start, a) < addMonths(start, b)
  BY <1>1, MonthsRise
<1>3. addMonths(start, 0) = start
  <2>1. PICK n \in Nat : n = MonthNumber(start)
    BY DayIsOn
  <2>2. PICK d \in 1 .. 31 : start = On(n, d) /\ d <= MonthSize(n)
    BY <2>1, DayIsOn
  <2>3. PICK z \in Int : z = 0 /\ n + z = n
    OBVIOUS
  <2>4. n + z \in Nat
    BY <2>3
  <2>5. addMonths(On(n, d), z) = On(n + z, Least(d, MonthSize(n + z)))
    BY <2>4, MonthsMoved, Zenon
  <2>6. addMonths(On(n, d), 0) = On(n, Least(d, MonthSize(n)))
    BY <2>3, <2>5
  <2>7. Least(d, MonthSize(n)) = d
    BY <2>2 DEF Least
  <2> QED
    BY <2>2, <2>6, <2>7
<1> QED
  BY <1>1, <1>2, <1>3

LEMMA WindowStarts ==
    ASSUME NEW anchor, Anchored(anchor)
    PROVE  /\ windowStart(anchor, 0) = anchor.startDate
           /\ \A j \in Nat : /\ IsDay(windowStart(anchor, j)) /\ YearOf(windowStart(anchor, j)) >= 1
                             /\ windowStart(anchor, j) < windowStart(anchor, j + 1)
<1> DEFINE start == anchor.startDate
<1>0. IsDay(start) /\ YearOf(start) >= 1
  BY DEF Anchored
<1> HIDE DEF start
<1>1. CASE anchor.period = "weekly"
  <2>1. \A j \in Int : windowStart(anchor, j) = addDays(start, j * 7)
    BY <1>1 DEF windowStart, start
  <2>2. windowStart(anchor, 0) = start
    <3>1. 0 * 7 = 0 /\ 0 \in Int
      OBVIOUS
    <3>2. windowStart(anchor, 0) = addDays(start, 0)
      BY <2>1, <3>1
    <3>3. UTCDay(start) + 0 = UTCDay(start)
      BY <1>0, CountedFromOne
    <3> QED
      BY <1>0, <3>2, <3>3, DayAgain DEF addDays
  <2>3. ASSUME NEW j \in Nat
        PROVE  /\ IsDay(windowStart(anchor, j)) /\ YearOf(windowStart(anchor, j)) >= 1
               /\ windowStart(anchor, j) < windowStart(anchor, j + 1)
    <3>1. PICK a \in Nat, b \in Nat : a = j * 7 /\ b = (j + 1) * 7 /\ a < b
      BY SMT
    <3>2. windowStart(anchor, j) = addDays(start, a) /\ windowStart(anchor, j + 1) = addDays(start, b)
      BY <2>1, <3>1
    <3>3. /\ IsDay(addDays(start, a)) /\ YearOf(addDays(start, a)) >= 1 /\ IsDay(addDays(start, b))
          /\ UTCDay(addDays(start, a)) = UTCDay(start) + a /\ UTCDay(addDays(start, b)) = UTCDay(start) + b
      BY <1>0, DaysAdded
    <3>4. UTCDay(start) \in Nat
      BY <1>0, CountedFromOne
    <3>5. UTCDay(addDays(start, a)) < UTCDay(addDays(start, b))
      BY <3>1, <3>3, <3>4
    <3> QED
      BY <3>2, <3>3, <3>5, DayOrder
  <2> QED
    BY <2>2, <2>3 DEF start
<1>2. CASE anchor.period # "weekly"
  <2>1. PICK step \in {1, 12} : step = IF anchor.period = "monthly" THEN 1 ELSE 12
    OBVIOUS
  <2>2. \A j \in Int : windowStart(anchor, j) = addMonths(start, j * step)
    BY <1>2, <2>1 DEF windowStart, start
  <2>3. windowStart(anchor, 0) = start
    <3>1. 0 * step = 0 /\ 0 \in Int /\ 0 \in Nat
      OBVIOUS
    <3>2. windowStart(anchor, 0) = addMonths(start, 0)
      BY <2>2, <3>1
    <3> QED
      BY <1>0, <3>1, <3>2, MonthlyStarts
  <2>4. ASSUME NEW j \in Nat
        PROVE  /\ IsDay(windowStart(anchor, j)) /\ YearOf(windowStart(anchor, j)) >= 1
               /\ windowStart(anchor, j) < windowStart(anchor, j + 1)
    <3>1. windowStart(anchor, j) = addMonths(start, j * step)
          /\ windowStart(anchor, j + 1) = addMonths(start, (j + 1) * step)
      BY <2>2
    <3> QED
      BY <1>0, <3>1, MonthlyStarts
  <2> QED
    BY <2>3, <2>4 DEF start
<1> QED
  BY <1>1, <1>2

LEMMA EstimateIsNat ==
    ASSUME NEW anchor, Anchored(anchor), NEW date, IsDay(date), date >= anchor.startDate
    PROVE  estimateIndex(anchor, date) \in Nat
<1> DEFINE start == anchor.startDate
           months == (YearOf(date) - YearOf(start)) * 12 + (MonthOf(date) - MonthOf(start))
<1>1. PICK m \in Nat : m = months
  <2>0. IsDay(start)
    BY DEF Anchored
  <2>1. PICK y \in Nat, k \in 1 .. 12 : y = YearOf(start) /\ k = MonthOf(start)
    BY <2>0, DayParts
  <2>2. PICK z \in Nat, l \in 1 .. 12 : z = YearOf(date) /\ l = MonthOf(date)
    BY DayParts
  <2>3. MonthNumber(start) <= MonthNumber(date)
    BY <2>0, MonthOrder
  <2>4. (z - y) * 12 + (l - k) \in Nat
    BY <2>1, <2>2, <2>3 DEF MonthNumber
  <2> QED
    BY <2>1, <2>2, <2>4
<1>2. PICK w \in Nat : w = daysBetween(start, date)
  <2>1. IsDay(start)
    BY DEF Anchored
  <2>2. /\ date \in Nat /\ start \in Nat /\ UTCDay(date) \in Int /\ UTCDay(start) \in Int
        /\ ~(date < start) /\ (date < start <=> UTCDay(date) < UTCDay(start))
    BY <2>1, DayOrder
  <2>3. UTCDay(date) - UTCDay(start) \in Nat
    BY <2>2
  <2> QED
    BY <2>3 DEF daysBetween
<1>3. w \div 7 \in Nat /\ m \div 12 \in Nat
  OBVIOUS
<1>4. estimateIndex(anchor, date) \in {w \div 7, m, m \div 12}
  <2> HIDE DEF start, months
  <2>1. CASE anchor.period = "weekly"
    <3>1. estimateIndex(anchor, date) = daysBetween(start, date) \div 7
      BY <2>1, Zenon DEF estimateIndex, start
    <3> QED
      BY <1>2, <3>1
  <2>2. CASE anchor.period = "monthly"
    <3>1. estimateIndex(anchor, date) = months
      BY <2>2, Zenon DEF estimateIndex, start, months
    <3> QED
      BY <1>1, <3>1
  <2>3. CASE anchor.period # "weekly" /\ anchor.period # "monthly"
    <3>1. estimateIndex(anchor, date) = months \div 12
      BY <2>3, Zenon DEF estimateIndex, start, months
    <3> QED
      BY <1>1, <3>1
  <2> QED
    BY <2>1, <2>2, <2>3
<1> QED
  BY <1>3, <1>4

LEMMA WindowFound ==
    ASSUME NEW anchor, Anchored(anchor), NEW date, IsDay(date), date >= anchor.startDate
    PROVE  \E K \in Nat : IsIndex(Starts(anchor), date, K) /\ windowFor(anchor, date) = windowByIndex(anchor, K)
<1>1. Growing(Starts(anchor)) /\ (\A j \in Nat : windowStart(anchor, j) \in Nat)
      /\ Starts(anchor)[0] = anchor.startDate
  BY WindowStarts DEF Growing, Starts, IsDay
<1>2. date \in Nat /\ anchor.startDate \in Nat
  BY DEF IsDay, Anchored
<1>3. PICK K \in Nat : IsIndex(Starts(anchor), date, K)
  BY <1>1, <1>2, IndexExists
<1>4. Corrected(anchor, date, estimateIndex(anchor, date)) = K
  BY <1>1, <1>2, <1>3, EstimateIsNat, LoopsFind
<1>5. ~(date < anchor.startDate)
  BY <1>2
<1> QED
  BY <1>3, <1>4, <1>5, Zenon DEF windowFor

LEMMA SpentType ==
    ASSUME NEW budget, NEW window, NEW txns, IsBook(txns), NEW covered
    PROVE  spendDetail(budget, window, txns, covered).total \in Int
<1> DEFINE X == {t \in txns : countsTowards(t, covered) /\ within(t.date, window)}
<1>1. X \in SUBSET txns /\ Convertible(X, budget.currency) \in SUBSET Convertible(txns, budget.currency)
  BY DEF Convertible
<1>2. spendDetail(budget, window, txns, covered).total
        = SumFunctionOnSet(Worths(txns, budget.currency), Convertible(X, budget.currency))
  BY <1>1, SumShown DEF spendDetail
<1>3. Summable(Worths(txns, budget.currency), Convertible(X, budget.currency))
  BY <1>1, WorthType
<1> QED
  BY <1>2, <1>3, SumRemove

\* What is carried into the next window: what is carried into this one, and what this one leaves.
LEMMA CarriedOn ==
    ASSUME NEW budget, budget.amount \in Int, NEW txns, IsBook(txns), NEW covered,
           NEW K \in Nat, budget.rollover
    PROVE  carriedInto(budget, K + 1, txns, covered)
            = (budget.amount + carriedInto(budget, K, txns, covered))
                - spendDetail(budget, windowByIndex(budget, K), txns, covered).total
<1> DEFINE Left(p) == budget.amount - spendDetail(budget, windowByIndex(budget, p), txns, covered).total
           f == [p \in 0 .. K |-> Left(p)]
           g == [p \in 0 .. K - 1 |-> Left(p)]
<1>1. \A p : Left(p) \in Int
  BY SpentType
<1>2. IsFiniteSet(0 .. K) /\ IsFiniteSet(0 .. K - 1)
  <2>1. PICK a \in Int, b \in Int, c \in Int : a = 0 /\ b = K /\ c = K - 1
    OBVIOUS
  <2> QED
    BY <2>1, FS_Interval
<1>3. /\ 0 .. K = (0 .. K - 1) \cup {K} /\ K \notin 0 .. K - 1 /\ (K + 1) - 1 = K /\ ~(K + 1 <= 0)
  OBVIOUS
<1>4. DOMAIN f = 0 .. K /\ DOMAIN g = 0 .. K - 1
  OBVIOUS
<1>5. f[K] = Left(K) /\ \A p \in 0 .. K - 1 : g[p] = f[p]
  OBVIOUS
<1>6. \A p \in 0 .. K : f[p] \in Int
  BY <1>1
<1>7. Summable(f, 0 .. K) /\ Summable(f, 0 .. K - 1)
  BY <1>2, <1>3, <1>6 DEF Summable
<1>8. carriedInto(budget, K + 1, txns, covered) = SumFunctionOnSet(f, 0 .. K)
  <2>1. carriedInto(budget, K + 1, txns, covered) = SumFunction(f)
    BY <1>3 DEF carriedInto
  <2> HIDE DEF f
  <2> QED
    BY <1>4, <2>1, Zenon DEF SumFunction
<1>9. carriedInto(budget, K, txns, covered) = SumFunctionOnSet(f, 0 .. K - 1)
  <2>1. CASE K = 0
    <3>1. carriedInto(budget, K, txns, covered) = 0
      BY <2>1 DEF carriedInto
    <3>2. 0 .. K - 1 = {}
      BY <2>1
    <3> HIDE DEF f
    <3> QED
      BY <1>7, <3>1, <3>2, SumRemove
  <2>2. CASE K # 0
    <3>1. carriedInto(budget, K, txns, covered) = SumFunction(g)
      BY <2>2 DEF carriedInto
    <3> HIDE DEF f, g
    <3>2. SumFunction(g) = SumFunctionOnSet(g, 0 .. K - 1)
      BY <1>4, Zenon DEF SumFunction
    <3> QED
      BY <1>5, <1>7, <3>1, <3>2, SumAgree
  <2> QED
    BY <2>1, <2>2
<1> HIDE DEF f, g
<1>10. /\ SumFunctionOnSet(f, 0 .. K) = f[K] + SumFunctionOnSet(f, 0 .. K - 1)
       /\ SumFunctionOnSet(f, 0 .. K - 1) \in Int
  <2>1. PICK A : A = 0 .. K - 1
    OBVIOUS
  <2>2. Summable(f, A \cup {K}) /\ K \notin A
    BY <1>3, <1>7, <2>1
  <2> QED
    BY <1>3, <2>1, <2>2, SumAdd
<1>11. spendDetail(budget, windowByIndex(budget, K), txns, covered).total \in Int
  BY SpentType
<1> QED
  BY <1>5, <1>8, <1>9, <1>10, <1>11

(***************************************************************************)
(* Any budget, any finite ledger, any day from its start on: the windows   *)
(* follow each other day by day, and rollover brings in what was left.     *)
(***************************************************************************)
THEOREM WindowsFollow ==
    ASSUME NEW budget, Anchored(budget), budget.amount \in Int, budget.rollover \in BOOLEAN,
           NEW txns, IsBook(txns), NEW covered,
           NEW date, IsDay(date), YearOf(date) >= 1, date >= budget.startDate
    PROVE  WindowTiles(budget, txns, covered, date, addDays(date, 1))
<1> DEFINE tomorrow == addDays(date, 1)
           now == progressFor(budget, txns, date, covered)
           then == progressFor(budget, txns, tomorrow, covered)
           at(j) == windowStart(budget, j)
<1>1. IsDay(tomorrow) /\ YearOf(tomorrow) >= 1 /\ UTCDay(tomorrow) = UTCDay(date) + 1
  BY NextIsDay
<1> HIDE DEF tomorrow
<1>2. /\ date \in Nat /\ tomorrow \in Nat /\ budget.startDate \in Nat
      /\ UTCDay(date) \in Int /\ date < tomorrow
  BY <1>1, DayOrder DEF Anchored, IsDay
<1>3. tomorrow >= budget.startDate
  BY <1>2
<1>4. PICK K \in Nat : IsIndex(Starts(budget), date, K) /\ windowFor(budget, date) = windowByIndex(budget, K)
  BY WindowFound
<1>5. PICK L \in Nat : IsIndex(Starts(budget), tomorrow, L) /\ windowFor(budget, tomorrow) = windowByIndex(budget, L)
  BY <1>1, <1>3, WindowFound
<1>6. /\ \A j \in Nat : at(j) <= date <=> j <= K
      /\ \A j \in Nat : at(j) <= tomorrow <=> j <= L
  BY <1>4, <1>5 DEF IsIndex, Starts
<1>7. \A j \in Nat : IsDay(at(j)) /\ YearOf(at(j)) >= 1 /\ at(j) < at(j + 1) /\ at(j) \in Nat
  BY WindowStarts DEF IsDay
<1>8. /\ now.window = windowByIndex(budget, K)
      /\ now.carried = carriedInto(budget, windowByIndex(budget, K).index, txns, covered)
      /\ now.remaining = (budget.amount + now.carried)
                            - spendDetail(budget, windowByIndex(budget, K), txns, covered).total
  <2>1. now.window = windowFor(budget, date)
    BY DEF progressFor
  <2>2. now.carried = carriedInto(budget, windowFor(budget, date).index, txns, covered)
    BY DEF progressFor
  <2>3. now.remaining = (budget.amount + carriedInto(budget, windowFor(budget, date).index, txns, covered))
                            - spendDetail(budget, windowFor(budget, date), txns, covered).total
    BY DEF progressFor
  <2> HIDE DEF now
  <2> QED
    BY <1>4, <2>1, <2>2, <2>3, Zenon
<1>9. /\ then.window = windowByIndex(budget, L)
      /\ then.carried = carriedInto(budget, windowByIndex(budget, L).index, txns, covered)
  BY <1>5, Zenon DEF progressFor
<1>10. \A j : windowByIndex(budget, j) =
                [from |-> at(j), to |-> addDays(at(j + 1), -1), index |-> j]
  BY DEF windowByIndex
<1> HIDE DEF now, then, at
<1>11. now.window.index = K /\ now.window.to = addDays(at(K + 1), -1)
  BY <1>8, <1>10
<1>12. then.window.index = L /\ then.window.from = at(L)
  BY <1>9, <1>10
<1>13. CASE L = K
  <2>1. then.window.index = now.window.index /\ then.window = now.window
    BY <1>8, <1>9, <1>11, <1>12, <1>13, Zenon
  <2> QED
    BY <2>1, Zenon DEF WindowTiles, now, then, tomorrow
<1>14. CASE L # K
  <2>1. K <= L
    <3>1. at(K) <= date /\ at(K) \in Nat
      BY <1>6, <1>7
    <3> QED
      BY <1>2, <1>6, <3>1
  <2>2. PICK p \in Nat : p = K + 1 /\ p <= L
    BY <1>14, <2>1
  <2>3. at(p) = tomorrow
    <3>1. at(p) > date /\ at(p) <= tomorrow /\ IsDay(at(p)) /\ at(p) \in Nat
      BY <1>2, <1>6, <1>7, <2>2
    <3>2. UTCDay(date) < UTCDay(at(p)) /\ UTCDay(at(p)) \in Int
      BY <1>2, <3>1, DayOrder
    <3>3. at(p) < tomorrow => UTCDay(at(p)) < UTCDay(tomorrow)
      BY <1>1, <3>1, DayOrder
    <3> QED
      BY <1>1, <1>2, <3>1, <3>2, <3>3
  <2>4. L = p
    <3>1. p + 1 \in Nat /\ at(p) < at(p + 1) /\ at(p + 1) \in Nat
      BY <1>7
    <3>2. ~(at(p + 1) <= tomorrow)
      BY <1>2, <2>3, <3>1
    <3>3. ~(p + 1 <= L)
      BY <1>6, <3>1, <3>2
    <3> QED
      BY <2>2, <3>3
  <2>5. now.window.to = date
    <3>1. UTCDay(tomorrow) + (-1) = UTCDay(date)
      BY <1>1, <1>2
    <3>2. addDays(tomorrow, -1) = date
      BY <3>1, DayAgain DEF addDays
    <3> QED
      BY <1>11, <2>2, <2>3, <3>2
  <2>6. then.carried = IF budget.rollover THEN now.remaining ELSE 0
    <3>1. windowByIndex(budget, K).index = K /\ windowByIndex(budget, L).index = K + 1
      BY <1>10, <2>2, <2>4
    <3>2. CASE budget.rollover
      BY <1>8, <1>9, <3>1, <3>2, CarriedOn
    <3>3. CASE ~budget.rollover
      BY <1>9, <3>1, <3>3 DEF carriedInto
    <3> QED
      BY <3>2, <3>3
  <2>7. /\ then.window.index # now.window.index /\ then.window.index = now.window.index + 1
        /\ then.window.from = tomorrow
    BY <1>11, <1>12, <1>14, <2>2, <2>3, <2>4
  <2> QED
    BY <2>5, <2>6, <2>7, Zenon DEF WindowTiles, now, then, tomorrow
<1> QED
  BY <1>13, <1>14

\* The days that budgets and rules start on in the run.
LEMMA StartDays ==
    \A date \in {20230228, 20231231, 20240130, 20240229} : IsDay(date) /\ YearOf(date) >= 1
<1>1. Leap(2024)
  BY SMT DEF Leap
<1>2. /\ daysInMonth(2023, 2) \in 28 .. 31 /\ daysInMonth(2023, 12) = 31
      /\ daysInMonth(2024, 1) = 31 /\ daysInMonth(2024, 2) = 29
  <2>1. daysInMonth(2023, 2) \in {28, 29, 30, 31}
    BY MonthLength
  <2>2. daysInMonth(2023, 12) = 31 /\ daysInMonth(2024, 1) = 31 /\ daysInMonth(2024, 2) = 29
    BY <1>1 DEF daysInMonth
  <2> QED
    BY <2>1, <2>2, SMT
<1> QED
  BY <1>2, SMT DEF IsDay, YearOf, MonthOf, DayOf

\* The case does not change.
LEMMA AlwaysBudget == Spec => [](case.is = "budget" => case \in Budgets)
<1> DEFINE J == case.is = "budget" => case \in Budgets
<1>1. Init => J
  BY Apart
<1>2. J /\ [NextDay]_vars => J'
  BY DEF NextDay, vars
<1> QED
  BY <1>1, <1>2, PTL DEF Spec

(***************************************************************************)
(* The run's action property, from the theorem above.                      *)
(***************************************************************************)
THEOREM BudgetsFollow == Spec => WindowsTile
<1> DEFINE I == IsDay(today) /\ YearOf(today) >= 1
           J == case.is = "budget" => case \in Budgets
           A == case.is = "budget" /\ today >= case.startDate =>
                    WindowTiles(case, Spent, Covered, today, today')
<1>1. I /\ J /\ [NextDay]_vars => [A]_vars
  <2> SUFFICES ASSUME I, case \in Budgets, NextDay, today >= case.startDate
               PROVE  WindowTiles(case, Spent, Covered, today, today')
    OBVIOUS
  <2>1. today' = addDays(today, 1)
    BY DEF NextDay
  <2>2. /\ case.amount \in Int /\ case.rollover \in BOOLEAN
        /\ case.startDate \in {20230228, 20231231, 20240130, 20240229}
    BY SMT DEF Budgets
  <2>3. Anchored(case)
    BY <2>2, StartDays, SMT DEF Anchored
  <2> QED
    BY <2>1, <2>2, <2>3, SpentIsBook, WindowsFollow
<1> QED
  BY <1>1, AlwaysDay, AlwaysBudget, PTL DEF Spec, WindowsTile

----------------------------------------------------------------------------
\* The loop of a run over the occurrences of a rule.

Rising(schedule) ==
    \A i \in Nat : /\ occurrenceAt(schedule, i) \in Nat \ {0}
                   /\ occurrenceAt(schedule, i) < occurrenceAt(schedule, i + 1)

\* One round: what is due from an index on, given what is due from the next one on.
Round(schedule, asOf, after, i, rest) ==
    LET date == occurrenceAt(schedule, i) IN
    IF date > asOf \/ ~withinLimits(schedule, i, date) THEN <<>>
    ELSE IF Passed(date, after) \/ date \in schedule.skipped THEN rest
    ELSE <<date>> \o rest

LEMMA RoundType ==
    ASSUME NEW schedule, Rising(schedule), NEW asOf, NEW after, NEW i \in Nat, NEW s \in Seq(Nat)
    PROVE  Round(schedule, asOf, after, i, s) \in Seq(Nat)
<1>1. occurrenceAt(schedule, i) \in Nat
  BY DEF Rising
<1>2. PICK x \in Nat : x = occurrenceAt(schedule, i)
  BY <1>1
<1>3. <<x>> \o s \in Seq(Nat) /\ <<>> \in Seq(Nat)
  OBVIOUS
<1> QED
  BY <1>2, <1>3 DEF Round

LEMMA DueUnfold ==
    ASSUME NEW schedule, Rising(schedule), NEW asOf, NEW after
    PROVE  LET F == DueFrom(schedule, asOf, after) IN
           /\ F[MAX_SCAN] = <<>>
           /\ \A i \in 0 .. MAX_SCAN : i < MAX_SCAN =>
                F[i] = Round(schedule, asOf, after, i, F[i + 1])
<1> DEFINE N == MAX_SCAN
           R(i, s) == Round(schedule, asOf, after, i, s)
           States == Seq(Nat)
           step == [k \in 1 .. N |-> [s \in States |-> R(N - k, s)]]
<1>1. N \in Nat
  BY ScheduleAssumption
<1>2. ASSUME NEW k \in 1 .. N, NEW s \in States PROVE R(N - k, s) \in States
  <2>1. N - k \in Nat
    BY <1>1
  <2> HIDE DEF R
  <2> QED
    BY <2>1, RoundType DEF R
<1>3. <<>> \in States
  OBVIOUS
<1> HIDE DEF R, N, States
<1>4. IsLoop(step, N, States, <<>>)
  BY <1>1, <1>2, <1>3 DEF IsLoop
<1>5. PICK f : f \in [0 .. N -> States] /\ f[0] = <<>> /\ \A k \in 1 .. N : f[k] = step[k][f[k - 1]]
  <2> HIDE DEF step
  <2>1. PICK f \in Runs(step, N, States, <<>>) : TRUE
    BY <1>4, Iteration
  <2> QED
    BY <2>1 DEF Runs
<1>6. \A k \in 1 .. N : f[k] = R(N - k, f[k - 1])
  <2> SUFFICES ASSUME NEW k \in 1 .. N PROVE f[k] = R(N - k, f[k - 1])
    OBVIOUS
  <2>1. f[k - 1] \in States
    BY <1>1, <1>5
  <2> QED
    BY <1>5, <2>1
<1> DEFINE g == [i \in 0 .. N |-> f[N - i]]
<1>7. g = [i \in 0 .. N |-> IF i = N THEN <<>> ELSE R(i, g[i + 1])]
  <2> SUFFICES ASSUME NEW i \in 0 .. N PROVE g[i] = IF i = N THEN <<>> ELSE R(i, g[i + 1])
    OBVIOUS
  <2>1. CASE i = N
    BY <1>1, <1>5, <2>1
  <2>2. CASE i # N
    <3>1. PICK k \in 1 .. N : k = N - i /\ N - k = i /\ k - 1 = N - (i + 1) /\ i + 1 \in 0 .. N
      BY <1>1, <2>2
    <3>2. g[i] = f[k] /\ g[i + 1] = f[k - 1]
      BY <3>1
    <3>3. f[k] = R(i, f[k - 1])
      BY <1>6, <3>1
    <3> QED
      BY <2>2, <3>2, <3>3
  <2> QED
    BY <2>1, <2>2
<1> HIDE DEF g
<1> DEFINE F == DueFrom(schedule, asOf, after)
           Is(h) == h = [i \in 0 .. N |->
                            IF i = N \/ occurrenceAt(schedule, i) > asOf
                                  \/ ~withinLimits(schedule, i, occurrenceAt(schedule, i))
                            THEN <<>>
                            ELSE IF Passed(occurrenceAt(schedule, i), after)
                                      \/ occurrenceAt(schedule, i) \in schedule.skipped
                            THEN h[i + 1]
                            ELSE <<occurrenceAt(schedule, i)>> \o h[i + 1]]
<1>8. ASSUME NEW h PROVE h = [i \in 0 .. N |-> IF i = N THEN <<>> ELSE R(i, h[i + 1])] <=> Is(h)
  BY DEF R, Round
<1>9. Is(g)
  BY <1>7, <1>8
<1>10. Is(F)
  BY <1>9, Zenon DEF DueFrom, N
<1>11. F = [i \in 0 .. N |-> IF i = N THEN <<>> ELSE R(i, F[i + 1])]
  BY <1>8, <1>10
<1> HIDE DEF F, Is
<1>12. F[N] = <<>> /\ \A i \in 0 .. N : i < N => F[i] = R(i, F[i + 1])
  <2>1. N \in 0 .. N /\ \A i \in 0 .. N : i < N => i # N
    BY <1>1
  <2> QED
    BY <1>11, <2>1, Zenon
<1> QED
  BY <1>12 DEF F, N, R

\* Two runs over one rule, the second one resumed: what they have found from an index on.
SuffixFrom(at, a, d, e) ==
    /\ d \in Seq(Nat) /\ e \in Seq(Nat)
    /\ \A p \in 1 .. Len(d) : d[p] >= at
    /\ at > a => e = d
    /\ \A p \in 1 .. Len(d) : d[p] = a =>
            Len(e) = Len(d) - p /\ \A q \in 1 .. Len(d) - p : e[q] = d[p + q]

LEMMA RoundKeeps ==
    ASSUME NEW schedule, Rising(schedule), NEW asOf, NEW a \in Nat \ {0}, NEW i \in Nat,
           NEW d, NEW e, SuffixFrom(occurrenceAt(schedule, i + 1), a, d, e)
    PROVE  SuffixFrom(occurrenceAt(schedule, i), a, Round(schedule, asOf, NoDate, i, d),
                                               Round(schedule, asOf, a, i, e))
<1>1. PICK x \in Nat, y \in Nat : x = occurrenceAt(schedule, i) /\ y = occurrenceAt(schedule, i + 1) /\ x < y
  BY DEF Rising
<1>2. /\ d \in Seq(Nat) /\ e \in Seq(Nat)
      /\ \A p \in 1 .. Len(d) : d[p] >= y
      /\ y > a => e = d
      /\ \A p \in 1 .. Len(d) : d[p] = a => Len(e) = Len(d) - p /\ \A q \in 1 .. Len(d) - p : e[q] = d[p + q]
  BY <1>1 DEF SuffixFrom
<1>3. Len(d) \in Nat /\ \A p \in 1 .. Len(d) : d[p] \in Nat
  BY <1>2
<1> DEFINE D == Round(schedule, asOf, NoDate, i, d)
           E == Round(schedule, asOf, a, i, e)
           stop == x > asOf \/ ~withinLimits(schedule, i, x)
<1>4. ~Passed(x, NoDate) /\ (Passed(x, a) <=> x <= a)
  BY DEF Passed, NoDate
<1>5. CASE stop
  <2>1. D = <<>> /\ E = <<>>
    BY <1>1, <1>5 DEF Round
  <2> HIDE DEF D, E
  <2>2. SuffixFrom(x, a, D, E)
    BY <2>1 DEF SuffixFrom
  <2> QED
    BY <1>1, <2>2 DEF D, E
<1>6. CASE ~stop /\ x \in schedule.skipped
  <2>1. D = d /\ E = e
    BY <1>1, <1>6, <1>4 DEF Round
  <2>2. x > a => e = d
    BY <1>1, <1>2
  <2>3. \A p \in 1 .. Len(d) : d[p] >= x
    BY <1>1, <1>2, <1>3
  <2>4. SuffixFrom(x, a, d, e)
    BY <1>2, <2>2, <2>3 DEF SuffixFrom
  <2> QED
    BY <1>1, <2>1, <2>4
<1>7. CASE ~stop /\ x \notin schedule.skipped
  <2>1. D = <<x>> \o d
    BY <1>1, <1>7, <1>4 DEF Round
  <2>2. E = IF x <= a THEN e ELSE <<x>> \o e
    BY <1>1, <1>7, <1>4 DEF Round
  <2> HIDE DEF D, E
  <2>3. /\ D \in Seq(Nat) /\ Len(D) = Len(d) + 1 /\ D[1] = x
        /\ \A p \in 1 .. Len(d) : D[p + 1] = d[p]
    BY <1>2, <2>1
  <2>4. ASSUME NEW p \in 1 .. Len(D), p # 1
        PROVE  \E r \in 1 .. Len(d) : r = p - 1 /\ D[p] = d[r]
    <3>1. PICK r \in 1 .. Len(d) : r = p - 1 /\ r + 1 = p
      BY <1>3, <2>3, <2>4
    <3>2. D[r + 1] = d[r]
      BY <2>3
    <3> QED
      BY <3>1, <3>2
  <2>5. ASSUME NEW p \in 1 .. Len(D) PROVE D[p] >= x
    <3>1. CASE p = 1
      BY <1>1, <2>3, <3>1
    <3>2. CASE p # 1
      <4>1. PICK r \in 1 .. Len(d) : D[p] = d[r]
        BY <2>4, <3>2
      <4>2. PICK z \in Nat : z = d[r] /\ z >= y
        BY <1>2, <1>3
      <4> QED
        BY <1>1, <4>1, <4>2
    <3> QED
      BY <3>1, <3>2
  <2>6. x > a => E = D
    BY <1>1, <1>2, <2>1, <2>2
  <2>7. E \in Seq(Nat)
    BY <1>2, <2>2
  <2>8. ASSUME NEW p \in 1 .. Len(D), D[p] = a
        PROVE  Len(E) = Len(D) - p /\ \A q \in 1 .. Len(D) - p : E[q] = D[p + q]
    <3>1. CASE p = 1
      <4>1. x = a /\ E = d
        BY <1>1, <1>2, <2>2, <2>3, <2>8, <3>1
      <4>2. \A q \in 1 .. Len(d) : D[1 + q] = d[q]
        BY <2>3
      <4> QED
        BY <1>3, <2>3, <3>1, <4>1, <4>2
    <3>2. CASE p # 1
      <4>1. PICK r \in 1 .. Len(d) : r = p - 1 /\ d[r] = a
        BY <2>4, <2>8, <3>2
      <4>2. x <= a
        <5>1. a >= y
          BY <1>2, <4>1
        <5> QED
          BY <1>1, <5>1
      <4>3. E = e
        BY <2>2, <4>2
      <4>4. Len(e) = Len(d) - r /\ \A q \in 1 .. Len(d) - r : e[q] = d[r + q]
        BY <1>2, <4>1
      <4>5. Len(d) - r = Len(D) - p
        BY <1>3, <2>3, <4>1
      <4>6. ASSUME NEW q \in 1 .. Len(d) - r PROVE d[r + q] = D[p + q]
        <5>1. r + q \in 1 .. Len(d) /\ (r + q) + 1 = p + q
          BY <1>3, <4>1
        <5> QED
          BY <2>3, <5>1
      <4> QED
        BY <4>3, <4>4, <4>5, <4>6
    <3> QED
      BY <3>1, <3>2
  <2>9. SuffixFrom(x, a, D, E)
    BY <2>3, <2>5, <2>6, <2>7, <2>8 DEF SuffixFrom
  <2> QED
    BY <1>1, <2>9 DEF D, E
<1> QED
  BY <1>5, <1>6, <1>7

LEMMA RestIsSuffix ==
    ASSUME NEW schedule, Rising(schedule), NEW asOf, NEW a \in Nat \ {0}
    PROVE  SuffixFrom(occurrenceAt(schedule, 0), a, DueFrom(schedule, asOf, NoDate)[0],
                                               DueFrom(schedule, asOf, a)[0])
<1> DEFINE N == MAX_SCAN
           D == DueFrom(schedule, asOf, NoDate)
           E == DueFrom(schedule, asOf, a)
           Good(i) == SuffixFrom(occurrenceAt(schedule, i), a, D[i], E[i])
           S == {j \in Nat : j <= N => Good(N - j)}
<1>1. N \in Nat
  BY ScheduleAssumption
<1>2. D[N] = <<>> /\ \A i \in 0 .. N : i < N => D[i] = Round(schedule, asOf, NoDate, i, D[i + 1])
  BY DueUnfold
<1>3. E[N] = <<>> /\ \A i \in 0 .. N : i < N => E[i] = Round(schedule, asOf, a, i, E[i + 1])
  BY DueUnfold
<1> HIDE DEF N, D, E
<1>4. 0 \in S
  <2>1. SuffixFrom(occurrenceAt(schedule, N), a, <<>>, <<>>)
    BY DEF SuffixFrom
  <2>2. Good(N)
    BY <1>2, <1>3, <2>1
  <2>3. N - 0 = N
    BY <1>1
  <2> HIDE DEF Good
  <2> QED
    BY <2>2, <2>3
<1>5. ASSUME NEW j \in Nat, j \in S PROVE j + 1 \in S
  <2> SUFFICES ASSUME j + 1 <= N PROVE Good(N - (j + 1))
    OBVIOUS
  <2>1. PICK i \in Nat : i = N - (j + 1) /\ i + 1 = N - j /\ i < N /\ i \in 0 .. N
    BY <1>1
  <2>2. Good(i + 1)
    <3> HIDE DEF Good
    <3>1. j <= N
      BY <1>1
    <3>2. Good(N - j)
      BY <1>5, <3>1, Zenon DEF S
    <3> QED
      BY <2>1, <3>2, Zenon
  <2>3. Good(i)
    BY <1>2, <1>3, <2>1, <2>2, RoundKeeps
  <2> HIDE DEF Good
  <2> QED
    BY <2>1, <2>3
<1> HIDE DEF Good, S
<1>6. N \in S
  BY <1>1, <1>4, <1>5, NatSet
<1>7. N - N = 0 /\ N <= N
  BY <1>1
<1>8. Good(0)
  BY <1>6, <1>7 DEF S
<1> QED
  BY <1>8 DEF Good, D, E

\* A sequence cut at p and taken up again there.
LEMMA CutAndResumed ==
    ASSUME NEW d \in Seq(Nat), NEW e \in Seq(Nat), NEW p \in 1 .. Len(d),
           Len(e) = Len(d) - p, \A q \in 1 .. Len(d) - p : e[q] = d[p + q],
           NEW k \in 0 .. Len(e)
    PROVE  SubSeq(d, 1, p) \o SubSeq(e, 1, k) = SubSeq(d, 1, p + k)
<1>1. PICK L \in Nat : L = Len(d) /\ p \in 1 .. L /\ k \in 0 .. L - p /\ Len(e) = L - p
  BY LenProperties
<1>2. /\ SubSeq(d, 1, p) \in Seq(Nat) /\ Len(SubSeq(d, 1, p)) = p
      /\ \A j \in 1 .. p : SubSeq(d, 1, p)[j] = d[j]
  <2>1. p \in Int /\ 1 \in Int /\ \A j \in 1 .. p : d[j] \in Nat
    BY <1>1, ElementOfSeq
  <2>2. /\ SubSeq(d, 1, p) \in Seq(Nat)
        /\ Len(SubSeq(d, 1, p)) = IF 1 <= p THEN p - 1 + 1 ELSE 0
        /\ \A j \in 1 .. p - 1 + 1 : SubSeq(d, 1, p)[j] = d[1 + j - 1]
    BY <2>1, SubSeqProperties
  <2> QED
    BY <1>1, <2>2
<1>3. /\ SubSeq(e, 1, k) \in Seq(Nat) /\ Len(SubSeq(e, 1, k)) = k
      /\ \A j \in 1 .. k : SubSeq(e, 1, k)[j] = e[j]
  <2>0. ASSUME NEW j \in 1 .. k PROVE e[j] \in Nat
    <3>1. j \in 1 .. Len(e)
      BY <1>1
    <3> QED
      BY <3>1, ElementOfSeq, Zenon
  <2>1. k \in Int /\ 1 \in Int /\ \A j \in 1 .. k : e[j] \in Nat
    BY <1>1, <2>0
  <2>2. /\ SubSeq(e, 1, k) \in Seq(Nat)
        /\ Len(SubSeq(e, 1, k)) = IF 1 <= k THEN k - 1 + 1 ELSE 0
        /\ \A j \in 1 .. k - 1 + 1 : SubSeq(e, 1, k)[j] = e[1 + j - 1]
    BY <2>1, SubSeqProperties
  <2> QED
    BY <1>1, <2>2
<1>4. PICK n \in Nat : n = p + k /\ n \in 1 .. L
  BY <1>1
<1>5. /\ SubSeq(d, 1, n) \in Seq(Nat) /\ Len(SubSeq(d, 1, n)) = n
      /\ \A j \in 1 .. n : SubSeq(d, 1, n)[j] = d[j]
  <2>1. n \in Int /\ 1 \in Int /\ \A j \in 1 .. n : d[j] \in Nat
    BY <1>1, <1>4, ElementOfSeq
  <2>2. /\ SubSeq(d, 1, n) \in Seq(Nat)
        /\ Len(SubSeq(d, 1, n)) = IF 1 <= n THEN n - 1 + 1 ELSE 0
        /\ \A j \in 1 .. n - 1 + 1 : SubSeq(d, 1, n)[j] = d[1 + j - 1]
    BY <2>1, SubSeqProperties
  <2> QED
    BY <1>4, <2>2
<1> DEFINE u == SubSeq(d, 1, p)
           v == SubSeq(e, 1, k)
           w == SubSeq(d, 1, n)
<1> HIDE DEF u, v, w
<1>6. /\ u \o v \in Seq(Nat) /\ Len(u \o v) = n
      /\ \A j \in 1 .. n : (u \o v)[j] = IF j <= p THEN u[j] ELSE v[j - p]
  BY <1>2, <1>3, <1>4, ConcatProperties DEF u, v
<1>7. ASSUME NEW j \in 1 .. n PROVE (u \o v)[j] = w[j]
  <2>1. CASE j <= p
    <3>1. j \in 1 .. p
      BY <2>1
    <3> QED
      BY <1>2, <1>5, <1>6, <2>1, <3>1 DEF u, w
  <2>2. CASE ~(j <= p)
    <3>1. PICK q \in 1 .. k : q = j - p /\ p + q = j
      BY <1>1, <1>4, <2>2
    <3>2. v[q] = e[q]
      BY <1>3 DEF v
    <3>3. q \in 1 .. Len(d) - p
      BY <1>1
    <3>4. e[q] = d[p + q]
      BY <3>3
    <3> QED
      BY <1>5, <1>6, <2>2, <3>1, <3>2, <3>4 DEF w
  <2> QED
    BY <2>1, <2>2
<1>8. u \o v = w
  <2>1. w \in Seq(Nat) /\ Len(w) = n
    BY <1>5 DEF w
  <2> QED
    BY <1>6, <1>7, <2>1, SeqEqual
<1> QED
  BY <1>4, <1>8 DEF u, v, w

LEMMA RunResumes ==
    ASSUME NEW rule, Rising(rule), rule.interval \in Nat \ {0}, NEW asOf,
           NEW limit \in Nat \ {0}, NEW more \in Nat \ {0}
    PROVE  Resumes(rule, asOf, limit, more)
<1> DEFINE d == DueFrom(rule, asOf, NoDate)[0]
           L == Len(d)
           First == occurrencesUpTo(rule, asOf, limit, NoDate)
<1>1. d \in Seq(Nat) /\ \A p \in 1 .. L : d[p] >= occurrenceAt(rule, 0)
  <2>1. 1 \in Nat \ {0}
    OBVIOUS
  <2> QED
    BY <2>1, RestIsSuffix DEF SuffixFrom
<1>2. L \in Nat /\ \A p \in 1 .. L : d[p] \in Nat \ {0}
  <2>1. PICK x \in Nat \ {0} : x = occurrenceAt(rule, 0)
    BY DEF Rising
  <2>2. L \in Nat /\ \A p \in 1 .. L : d[p] \in Nat
    BY <1>1
  <2> HIDE DEF d
  <2> QED
    BY <1>1, <2>1, <2>2
<1>3. ASSUME NEW m \in Nat \ {0}, NEW after
      PROVE  occurrencesUpTo(rule, asOf, m, after)
                = SubSeq(DueFrom(rule, asOf, after)[0], 1, Least(m, Len(DueFrom(rule, asOf, after)[0])))
  <2>1. ~(rule.interval < 1) /\ ~(m < 1)
    OBVIOUS
  <2> QED
    BY <2>1, Zenon DEF occurrencesUpTo, Scan
<1> HIDE DEF d, L, First
<1>4. First = SubSeq(d, 1, Least(limit, L))
  BY <1>3 DEF First, d, L
<1> SUFFICES ASSUME First # <<>>
             PROVE  First \o occurrencesUpTo(rule, asOf, more, Last(First))
                        = occurrencesUpTo(rule, asOf, limit + more, NoDate)
  BY DEF Resumes, First
<1>5. PICK p \in Nat : p = Least(limit, L) /\ p <= L /\ p <= limit /\ (p = limit \/ p = L)
  BY <1>2 DEF Least
<1>6. p \in 1 .. L
  <2>1. CASE p = 0
    <3>1. SubSeq(d, 1, 0) = <<>>
      BY SubSeqEmpty
    <3> QED
      BY <1>4, <1>5, <2>1, <3>1
  <2> QED
    BY <1>2, <1>5, <2>1
<1>7. Last(First) = d[p]
  <2>1. p \in Int /\ 1 \in Int /\ \A j \in 1 .. p : d[j] \in Nat
    BY <1>2, <1>6
  <2>2. /\ Len(SubSeq(d, 1, p)) = IF 1 <= p THEN p - 1 + 1 ELSE 0
        /\ \A j \in 1 .. p - 1 + 1 : SubSeq(d, 1, p)[j] = d[1 + j - 1]
    BY <2>1, SubSeqProperties
  <2>3. Len(SubSeq(d, 1, p)) = p /\ SubSeq(d, 1, p)[p] = d[p]
    BY <1>6, <2>2
  <2> QED
    BY <1>4, <1>5, <2>3 DEF Last
<1>8. PICK a \in Nat \ {0} : a = d[p]
  BY <1>2, <1>6
<1> DEFINE e == DueFrom(rule, asOf, a)[0]
<1>9. e \in Seq(Nat) /\ Len(e) = L - p /\ \A q \in 1 .. L - p : e[q] = d[p + q]
  <2>1. SuffixFrom(occurrenceAt(rule, 0), a, d, e)
    BY RestIsSuffix DEF d
  <2> HIDE DEF e
  <2>2. e \in Seq(Nat) /\ \A r \in 1 .. L : d[r] = a => Len(e) = L - r /\ \A q \in 1 .. L - r : e[q] = d[r + q]
    BY <2>1 DEF SuffixFrom, L
  <2> QED
    BY <1>6, <1>8, <2>2
<1>10. occurrencesUpTo(rule, asOf, more, a) = SubSeq(e, 1, Least(more, Len(e)))
  BY <1>3
<1> HIDE DEF e
<1>11. PICK r \in Nat : r = Len(e) /\ r = L - p
  BY <1>2, <1>5, <1>9
<1>12. PICK k \in Nat : k = Least(more, r) /\ k <= r /\ k <= more /\ (k = more \/ k = r)
  BY DEF Least
<1>13. SubSeq(d, 1, p) \o SubSeq(e, 1, k) = SubSeq(d, 1, p + k)
  <2>1. k \in 0 .. Len(e)
    BY <1>11, <1>12
  <2> QED
    BY <1>1, <1>6, <1>9, <2>1, CutAndResumed DEF L
<1>14. occurrencesUpTo(rule, asOf, limit + more, NoDate) = SubSeq(d, 1, Least(limit + more, L))
  <2>1. limit + more \in Nat \ {0}
    OBVIOUS
  <2> QED
    BY <1>3, <2>1 DEF d, L
<1>15. Least(limit + more, L) = p + k
  <2>1. CASE L <= limit + more /\ p + k = L
    BY <1>2, <2>1 DEF Least
  <2>2. CASE L >= limit + more /\ p + k = limit + more
    BY <1>2, <2>2 DEF Least
  <2>3. L = p + r /\ p <= limit /\ (p = limit \/ r = 0) /\ k <= r /\ k <= more /\ (k = more \/ k = r)
    BY <1>2, <1>5, <1>11, <1>12
  <2>4. CASE k = r
    BY <2>1, <2>3, <2>4
  <2>5. CASE k = more /\ p = limit
    BY <1>2, <2>2, <2>3, <2>5
  <2>6. k = r \/ (k = more /\ p = limit)
    BY <2>3
  <2> QED
    BY <2>4, <2>5, <2>6
<1> QED
  BY <1>4, <1>5, <1>7, <1>8, <1>10, <1>11, <1>13, <1>14, <1>15, <1>12

\* A rule with a first day falls due later and later.
LEMMA DaysRise ==
    ASSUME NEW start, IsDay(start), YearOf(start) >= 1, NEW a \in Nat, NEW b \in Nat, a < b
    PROVE  IsDay(addDays(start, a)) /\ addDays(start, a) < addDays(start, b)
<1>1. /\ IsDay(addDays(start, a)) /\ IsDay(addDays(start, b))
      /\ UTCDay(addDays(start, a)) = UTCDay(start) + a /\ UTCDay(addDays(start, b)) = UTCDay(start) + b
  BY DaysAdded
<1>2. UTCDay(start) \in Nat
  BY CountedFromOne
<1>3. UTCDay(addDays(start, a)) < UTCDay(addDays(start, b))
  BY <1>1, <1>2
<1> QED
  BY <1>1, <1>3, DayOrder

\* A rule as the editor saves it: assertValid asks for an interval of one or more and the
\* form of a date, and the date field gives a day that the calendar has.
IsRule(rule) ==
    /\ IsDay(rule.startDate) /\ YearOf(rule.startDate) >= 1
    /\ rule.interval \in Nat \ {0}
    /\ rule.unit \in {"day", "week", "month", "year"}

LEMMA OccurrencesRise ==
    ASSUME NEW rule, IsRule(rule)
    PROVE  Rising(rule)
<1> DEFINE start == rule.startDate
<1>1. IsDay(start) /\ YearOf(start) >= 1
  BY DEF IsRule
<1>2. PICK n \in Nat \ {0} : n = rule.interval
  BY DEF IsRule
<1> HIDE DEF start
<1> SUFFICES ASSUME NEW i \in Nat
             PROVE  /\ IsDay(occurrenceAt(rule, i))
                    /\ occurrenceAt(rule, i) < occurrenceAt(rule, i + 1)
  <2>1. ASSUME NEW date, IsDay(date) PROVE date \in Nat \ {0}
    BY <2>1 DEF IsDay, MonthOf
  <2> QED
    BY <2>1 DEF Rising
<1>3. PICK a \in Nat, b \in Nat : a = n * i /\ b = n * (i + 1)
  BY SMT
<1>4. a < b
  <2>1. b = a + n
    BY <1>3, SMT
  <2> QED
    BY <2>1
<1>5. a * 7 \in Nat /\ b * 7 \in Nat /\ a * 7 < b * 7 /\ a * 12 \in Nat /\ b * 12 \in Nat /\ a * 12 < b * 12
  BY <1>4
<1>6. CASE rule.unit = "day"
  <2>1. occurrenceAt(rule, i) = addDays(start, a) /\ occurrenceAt(rule, i + 1) = addDays(start, b)
    BY <1>2, <1>3, <1>6, Zenon DEF occurrenceAt, start
  <2> QED
    BY <1>1, <1>4, <2>1, DaysRise
<1>7. CASE rule.unit = "week"
  <2>1. occurrenceAt(rule, i) = addDays(start, a * 7) /\ occurrenceAt(rule, i + 1) = addDays(start, b * 7)
    BY <1>2, <1>3, <1>7, Zenon DEF occurrenceAt, start
  <2> QED
    BY <1>1, <1>5, <2>1, DaysRise
<1>8. CASE rule.unit = "month"
  <2>1. occurrenceAt(rule, i) = addMonths(start, a) /\ occurrenceAt(rule, i + 1) = addMonths(start, b)
    BY <1>2, <1>3, <1>8, Zenon DEF occurrenceAt, start
  <2> QED
    BY <1>1, <1>4, <2>1, MonthsRise
<1>9. CASE rule.unit = "year"
  <2>1. occurrenceAt(rule, i) = addMonths(start, a * 12) /\ occurrenceAt(rule, i + 1) = addMonths(start, b * 12)
    BY <1>2, <1>3, <1>9, Zenon DEF occurrenceAt, start
  <2> QED
    BY <1>1, <1>5, <2>1, MonthsRise
<1> QED
  BY <1>6, <1>7, <1>8, <1>9 DEF IsRule

(***************************************************************************)
(* Any rule, any day and any limits: a run that stops at its limit and     *)
(* resumes after its furthest occurrence finds what one long run would.    *)
(***************************************************************************)
THEOREM RunsResume ==
    ASSUME NEW rule, IsRule(rule), NEW asOf, NEW limit \in Nat \ {0}, NEW more \in Nat \ {0}
    PROVE  Resumes(rule, asOf, limit, more)
BY OccurrencesRise, RunResumes DEF IsRule

\* The case does not change.
LEMMA AlwaysRule == Spec => [](case.is = "rule" => case \in Rules)
<1> DEFINE J == case.is = "rule" => case \in Rules
<1>1. Init => J
  BY Apart
<1>2. J /\ [NextDay]_vars => J'
  BY DEF NextDay, vars
<1> QED
  BY <1>1, <1>2, PTL DEF Spec

(***************************************************************************)
(* The run's property, from the theorem above.                             *)
(***************************************************************************)
THEOREM RulesResume == Spec => []ResumesExactly
<1>1. (case.is = "rule" => case \in Rules) => ResumesExactly
  <2> SUFFICES ASSUME case \in Rules
               PROVE  Resumes(case, today, 2, MAX_OCCURRENCES_PER_RUN)
    BY DEF ResumesExactly
  <2>1. /\ case.unit \in {"day", "week", "month", "year"} /\ case.interval \in {1, 2}
        /\ case.startDate \in {20231231, 20240130, 20240229}
    BY SMT DEF Rules
  <2>2. IsRule(case)
    BY <2>1, StartDays, SMT DEF IsRule
  <2>3. 2 \in Nat \ {0} /\ MAX_OCCURRENCES_PER_RUN \in Nat \ {0}
    BY ScheduleAssumption
  <2> QED
    BY <2>2, <2>3, RunsResume
<1> QED
  BY <1>1, AlwaysRule, PTL
=============================================================================
