--------------------------- MODULE AccessProofs ---------------------------
(***************************************************************************)
(* Proofs about Sessions, for any tabs, people, allowlist, sizes, lives    *)
(* and bounds, and about GithubTokens, for any callers, synchronisations,  *)
(* repositories, installations, configurations, lives and margins.         *)
(***************************************************************************)
EXTENDS Sessions, GithubTokens, FiniteSetTheorems, TLAPS

Login == [pc : {"idle", "github", "callback", "user"}, state : Nat, who : People \cup {"none"}]

Request == [pc : {"idle", "touch", "served"}, cred : [kind : {"none", "session", "key"}, id : Nat], fair : BOOLEAN]

\* States are numbered as they are made, and every state in use was made once.
Made ==
    /\ clock \in Nat
    /\ \E n \in Nat : DOMAIN begun = 1..n
    /\ begun \in [DOMAIN begun -> Nat]
    /\ login \in [Tabs -> Login]
    /\ \A t \in Tabs : login[t].pc # "idle" => login[t].state \in DOMAIN begun
    /\ DOMAIN entries \subseteq DOMAIN begun
    /\ \A s \in DOMAIN entries : entries[s] = begun[s] + Ttl

\* A state that has been consumed is out of the store and at most one tab carries it
\* on; once that has ended, by a session or without one, no tab does.
Gone(s) == s \in DOMAIN sessions \/ Cred("session", s) \in revoked
Consumed ==
    /\ \A t \in Tabs : login[t].pc = "user" =>
         /\ login[t].state \notin DOMAIN entries
         /\ ~Gone(login[t].state)
         /\ \A u \in Tabs : login[u].pc = "user" /\ login[u].state = login[t].state => u = t
    /\ \A s : Gone(s) => s \in DOMAIN begun /\ s \notin DOMAIN entries

\* What lets a request in is there and was not taken back.
Valid ==
    /\ \A s \in DOMAIN sessions : /\ Cred("session", s) \notin revoked
                                  /\ sessions[s].count = 1
                                  /\ sessions[s].who \in Allowed \cup Members
    /\ \A k \in keys : Cred("key", k) \notin revoked
    /\ \A t \in Tabs : request[t].fair
    /\ request \in [Tabs -> Request]

\* The states that could still be in the store.
Young == {s \in DOMAIN begun : clock <= begun[s] + Ttl}
Crowded == refused => Cardinality(Young) >= MaxStates

SessionsInv == Made /\ Consumed /\ Valid /\ Crowded

USE SessionsAssumption
-----------------------------------------------------------------------------
LEMMA InitSessionsInv == SessionsInit => SessionsInv
<1> SUFFICES ASSUME SessionsInit PROVE SessionsInv
    OBVIOUS
<1>1. DOMAIN begun = {} /\ DOMAIN entries = {} /\ DOMAIN sessions = {} /\ begun \in [{} -> Nat] /\ 1..0 = {}
    BY DEF SessionsInit, Empty
<1>2. Made        BY <1>1 DEF SessionsInit, Made, NoLogin, Login
<1>3. Consumed    BY <1>1 DEF SessionsInit, Consumed, Gone, NoLogin
<1>4. Valid       BY <1>1 DEF SessionsInit, Valid, NoRequest, Request, Cred
<1>5. Crowded     BY DEF SessionsInit, Crowded
<1> QED  BY <1>2, <1>3, <1>4, <1>5 DEF SessionsInv

\* No state is at two places at once, and a made one is not made again.
LEMMA NewState ==
    ASSUME Made
    PROVE  /\ IsFiniteSet(DOMAIN begun)
           /\ Cardinality(DOMAIN begun) + 1 \in Nat \ DOMAIN begun
           /\ \E n \in Nat : DOMAIN begun \cup {Cardinality(DOMAIN begun) + 1} = 1..n
<1> PICK n \in Nat : DOMAIN begun = 1..n
    BY DEF Made
<1>1. IsFiniteSet(1..n) /\ Cardinality(1..n) = n
    BY FS_Interval
<1>2. 1..n \cup {n + 1} = 1..(n + 1) /\ n + 1 \in Nat \ 1..n
    OBVIOUS
<1> QED  BY <1>1, <1>2

-----------------------------------------------------------------------------
\* GET /auth/github, refused or not.
LEMMA RedirectKeeps ==
    ASSUME SessionsInv, NEW t \in Tabs, HandleGitHubRedirect(t)
    PROVE  SessionsInv'
<1> DEFINE live == Live(entries)
           new == Cardinality(DOMAIN begun) + 1
           mine == [pc |-> "github", state |-> new, who |-> "none"]
<1>1. /\ UNCHANGED <<sessions, revoked, keys, request, clock>>
      /\ \/ /\ Cardinality(DOMAIN live) >= MaxStates
            /\ entries' = live /\ refused' = TRUE /\ UNCHANGED <<login, begun>>
         \/ /\ entries' = With(live, new, clock + Ttl) /\ begun' = With(begun, new, clock) /\ refused' = FALSE
            /\ login' = [login EXCEPT ![t] = mine]
    BY DEF HandleGitHubRedirect, Others, Go
<1>2. /\ IsFiniteSet(DOMAIN begun) /\ new \in Nat \ DOMAIN begun
      /\ \E n \in Nat : DOMAIN begun \cup {new} = 1..n
    BY NewState DEF SessionsInv
<1>3. /\ DOMAIN live \subseteq DOMAIN entries /\ DOMAIN live \subseteq Young
      /\ \A s \in DOMAIN live : live[s] = entries[s]
    BY DEF Live, Without, Young, SessionsInv, Made
<1> HIDE DEF live, new
<1>4. CASE UNCHANGED <<login, begun>> /\ entries' = live /\ Cardinality(DOMAIN live) >= MaxStates
    <2>1. Made'        BY <1>1, <1>3, <1>4 DEF SessionsInv, Made
    <2>2. Consumed'    BY <1>1, <1>3, <1>4 DEF SessionsInv, Consumed, Gone
    <2>3. Valid'       BY <1>1, <1>4 DEF SessionsInv, Valid
    <2>4. Crowded'
        <3>1. Young \subseteq DOMAIN begun /\ Young' = Young
            BY <1>1, <1>4 DEF Young
        <3>2. IsFiniteSet(Young) /\ Cardinality(Young) \in Nat /\ Cardinality(DOMAIN live) \in Nat
              /\ Cardinality(DOMAIN live) <= Cardinality(Young)
            BY <1>2, <1>3, <3>1, FS_Subset, FS_CardinalityType
        <3> QED  BY <1>4, <3>1, <3>2 DEF Crowded
    <2> QED  BY <2>1, <2>2, <2>3, <2>4 DEF SessionsInv
<1>5. CASE /\ entries' = With(live, new, clock + Ttl) /\ begun' = With(begun, new, clock) /\ refused' = FALSE
           /\ login' = [login EXCEPT ![t] = mine]
    <2>0. mine \in Login
        BY <1>2 DEF Login
    <2>1. /\ DOMAIN begun' = DOMAIN begun \cup {new} /\ begun'[new] = clock
          /\ \A s \in DOMAIN begun : begun'[s] = begun[s]
          /\ begun' = [s \in DOMAIN begun' |-> begun'[s]]
        BY <1>2, <1>5 DEF With
    <2>2. /\ DOMAIN entries' = DOMAIN live \cup {new} /\ entries'[new] = clock + Ttl
          /\ \A s \in DOMAIN live : s # new => entries'[s] = live[s]
        BY <1>5 DEF With
    <2>3. Made'
        <3>1. begun' \in [DOMAIN begun' -> Nat]
            BY <1>2, <2>1 DEF SessionsInv, Made
        <3>2. login' \in [Tabs -> Login] /\ \A u \in Tabs : login'[u].pc # "idle" => login'[u].state \in DOMAIN begun'
            BY <1>5, <2>0, <2>1 DEF SessionsInv, Made
        <3>3. DOMAIN entries' \subseteq DOMAIN begun' /\ \A s \in DOMAIN entries' : entries'[s] = begun'[s] + Ttl
            BY <1>2, <1>3, <2>1, <2>2 DEF SessionsInv, Made
        <3> QED  BY <1>1, <1>2, <2>1, <3>1, <3>2, <3>3 DEF SessionsInv, Made
    <2>4. \A u \in Tabs : login'[u].pc = "user" => login'[u] = login[u] /\ login[u].state # new
        BY <1>2, <1>5 DEF SessionsInv, Made
    <2>5. Consumed'
        BY <1>1, <1>2, <1>3, <2>1, <2>2, <2>4 DEF SessionsInv, Consumed, Gone
    <2>6. Valid'       BY <1>1, <1>5 DEF SessionsInv, Valid
    <2>7. Crowded'     BY <1>5 DEF Crowded
    <2> QED  BY <2>3, <2>5, <2>6, <2>7 DEF SessionsInv
<1> QED  BY <1>1, <1>4, <1>5

\* The browser moves on, without a step of the server: no tab comes to carry a state
\* that was consumed.
LEMMA BrowserKeeps ==
    ASSUME SessionsInv, NEW t \in Tabs, NEW l \in Login, Go(t, l),
           l.pc \in {"idle", "callback"},
           l.pc = "callback" => l.state \in DOMAIN begun,
           UNCHANGED <<clock, entries, sessions, begun, refused, revoked, keys, request>>
    PROVE  SessionsInv'
<1>1. login' = [login EXCEPT ![t] = l]
    BY DEF Go
<1>2. \A u \in Tabs : login'[u] = login[u] \/ (u = t /\ login'[u] = l)
    BY <1>1 DEF SessionsInv, Made
<1>3. Made'
    BY <1>1, <1>2 DEF SessionsInv, Made
<1>4. Consumed'
    BY <1>2 DEF SessionsInv, Consumed, Gone
<1>5. Valid' /\ Crowded'
    BY DEF SessionsInv, Valid, Crowded, Young
<1> QED  BY <1>3, <1>4, <1>5 DEF SessionsInv

LEMMA MovedOn ==
    ASSUME NEW l \in Login, NEW who \in People
    PROVE  /\ [l EXCEPT !.pc = "callback", !.who = who] \in Login
           /\ [l EXCEPT !.pc = "callback", !.who = who].pc = "callback"
           /\ [l EXCEPT !.pc = "callback", !.who = who].state = l.state
BY DEF Login

LEMMA AgainIsLogin ==
    ASSUME NEW l \in Login
    PROVE  /\ [l EXCEPT !.pc = "callback"] \in Login
           /\ [l EXCEPT !.pc = "callback"].pc = "callback"
           /\ [l EXCEPT !.pc = "callback"].state = l.state
           /\ [l EXCEPT !.pc = "user"] \in Login
           /\ [l EXCEPT !.pc = "user"].pc = "user"
           /\ [l EXCEPT !.pc = "user"].state = l.state
           /\ [l EXCEPT !.pc = "user"].who = l.who
BY DEF Login

LEMMA BrowserSteps ==
    ASSUME SessionsInv, NEW t \in Tabs, GiveUp(t) \/ (\E who \in People : ComeBack(t, who)) \/ (\E u \in Tabs : Repeat(u, t))
    PROVE  SessionsInv'
<1>1. UNCHANGED <<clock, entries, sessions, begun, refused, revoked, keys, request>>
    BY DEF GiveUp, ComeBack, Repeat, Others
<1>2. \A u \in Tabs : login[u] \in Login /\ (login[u].pc # "idle" => login[u].state \in DOMAIN begun)
    BY DEF SessionsInv, Made
<1>3. CASE GiveUp(t)
    <2>1. NoLogin \in Login /\ NoLogin.pc = "idle"
        BY DEF NoLogin, Login
    <2> QED  BY <1>1, <1>3, <2>1, BrowserKeeps DEF GiveUp
<1>4. ASSUME NEW who \in People, ComeBack(t, who) PROVE SessionsInv'
    <2> PICK l : l = [login[t] EXCEPT !.pc = "callback", !.who = who]
        OBVIOUS
    <2>1. Go(t, l) /\ login[t].pc = "github"
        BY <1>4 DEF ComeBack
    <2>2. l \in Login /\ l.pc = "callback" /\ l.state = login[t].state
        BY <1>2, MovedOn
    <2> QED  BY <1>1, <1>2, <2>1, <2>2, BrowserKeeps
<1>5. ASSUME NEW u \in Tabs, Repeat(u, t) PROVE SessionsInv'
    <2> PICK l : l = [login[u] EXCEPT !.pc = "callback"]
        OBVIOUS
    <2>1. Go(t, l) /\ login[u].pc \in {"callback", "user"}
        BY <1>5 DEF Repeat
    <2>2. l \in Login /\ l.pc = "callback" /\ l.state = login[u].state
        BY <1>2, AgainIsLogin
    <2> QED  BY <1>1, <1>2, <2>1, <2>2, BrowserKeeps
<1> QED  BY <1>3, <1>4, <1>5

-----------------------------------------------------------------------------
\* GET /auth/github/callback, first half: the tab that finds the state valid is the
\* only one that ever does.
LEMMA TakeKeeps ==
    ASSUME SessionsInv, NEW t \in Tabs, Consume(t)
    PROVE  SessionsInv'
<1> DEFINE s == login[t].state
<1> PICK l : l = [login[t] EXCEPT !.pc = "user"]
    OBVIOUS
<1>1. l \in Login /\ l.pc = "user" /\ l.state = s /\ NoLogin \in Login /\ NoLogin.pc = "idle"
    BY AgainIsLogin DEF SessionsInv, Made, NoLogin, Login
<1>2. /\ login[t].pc = "callback" /\ s \in DOMAIN begun
      /\ UNCHANGED <<clock, sessions, begun, refused, revoked, keys, request>>
    BY DEF Consume, Others, SessionsInv, Made
<1>3. DOMAIN entries' = DOMAIN entries \ {s} /\ \A e \in DOMAIN entries' : entries'[e] = entries[e]
    BY DEF Consume, Without
<1>4. \/ s \in DOMAIN entries /\ login' = [login EXCEPT ![t] = l]
      \/ login' = [login EXCEPT ![t] = NoLogin]
    BY DEF Consume, Go
<1> HIDE DEF s
<1>5. Made'
    BY <1>1, <1>2, <1>3, <1>4 DEF SessionsInv, Made
<1>6. \A u \in Tabs : login'[u].pc = "user" =>
        \/ login'[u] = login[u] /\ u # t
        \/ u = t /\ s \in DOMAIN entries /\ login'[u].state = s
    BY <1>1, <1>4 DEF SessionsInv, Made
<1>7. s \in DOMAIN entries => ~Gone(s) /\ \A u \in Tabs : login[u].pc = "user" => login[u].state # s
    BY DEF SessionsInv, Consumed
<1>8. Consumed'
    BY <1>2, <1>3, <1>6, <1>7 DEF SessionsInv, Consumed, Gone
<1>9. Valid' /\ Crowded'
    BY <1>2 DEF SessionsInv, Valid, Crowded, Young
<1> QED  BY <1>5, <1>8, <1>9 DEF SessionsInv

\* ... second half: the state ends, perhaps with the one session that comes of it.
LEMMA CallbackKeeps ==
    ASSUME SessionsInv, NEW t \in Tabs, HandleGitHubCallback(t)
    PROVE  SessionsInv'
<1> DEFINE s == login[t].state
           new == [who |-> login[t].who, until |-> clock + SessionLife,
                   count |-> 1 + (IF s \in DOMAIN sessions THEN sessions[s].count ELSE 0)]
<1>1. /\ login[t].pc = "user" /\ login' = [login EXCEPT ![t] = NoLogin]
      /\ UNCHANGED <<clock, entries, begun, refused, revoked, keys, request>>
    BY DEF HandleGitHubCallback, Go, Others
<1>2. NoLogin \in Login /\ NoLogin.pc = "idle"
    BY DEF NoLogin, Login
<1>3. /\ s \in DOMAIN begun /\ s \notin DOMAIN entries /\ ~Gone(s)
      /\ \A u \in Tabs \ {t} : login[u].pc = "user" => login[u].state # s
    BY <1>1 DEF SessionsInv, Made, Consumed
<1>4. \/ sessions' = sessions
      \/ /\ DOMAIN sessions' = DOMAIN sessions \cup {s}
         /\ sessions'[s].count = 1 /\ sessions'[s].who \in Allowed \cup Members
         /\ \A r \in DOMAIN sessions : r # s => sessions'[r] = sessions[r]
    <2>1. sessions' = sessions \/ (sessions' = With(sessions, s, new) /\ new.who \in Allowed \cup Members)
        BY DEF HandleGitHubCallback, IsUserAllowed
    <2>2. new.count = 1
        BY <1>3 DEF Gone
    <2> HIDE DEF new
    <2> QED  BY <2>1, <2>2 DEF With
<1> HIDE DEF s, new
<1>5. Made'
    BY <1>1, <1>2 DEF SessionsInv, Made
<1>6. \A u \in Tabs : login'[u].pc = "user" => u # t /\ login'[u] = login[u]
    BY <1>1, <1>2 DEF SessionsInv, Made
<1>7. Consumed'
    BY <1>1, <1>3, <1>4, <1>6 DEF SessionsInv, Consumed, Gone
<1>8. Valid'
    BY <1>1, <1>3, <1>4 DEF SessionsInv, Valid, Gone
<1>9. Crowded'
    BY <1>1 DEF SessionsInv, Crowded, Young
<1> QED  BY <1>5, <1>7, <1>8, <1>9 DEF SessionsInv

-----------------------------------------------------------------------------
\* Sessions end, by logging out or with time.
LEMMA EndKeeps ==
    ASSUME SessionsInv, NEW old \in SUBSET DOMAIN sessions,
           sessions' = Without(sessions, old),
           revoked' = revoked \cup {Cred("session", s) : s \in old},
           UNCHANGED <<clock, entries, login, begun, refused, keys, request>>
    PROVE  SessionsInv'
<1>1. /\ DOMAIN sessions' = DOMAIN sessions \ old
      /\ \A s \in DOMAIN sessions' : sessions'[s] = sessions[s]
    BY DEF Without
<1>2. \A s : Cred("session", s) \in revoked' <=> Cred("session", s) \in revoked \/ s \in old
    BY DEF Cred
<1>3. \A k : Cred("key", k) \in revoked' <=> Cred("key", k) \in revoked
    BY DEF Cred
<1>4. Made'        BY DEF SessionsInv, Made
<1>5. Consumed'    BY <1>1, <1>2 DEF SessionsInv, Consumed, Gone
<1>6. Valid'       BY <1>1, <1>2, <1>3 DEF SessionsInv, Valid
<1>7. Crowded'     BY DEF SessionsInv, Crowded, Young
<1> QED  BY <1>4, <1>5, <1>6, <1>7 DEF SessionsInv

LEMMA SessionSteps ==
    ASSUME SessionsInv, CleanupExpired \/ \E s \in DOMAIN sessions : HandleLogout(s)
    PROVE  SessionsInv'
<1>1. CASE CleanupExpired
    BY <1>1, EndKeeps DEF CleanupExpired, Others
<1>2. ASSUME NEW s \in DOMAIN sessions, HandleLogout(s) PROVE SessionsInv'
    <2>1. revoked' = revoked \cup {Cred("session", r) : r \in {s}} /\ sessions' = Without(sessions, {s})
        BY <1>2 DEF HandleLogout
    <2> QED  BY <1>2, <2>1, EndKeeps DEF HandleLogout, Others
<1> QED  BY <1>1, <1>2

\* API keys come and go; a key that was deleted does not come back.
LEMMA KeySteps ==
    ASSUME SessionsInv, NEW k, CreateApiKey(k) \/ DeleteApiKey(k)
    PROVE  SessionsInv'
<1> USE DEF CreateApiKey, DeleteApiKey
<1>1. \A s : Cred("session", s) \in revoked' <=> Cred("session", s) \in revoked
    BY DEF Cred
<1>2. \A j \in keys' : Cred("key", j) \notin revoked'
    <2>1. \A j : Cred("key", j) = Cred("key", k) => j = k
        BY DEF Cred
    <2>2. CASE CreateApiKey(k)
        BY <2>2 DEF SessionsInv, Valid
    <2>3. CASE DeleteApiKey(k)
        BY <2>1, <2>3 DEF SessionsInv, Valid
    <2> QED  BY <2>2, <2>3
<1>3. Made'        BY DEF SessionsInv, Made
<1>4. Consumed'    BY <1>1 DEF SessionsInv, Consumed, Gone
<1>5. Valid'       BY <1>1, <1>2 DEF SessionsInv, Valid
<1>6. Crowded'     BY DEF SessionsInv, Crowded, Young
<1> QED  BY <1>3, <1>4, <1>5, <1>6 DEF SessionsInv

\* A request is let in, served, and answered.
LEMMA RequestKeeps ==
    ASSUME SessionsInv, request' \in [Tabs -> Request], \A t \in Tabs : request'[t].fair,
           UNCHANGED <<clock, entries, login, sessions, begun, refused, keys, revoked>>
    PROVE  SessionsInv'
<1>1. Made'        BY DEF SessionsInv, Made
<1>2. Consumed'    BY DEF SessionsInv, Consumed, Gone
<1>3. Valid'       BY DEF SessionsInv, Valid
<1>4. Crowded'     BY DEF SessionsInv, Crowded, Young
<1> QED  BY <1>1, <1>2, <1>3, <1>4 DEF SessionsInv

LEMMA RequestSteps ==
    ASSUME SessionsInv, NEW t \in Tabs,
           \/ \E s \in DOMAIN begun : Auth(t, Cred("session", s))
           \/ \E k \in 1..MaxKeys : Auth(t, Cred("key", k))
           \/ TouchKeyUsage(t) \/ Served(t)
    PROVE  SessionsInv'
<1>1. NoRequest \in Request /\ NoRequest.fair
    BY DEF NoRequest, Request, Cred
<1>2. ASSUME NEW c \in [kind : {"session", "key"}, id : Nat], Auth(t, c)
      PROVE  SessionsInv'
    <2> PICK r : r = [pc |-> IF c.kind = "key" THEN "touch" ELSE "served", cred |-> c, fair |-> c \notin revoked]
        OBVIOUS
    <2>1. request' = [request EXCEPT ![t] = r]
        BY <1>2 DEF Auth
    <2>2. c = Cred(c.kind, c.id)
        BY DEF Cred
    <2>3. c \notin revoked
        <3>1. IF c.kind = "key" THEN c.id \in keys ELSE c.id \in DOMAIN sessions
            BY <1>2 DEF Auth, ValidateKey, ValidateSession
        <3>2. CASE c.kind = "key"
            BY <2>2, <3>1, <3>2 DEF SessionsInv, Valid
        <3>3. CASE c.kind = "session"
            BY <2>2, <3>1, <3>3 DEF SessionsInv, Valid
        <3> QED  BY <3>2, <3>3
    <2>4. r \in Request /\ r.fair
        BY <2>3 DEF Request
    <2>5. request' \in [Tabs -> Request] /\ \A u \in Tabs : request'[u].fair
        BY <2>1, <2>4 DEF SessionsInv, Valid
    <2> QED  BY <1>2, <2>5, RequestKeeps DEF Auth
<1>3. CASE TouchKeyUsage(t)
    <2>1. \A r \in Request : [r EXCEPT !.pc = "served"] \in Request /\ [r EXCEPT !.pc = "served"].fair = r.fair
        BY DEF Request
    <2>2. request' = [request EXCEPT ![t] = [request[t] EXCEPT !.pc = "served"]]
        BY <1>3 DEF TouchKeyUsage
    <2>3. request' \in [Tabs -> Request] /\ \A u \in Tabs : request'[u].fair
        BY <2>1, <2>2 DEF SessionsInv, Valid
    <2> QED  BY <1>3, <2>3, RequestKeeps DEF TouchKeyUsage
<1>4. CASE Served(t)
    <2>1. request' \in [Tabs -> Request] /\ \A u \in Tabs : request'[u].fair
        BY <1>1, <1>4 DEF Served, SessionsInv, Valid
    <2> QED  BY <1>4, <2>1, RequestKeeps DEF Served
<1>5. \A s \in DOMAIN begun : Cred("session", s) \in [kind : {"session", "key"}, id : Nat]
    BY DEF Cred, SessionsInv, Made
<1>6. \A k \in 1..MaxKeys : Cred("key", k) \in [kind : {"session", "key"}, id : Nat]
    BY DEF Cred
<1> QED  BY <1>2, <1>3, <1>4, <1>5, <1>6

-----------------------------------------------------------------------------
\* Time passes: nobody was refused yet at this time.
LEMMA TockKeeps ==
    ASSUME SessionsInv, Tock
    PROVE  SessionsInv'
<1> USE DEF Tock
<1>1. Made'        BY DEF SessionsInv, Made
<1>2. Consumed'    BY DEF SessionsInv, Consumed, Gone
<1>3. Valid'       BY DEF SessionsInv, Valid
<1>4. Crowded'     BY DEF Crowded
<1> QED  BY <1>1, <1>2, <1>3, <1>4 DEF SessionsInv

\* The store is lost with the server: what was not consumed never will be.
LEMMA RestartKeeps ==
    ASSUME SessionsInv, Restart
    PROVE  SessionsInv'
<1>1. /\ entries' = Empty /\ refused' = FALSE /\ UNCHANGED <<clock, sessions, begun, keys, revoked>>
      /\ login' = [t \in Tabs |-> IF login[t].pc = "user" THEN NoLogin ELSE login[t]]
      /\ request' = [t \in Tabs |-> NoRequest]
    BY DEF Restart
<1>2. NoLogin \in Login /\ NoLogin.pc = "idle" /\ NoRequest \in Request /\ NoRequest.fair /\ DOMAIN Empty = {}
    BY DEF NoLogin, Login, NoRequest, Request, Cred, Empty
<1>3. Made'        BY <1>1, <1>2 DEF SessionsInv, Made
<1>4. Consumed'    BY <1>1, <1>2 DEF SessionsInv, Consumed, Gone
<1>5. Valid'       BY <1>1, <1>2 DEF SessionsInv, Valid
<1>6. Crowded'     BY <1>1 DEF Crowded
<1> QED  BY <1>3, <1>4, <1>5, <1>6 DEF SessionsInv

LEMMA NextSessionsInv == SessionsInv /\ [SessionsNext]_sessionVars => SessionsInv'
<1> SUFFICES ASSUME SessionsInv, [SessionsNext]_sessionVars PROVE SessionsInv'
    OBVIOUS
<1>1. CASE UNCHANGED sessionVars
    BY <1>1 DEF sessionVars, SessionsInv, Made, Consumed, Gone, Valid, Crowded, Young
<1>2. ASSUME NEW t \in Tabs,
             \/ HandleGitHubRedirect(t) \/ GiveUp(t) \/ Consume(t) \/ HandleGitHubCallback(t)
             \/ \E who \in People : ComeBack(t, who)
      PROVE  SessionsInv'
    BY <1>2, RedirectKeeps, BrowserSteps, TakeKeeps, CallbackKeeps
<1>3. ASSUME NEW t \in Tabs, NEW u \in Tabs, Repeat(t, u)
      PROVE  SessionsInv'
    BY <1>3, BrowserSteps
<1>4. ASSUME NEW t \in Tabs,
             \/ \E s \in DOMAIN begun : Auth(t, Cred("session", s))
             \/ \E k \in 1..MaxKeys : Auth(t, Cred("key", k))
             \/ TouchKeyUsage(t) \/ Served(t)
      PROVE  SessionsInv'
    BY <1>4, RequestSteps
<1>5. ASSUME \/ \E s \in DOMAIN sessions : HandleLogout(s)
             \/ \E k \in 1..MaxKeys : CreateApiKey(k) \/ DeleteApiKey(k)
             \/ CleanupExpired \/ Tock \/ Restart
      PROVE  SessionsInv'
    BY <1>5, SessionSteps, KeySteps, TockKeeps, RestartKeeps
<1> QED  BY <1>1, <1>2, <1>3, <1>4, <1>5 DEF SessionsNext

\* One login gives at most one session, to someone the allowlist may have; requests
\* are let in with what nobody had revoked; logins are refused only when as many are
\* under way: for any tabs, people, sizes, lives and number of repetitions.
THEOREM LoginsAreHonest == SessionsSpec => []LoginsHonest
<1>1. SessionsInv => LoginsHonest
    BY DEF SessionsInv, Valid, Crowded, Young, LoginsHonest
<1> QED  BY <1>1, InitSessionsInv, NextSessionsInv, PTL DEF SessionsSpec
-----------------------------------------------------------------------------
(* The tokens of the GitHub App.                                           *)

Pcs == {"idle", "lookup", "fill", "token", "mint", "store", "got", "failed", "next", "replace"}
Errs == Errors \cup {"none", "not configured", "no installation"}
Bys == {"none", "app", "static"}
Inst == Insts \cup {NoInst}
Repo == GhRepos \cup {"none"}
Job == [pc : Pcs, repo : Repo, inst : Inst, since : Nat, expires : Nat, by : Bys, err : Errs,
        todo : SUBSET Insts, listed : SUBSET GhRepos]

CachesOK ==
    /\ ids \in [GhRepos -> Inst]
    /\ tokens \in [Insts -> Nat]
    /\ saved \in [Insts -> SUBSET GhRepos]

TokensTypeOK ==
    /\ env \in [app : BOOLEAN, default : BOOLEAN, static : BOOLEAN]
    /\ default \in Inst
    /\ gh \in [GhRepos -> Inst]
    /\ now \in Nat
    /\ job \in [Workers -> Job]
    /\ CachesOK

\* The repositories GitHub gave an installation at some time.
Snapshot(S, i) == \E g \in past : S = {r \in GhRepos : g[r] = i}

\* The App provider has nothing to offer for the repository of j: it is not configured,
\* or GitHub said that there is no installation and there is no default.
NothingToOffer(j) == j.inst = NoInst /\ (env.app => j.err = "no installation" /\ default = NoInst)

\* What a goroutine with record j knows at each place: it looked at the cache before
\* now, it has an installation once it is past finding one, a token it stores or is
\* given outlives the margin, and an error that allows the static token says that
\* the App provider has nothing to offer.
Knows(j) ==
    /\ j.since <= now
    /\ j.pc \in {"lookup", "fill"} => j.repo \in GhRepos
    /\ j.pc \in {"fill", "token", "mint", "store"} => j.inst \in Insts
    /\ j.pc = "store" \/ (j.pc = "got" /\ j.by = "app") => j.inst \in Insts /\ j.expires > j.since + Margin
    /\ j.pc = "lookup" => j.inst = NoInst /\ default = NoInst
    /\ j.pc = "failed" /\ MayFallBack(j.err) => NothingToOffer(j)
    /\ j.by = "static" => j.pc = "got" /\ NothingToOffer(j)
    /\ j.pc = "replace" => Snapshot(j.listed, j.inst)

Stored == \A i \in Insts : saved[i] = {} \/ Snapshot(saved[i], i)

TokensInv == TokensTypeOK /\ gh \in past /\ Stored /\ \A w \in Workers : Knows(job[w])

\* The names in the sets above.
LEMMA Named ==
    /\ "idle" \in Pcs /\ "lookup" \in Pcs /\ "fill" \in Pcs /\ "token" \in Pcs /\ "mint" \in Pcs
    /\ "store" \in Pcs /\ "got" \in Pcs /\ "failed" \in Pcs /\ "next" \in Pcs /\ "replace" \in Pcs
    /\ "none" \in Bys /\ "app" \in Bys /\ "static" \in Bys
    /\ Errors \subseteq Errs /\ "other" \in Errs /\ "none" \in Errs
    /\ "not configured" \in Errs /\ "no installation" \in Errs
    /\ "none" \in Repo /\ GhRepos \subseteq Repo /\ NoInst \in Inst /\ Insts \subseteq Inst
BY DEF Pcs, Bys, Errs, Errors, Repo, Inst

USE TokensAssumption

LEMMA NoJobIsIdle ==
    /\ NoJob \in Job /\ NoJob.pc = "idle" /\ NoJob.repo = "none" /\ NoJob.inst = NoInst
    /\ NoJob.since = 0 /\ NoJob.expires = 0 /\ NoJob.by = "none" /\ NoJob.err = "none" /\ NoJob.todo = {}
BY Named DEF NoJob, Job

LEMMA InitTokensInv == TokensInit => TokensInv
<1> SUFFICES ASSUME TokensInit PROVE TokensInv
    OBVIOUS
<1>1. NoJob \in Job                         BY NoJobIsIdle
<1>2. TokensTypeOK                          BY <1>1 DEF TokensInit, TokensTypeOK, CachesOK, Inst
<1>3. gh \in past                           BY DEF TokensInit
<1>4. Stored                                BY DEF TokensInit, Stored
<1>5. now = 0 /\ Knows(NoJob)               BY NoJobIsIdle DEF TokensInit, Knows
<1>6. \A w \in Workers : Knows(job[w])      BY <1>5 DEF TokensInit
<1> QED  BY <1>2, <1>3, <1>4, <1>6 DEF TokensInv

\* Goroutine w goes on with a record it may have, and GitHub and the clock stand still.
LEMMA BecomeKeeps ==
    ASSUME TokensInv, NEW w \in Workers, NEW j \in Job, Knows(j), Become(w, j),
           UNCHANGED <<env, default, gh, now, past>>, CachesOK', Stored'
    PROVE  TokensInv'
<1>1. TokensTypeOK'
    BY DEF TokensInv, TokensTypeOK, Become
<1>2. ASSUME NEW v \in Workers PROVE Knows(job[v])'
    <2> PICK k : k = job'[v]
        OBVIOUS
    <2>1. k = j \/ k = job[v]
        BY DEF TokensInv, TokensTypeOK, Become
    <2>2. Knows(k)
        BY <2>1 DEF TokensInv
    <2>3. Knows(k)'
        BY <2>2 DEF Knows, Snapshot, NothingToOffer
    <2> QED  BY <2>3 DEF Knows, Snapshot, NothingToOffer
<1>3. \A v \in Workers : Knows(job[v])'
    BY <1>2
<1> QED  BY <1>1, <1>3 DEF TokensInv

\* ... and stores nothing.
LEMMA ReadKeeps ==
    ASSUME TokensInv, NEW w \in Workers, NEW j \in Job, Knows(j), Become(w, j),
           UNCHANGED <<env, default, gh, now, past, ids, tokens, saved>>
    PROVE  TokensInv'
<1>1. CachesOK' /\ Stored'
    BY DEF TokensInv, TokensTypeOK, CachesOK, Stored, Snapshot
<1> QED  BY <1>1, BecomeKeeps

LEMMA IdleKeeps ==
    ASSUME TokensInv, NEW w \in Workers, Become(w, NoJob),
           UNCHANGED <<env, default, gh, now, past, ids, tokens, saved>>
    PROVE  TokensInv'
<1>1. NoJob \in Job
    BY NoJobIsIdle
<1>2. now \in Nat
    BY DEF TokensInv, TokensTypeOK
<1>3. Knows(NoJob)
    BY <1>2, NoJobIsIdle DEF Knows
<1> QED  BY <1>1, <1>3, ReadKeeps

-----------------------------------------------------------------------------
\* What is known of the record of a goroutine, and of what it reads.
LEMMA JobOK ==
    ASSUME TokensInv, NEW w \in Workers
    PROVE  /\ job[w] \in Job /\ Knows(job[w]) /\ now \in Nat /\ default \in Inst
           /\ \A r \in GhRepos : gh[r] \in Inst /\ ids[r] \in Inst
           /\ \A i \in Insts : tokens[i] \in Nat
BY DEF TokensInv, TokensTypeOK, CachesOK

LEMMA RefusedKeeps ==
    ASSUME TokensInv, NEW w \in Workers, NEW e \in Errors, Refused(w, e), UNCHANGED <<env, default>>
    PROVE  TokensInv'
<1> DEFINE j == [NoJob EXCEPT !.pc = "failed", !.err = e, !.repo = job[w].repo]
<1>1. job[w].repo \in Repo /\ now \in Nat
    BY JobOK DEF Job
<1>2. NoJob \in Job /\ "failed" \in Pcs /\ e \in Errs
    BY Named, NoJobIsIdle
<1>3. j \in Job /\ j.pc = "failed" /\ j.err = e /\ j.by = NoJob.by /\ j.since = NoJob.since
    BY <1>1, <1>2 DEF Job
<1>4. Become(w, j) /\ UNCHANGED <<gh, now, past, ids, tokens, saved>>
    BY DEF Refused
<1> HIDE DEF j
<1>5. j.by = "none" /\ j.since = 0 /\ ~MayFallBack(j.err)
    BY <1>3, NoJobIsIdle DEF MayFallBack, Errors
<1>6. Knows(j)
    BY <1>1, <1>3, <1>5 DEF Knows
<1> QED  BY <1>3, <1>4, <1>6, ReadKeeps

LEMMA TokenForRepoKeeps ==
    ASSUME TokensInv, NEW w \in Workers, NEW r \in GhRepos, TokenForRepo(w, r), UNCHANGED <<env, default>>
    PROVE  TokensInv'
<1> DEFINE b == [NoJob EXCEPT !.repo = r, !.since = now]
           fail == [b EXCEPT !.pc = "failed", !.err = "not configured"]
           ask(i) == [b EXCEPT !.pc = "token", !.inst = i]
           look == [b EXCEPT !.pc = "lookup"]
<1>1. UNCHANGED <<gh, now, past, ids, tokens, saved>>
    BY DEF TokenForRepo
<1>2. now \in Nat /\ ids[r] \in Inst /\ default \in Inst /\ r \in Repo /\ NoJob \in Job
    BY JobOK, NoJobIsIdle, Named
<1>3. b \in Job /\ b.inst = NoJob.inst /\ b.since = now /\ b.by = NoJob.by /\ b.repo = r
    BY <1>2 DEF Job
<1>4. \/ ~env.app /\ Become(w, fail)
      \/ ids[r] # NoInst /\ Become(w, ask(ids[r]))
      \/ default # NoInst /\ Become(w, ask(default))
      \/ default = NoInst /\ Become(w, look)
    BY Zenon DEF TokenForRepo
<1> HIDE DEF b
<1>5. /\ fail \in Job /\ fail.pc = "failed" /\ fail.since = b.since /\ fail.by = b.by /\ fail.inst = b.inst
    BY <1>3, Named DEF Job
<1>6. /\ look \in Job /\ look.pc = "lookup" /\ look.since = b.since /\ look.by = b.by /\ look.inst = b.inst
      /\ look.repo = b.repo
    BY <1>3, Named DEF Job
<1>7. ASSUME NEW i \in Insts PROVE ask(i) \in Job /\ ask(i).pc = "token" /\ ask(i).inst = i
                                   /\ ask(i).since = b.since /\ ask(i).by = b.by
    BY <1>3, Named DEF Job
<1> HIDE DEF fail, ask, look
<1>8. CASE ~env.app /\ Become(w, fail)
    <2>1. NothingToOffer(fail)
        BY <1>3, <1>5, <1>8, NoJobIsIdle DEF NothingToOffer
    <2>2. Knows(fail)
        BY <1>2, <1>3, <1>5, <2>1, NoJobIsIdle DEF Knows
    <2> QED  BY <1>1, <1>5, <1>8, <2>2, ReadKeeps
<1>9. ASSUME NEW i \in Insts, Become(w, ask(i)) PROVE TokensInv'
    <2>1. Knows(ask(i))
        BY <1>2, <1>3, <1>7, NoJobIsIdle DEF Knows
    <2> QED  BY <1>1, <1>7, <1>9, <2>1, ReadKeeps
<1>10. CASE default = NoInst /\ Become(w, look)
    <2>1. Knows(look)
        BY <1>2, <1>3, <1>6, <1>10, NoJobIsIdle DEF Knows
    <2> QED  BY <1>1, <1>6, <1>10, <2>1, ReadKeeps
<1> QED  BY <1>2, <1>4, <1>8, <1>9, <1>10 DEF Inst

LEMMA LookupKeeps ==
    ASSUME TokensInv, NEW w \in Workers, installationIDForRepo(w), UNCHANGED <<env, default>>
    PROVE  TokensInv'
<1> DEFINE b == job[w]
           r == b.repo
           fail == [b EXCEPT !.pc = "failed", !.err = "no installation"]
           found == [b EXCEPT !.pc = "fill", !.inst = gh[r]]
<1>1. b \in Job /\ Knows(b) /\ b.pc = "lookup" /\ now \in Nat
    BY JobOK DEF installationIDForRepo
<1>2. r \in GhRepos /\ gh[r] \in Inst /\ b.inst = NoInst /\ default = NoInst /\ b.by # "static"
    BY <1>1, JobOK DEF Knows
<1>3. \/ /\ UNCHANGED <<gh, now, past, ids, tokens, saved>>
         /\ Become(w, fail) \/ (gh[r] # NoInst /\ Become(w, found))
      \/ \E e \in Errors : Refused(w, e)
    BY Zenon DEF installationIDForRepo
<1> HIDE DEF b
<1>4. /\ fail \in Job /\ fail.pc = "failed" /\ fail.since = b.since /\ fail.by = b.by /\ fail.inst = b.inst
      /\ fail.err = "no installation"
    BY <1>1, Named DEF Job
<1>5. /\ found \in Job /\ found.pc = "fill" /\ found.since = b.since /\ found.by = b.by /\ found.inst = gh[r]
      /\ found.repo = r
    BY <1>1, <1>2, Named DEF Job
<1> HIDE DEF fail, found
<1>6. CASE UNCHANGED <<gh, now, past, ids, tokens, saved>> /\ Become(w, fail)
    <2>1. NothingToOffer(fail)
        BY <1>2, <1>4 DEF NothingToOffer
    <2>2. Knows(fail)
        BY <1>1, <1>2, <1>4, <2>1 DEF Knows
    <2> QED  BY <1>4, <1>6, <2>2, ReadKeeps
<1>7. CASE UNCHANGED <<gh, now, past, ids, tokens, saved>> /\ gh[r] # NoInst /\ Become(w, found)
    <2>1. Knows(found)
        BY <1>1, <1>2, <1>5, <1>7 DEF Knows, Inst
    <2> QED  BY <1>5, <1>7, <2>1, ReadKeeps
<1> QED  BY <1>3, <1>6, <1>7, RefusedKeeps

LEMMA FillKeeps ==
    ASSUME TokensInv, NEW w \in Workers, FillInstallation(w), UNCHANGED <<env, default>>
    PROVE  TokensInv'
<1> DEFINE b == job[w]
           j == [b EXCEPT !.pc = "token"]
<1>1. b \in Job /\ Knows(b) /\ b.pc = "fill"
    BY JobOK DEF FillInstallation
<1>2. b.repo \in GhRepos /\ b.inst \in Insts /\ b.by # "static"
    BY <1>1 DEF Knows
<1>3. Become(w, j) /\ ids' = [ids EXCEPT ![b.repo] = b.inst] /\ UNCHANGED <<gh, now, past, tokens, saved>>
    BY DEF FillInstallation
<1> HIDE DEF b
<1>4. j \in Job /\ j.pc = "token" /\ j.inst = b.inst /\ j.since = b.since /\ j.by = b.by
    BY <1>1, Named DEF Job
<1> HIDE DEF j
<1>5. Knows(j)
    BY <1>1, <1>2, <1>4 DEF Knows
<1>6. CachesOK'
    BY <1>2, <1>3 DEF TokensInv, TokensTypeOK, CachesOK, Inst
<1>7. Stored'
    BY <1>3 DEF TokensInv, Stored, Snapshot
<1> QED  BY <1>3, <1>4, <1>5, <1>6, <1>7, BecomeKeeps

LEMMA CachedKeeps ==
    ASSUME TokensInv, NEW w \in Workers, CachedToken(w), UNCHANGED <<env, default>>
    PROVE  TokensInv'
<1> DEFINE b == job[w]
           x == tokens[b.inst]
           got == [b EXCEPT !.pc = "got", !.by = "app", !.expires = x]
           mint == [b EXCEPT !.pc = "mint", !.since = now]
<1>1. b \in Job /\ Knows(b) /\ b.pc = "token" /\ now \in Nat
    BY JobOK DEF CachedToken
<1>2. b.inst \in Insts /\ b.by # "static" /\ b.since \in Nat /\ b.since <= now
    BY <1>1 DEF Knows, Job
<1>3. x \in Nat
    BY <1>2, JobOK
<1>4. /\ UNCHANGED <<gh, now, past, ids, tokens, saved>>
      /\ (StillFresh(x) /\ Become(w, got)) \/ Become(w, mint)
    BY Zenon DEF CachedToken
<1> HIDE DEF b, x
<1>5. /\ got \in Job /\ got.pc = "got" /\ got.since = b.since /\ got.inst = b.inst /\ got.expires = x
      /\ got.by = "app"
    BY <1>1, <1>3, Named DEF Job
<1>6. /\ mint \in Job /\ mint.pc = "mint" /\ mint.since = now /\ mint.inst = b.inst /\ mint.by = b.by
    BY <1>1, Named DEF Job
<1> HIDE DEF got, mint
<1>7. CASE StillFresh(x) /\ Become(w, got)
    <2>1. x > b.since + Margin
        BY <1>1, <1>2, <1>3, <1>7 DEF StillFresh
    <2>2. Knows(got)
        BY <1>1, <1>2, <1>5, <2>1 DEF Knows
    <2> QED  BY <1>4, <1>5, <1>7, <2>2, ReadKeeps
<1>8. CASE Become(w, mint)
    <2>1. Knows(mint)
        BY <1>1, <1>2, <1>6 DEF Knows
    <2> QED  BY <1>4, <1>6, <1>8, <2>1, ReadKeeps
<1> QED  BY <1>4, <1>7, <1>8

LEMMA MintKeeps ==
    ASSUME TokensInv, NEW w \in Workers, installationToken(w), UNCHANGED <<env, default>>
    PROVE  TokensInv'
<1> DEFINE b == job[w]
           x == now + Life
           new == [b EXCEPT !.pc = "store", !.expires = x]
           fail == [b EXCEPT !.pc = "failed", !.err = "other"]
<1>1. b \in Job /\ Knows(b) /\ b.pc = "mint" /\ now \in Nat
    BY JobOK DEF installationToken
<1>2. b.inst \in Insts /\ b.by # "static" /\ b.since \in Nat /\ b.since <= now
    BY <1>1 DEF Knows, Job
<1>3. x \in Nat /\ x > b.since + Margin
    BY <1>1, <1>2
<1>4. \/ UNCHANGED <<gh, now, past, ids, tokens, saved>> /\ (Become(w, new) \/ Become(w, fail))
      \/ \E e \in Errors : Refused(w, e)
    BY Zenon DEF installationToken
<1> HIDE DEF b, x
<1>5. new \in Job /\ new.pc = "store" /\ new.since = b.since /\ new.inst = b.inst /\ new.expires = x /\ new.by = b.by
    BY <1>1, <1>3, Named DEF Job
<1>6. fail \in Job /\ fail.pc = "failed" /\ fail.since = b.since /\ fail.err = "other" /\ fail.by = b.by
    BY <1>1, Named DEF Job
<1> HIDE DEF new, fail
<1>7. CASE UNCHANGED <<gh, now, past, ids, tokens, saved>> /\ Become(w, new)
    <2>1. Knows(new)
        BY <1>1, <1>2, <1>3, <1>5 DEF Knows
    <2> QED  BY <1>5, <1>7, <2>1, ReadKeeps
<1>8. CASE UNCHANGED <<gh, now, past, ids, tokens, saved>> /\ Become(w, fail)
    <2>1. ~MayFallBack(fail.err)
        BY <1>6 DEF MayFallBack
    <2>2. Knows(fail)
        BY <1>1, <1>2, <1>6, <2>1 DEF Knows
    <2> QED  BY <1>6, <1>8, <2>2, ReadKeeps
<1> QED  BY <1>4, <1>7, <1>8, RefusedKeeps

LEMMA StoreKeeps ==
    ASSUME TokensInv, NEW w \in Workers, StoreToken(w), UNCHANGED <<env, default>>
    PROVE  TokensInv'
<1> DEFINE b == job[w]
           j == [b EXCEPT !.pc = "got", !.by = "app"]
<1>1. b \in Job /\ Knows(b) /\ b.pc = "store"
    BY JobOK DEF StoreToken
<1>2. b.inst \in Insts /\ b.expires \in Nat /\ b.expires > b.since + Margin
    BY <1>1 DEF Knows, Job
<1>3. Become(w, j) /\ tokens' = [tokens EXCEPT ![b.inst] = b.expires] /\ UNCHANGED <<gh, now, past, ids, saved>>
    BY DEF StoreToken
<1> HIDE DEF b
<1>4. j \in Job /\ j.pc = "got" /\ j.inst = b.inst /\ j.since = b.since /\ j.by = "app" /\ j.expires = b.expires
    BY <1>1, Named DEF Job
<1> HIDE DEF j
<1>5. Knows(j)
    BY <1>1, <1>2, <1>4 DEF Knows
<1>6. CachesOK'
    BY <1>2, <1>3 DEF TokensInv, TokensTypeOK, CachesOK
<1>7. Stored'
    BY <1>3 DEF TokensInv, Stored, Snapshot
<1> QED  BY <1>3, <1>4, <1>5, <1>6, <1>7, BecomeKeeps

LEMMA FallbackKeeps ==
    ASSUME TokensInv, NEW w \in Workers, ChainFallback(w), UNCHANGED <<env, default>>
    PROVE  TokensInv'
<1> DEFINE b == job[w]
           j == [b EXCEPT !.pc = "got", !.by = "static"]
<1>1. b \in Job /\ Knows(b) /\ b.pc = "failed" /\ MayFallBack(b.err)
    BY JobOK DEF ChainFallback
<1>2. NothingToOffer(b)
    BY <1>1 DEF Knows
<1>3. Become(w, j) /\ UNCHANGED <<gh, now, past, ids, tokens, saved>>
    BY DEF ChainFallback
<1> HIDE DEF b
<1>4. j \in Job /\ j.pc = "got" /\ j.inst = b.inst /\ j.since = b.since /\ j.by = "static" /\ j.err = b.err
    BY <1>1, Named DEF Job
<1> HIDE DEF j
<1>5. NothingToOffer(j)
    BY <1>2, <1>4 DEF NothingToOffer
<1>6. Knows(j)
    BY <1>1, <1>4, <1>5 DEF Knows
<1> QED  BY <1>3, <1>4, <1>6, ReadKeeps

-----------------------------------------------------------------------------
LEMMA SyncKeeps ==
    ASSUME TokensInv, NEW w \in Workers, Sync(w), UNCHANGED <<env, default>>
    PROVE  TokensInv'
<1> DEFINE d == {gh[r] : r \in GhRepos} \ {NoInst}
           j == [NoJob EXCEPT !.pc = "next", !.todo = d]
<1>1. \/ Become(w, j) /\ UNCHANGED <<gh, now, past, ids, tokens, saved>>
      \/ \E e \in Errors : Refused(w, e)
    BY Zenon DEF Sync
<1>2. d \in SUBSET Insts /\ now \in Nat
    BY JobOK DEF Inst
<1> HIDE DEF d
<1>3. j \in Job /\ j.pc = "next" /\ j.since = NoJob.since /\ j.by = NoJob.by
    BY <1>2, NoJobIsIdle, Named DEF Job
<1> HIDE DEF j
<1>4. Knows(j)
    BY <1>2, <1>3, NoJobIsIdle DEF Knows
<1> QED  BY <1>1, <1>3, <1>4, ReadKeeps, RefusedKeeps

LEMMA UpsertKeeps ==
    ASSUME TokensInv, NEW w \in Workers, NEW i \in Insts, UpsertGitHubAppInstallation(w, i), UNCHANGED <<env, default>>
    PROVE  TokensInv'
<1> DEFINE d == job[w].todo \ {i}
           j == [NoJob EXCEPT !.pc = "token", !.inst = i, !.todo = d]
<1>1. Become(w, j) /\ UNCHANGED <<gh, now, past, ids, tokens, saved>>
    BY DEF UpsertGitHubAppInstallation
<1>2. d \in SUBSET Insts /\ now \in Nat /\ i \in Inst
    BY JobOK, Named DEF Job
<1> HIDE DEF d
<1>3. j \in Job /\ j.pc = "token" /\ j.inst = i /\ j.since = NoJob.since /\ j.by = NoJob.by
    BY <1>2, NoJobIsIdle, Named DEF Job
<1> HIDE DEF j
<1>4. Knows(j)
    BY <1>2, <1>3, NoJobIsIdle DEF Knows
<1> QED  BY <1>1, <1>3, <1>4, ReadKeeps

LEMMA ListKeeps ==
    ASSUME TokensInv, NEW w \in Workers, ListInstallationRepositories(w), UNCHANGED <<env, default>>
    PROVE  TokensInv'
<1> DEFINE b == job[w]
           list == {r \in GhRepos : gh[r] = b.inst}
           j == [NoJob EXCEPT !.pc = "replace", !.inst = b.inst, !.todo = b.todo, !.listed = list]
<1>1. \/ Become(w, j) /\ UNCHANGED <<gh, now, past, ids, tokens, saved>>
      \/ \E e \in Errors : Refused(w, e)
    BY Zenon DEF ListInstallationRepositories
<1>2. b \in Job /\ Knows(b) /\ b.pc = "got" /\ now \in Nat
    BY JobOK DEF ListInstallationRepositories
<1>3. b.inst \in Inst /\ b.todo \in SUBSET Insts /\ list \in SUBSET GhRepos /\ Snapshot(list, b.inst)
    BY <1>2 DEF Job, TokensInv, Snapshot
<1> HIDE DEF b, list
<1>4. j \in Job /\ j.pc = "replace" /\ j.inst = b.inst /\ j.listed = list /\ j.since = NoJob.since /\ j.by = NoJob.by
    BY <1>3, NoJobIsIdle, Named DEF Job
<1> HIDE DEF j
<1>5. Knows(j)
    BY <1>2, <1>3, <1>4, NoJobIsIdle DEF Knows
<1> QED  BY <1>1, <1>4, <1>5, ReadKeeps, RefusedKeeps

LEMMA ReplaceKeeps ==
    ASSUME TokensInv, NEW w \in Workers, ReplaceGitHubAppRepositories(w), UNCHANGED <<env, default>>
    PROVE  TokensInv'
<1> DEFINE b == job[w]
           j == [NoJob EXCEPT !.pc = "next", !.todo = b.todo]
           store == saved' = [saved EXCEPT ![b.inst] = b.listed] /\ UNCHANGED <<gh, now, past, ids, tokens>>
<1>1. (Become(w, j) /\ store) \/ Refused(w, "other")
    BY Zenon DEF ReplaceGitHubAppRepositories
<1>2. b \in Job /\ Knows(b) /\ b.pc = "replace" /\ now \in Nat
    BY JobOK DEF ReplaceGitHubAppRepositories
<1>3. b.todo \in SUBSET Insts /\ b.listed \in SUBSET GhRepos /\ Snapshot(b.listed, b.inst)
    BY <1>2 DEF Job, Knows
<1> HIDE DEF b
<1>4. j \in Job /\ j.pc = "next" /\ j.since = NoJob.since /\ j.by = NoJob.by
    BY <1>3, NoJobIsIdle, Named DEF Job
<1> HIDE DEF j
<1>5. Knows(j)
    BY <1>2, <1>4, NoJobIsIdle DEF Knows
<1>6. CASE Become(w, j) /\ store
    <2>1. CachesOK'
        BY <1>3, <1>6 DEF TokensInv, TokensTypeOK, CachesOK
    <2>2. \A i \in Insts : saved'[i] = saved[i] \/ (i = b.inst /\ saved'[i] = b.listed)
        BY <1>6 DEF TokensInv, TokensTypeOK, CachesOK
    <2>3. \A i \in Insts : saved'[i] = {} \/ Snapshot(saved'[i], i)
        BY <1>3, <2>2 DEF TokensInv, Stored
    <2>4. Stored'
        BY <1>6, <2>3 DEF Stored, Snapshot
    <2> QED  BY <1>4, <1>5, <1>6, <2>1, <2>4, BecomeKeeps
<1> QED  BY <1>1, <1>6, RefusedKeeps DEF Errors

LEMMA WorkerKeeps ==
    ASSUME TokensInv, NEW w \in Workers, UNCHANGED <<env, default>>,
           \/ \E r \in GhRepos : TokenForRepo(w, r)
           \/ installationIDForRepo(w) \/ FillInstallation(w) \/ CachedToken(w) \/ installationToken(w)
           \/ StoreToken(w) \/ ChainFallback(w) \/ Finish(w)
           \/ Sync(w) \/ ListInstallationRepositories(w) \/ ReplaceGitHubAppRepositories(w) \/ SyncAnswer(w)
           \/ \E i \in Insts : UpsertGitHubAppInstallation(w, i)
    PROVE  TokensInv'
<1>1. CASE Finish(w) \/ SyncAnswer(w)
    BY <1>1, IdleKeeps DEF Finish, SyncAnswer
<1> QED  BY <1>1, TokenForRepoKeeps, LookupKeeps, FillKeeps, CachedKeeps, MintKeeps, StoreKeeps,
            FallbackKeeps, SyncKeeps, UpsertKeeps, ListKeeps, ReplaceKeeps

\* The clock goes on, or GitHub changes: what a goroutine knows stays known.
LEMMA WorldKeeps ==
    ASSUME TokensInv, UNCHANGED <<env, default, ids, tokens, job, saved>>, gh' \in [GhRepos -> Inst],
           now' \in Nat, now' >= now, gh' \in past', past \subseteq past'
    PROVE  TokensInv'
<1>1. TokensTypeOK'
    BY DEF TokensInv, TokensTypeOK, CachesOK
<1>2. \A S, i : Snapshot(S, i) => Snapshot(S, i)'
    BY DEF Snapshot
<1>3. Stored'
    BY <1>2 DEF TokensInv, Stored
<1>4. ASSUME NEW w \in Workers PROVE Knows(job[w])'
    <2> PICK k : k = job[w]
        OBVIOUS
    <2>1. Knows(k) /\ k.since \in Nat /\ now \in Nat
        BY JobOK DEF Job
    <2>2. k.since <= now'
        BY <2>1 DEF Knows
    <2>3. NothingToOffer(k) => NothingToOffer(k)'
        BY DEF NothingToOffer
    <2>4. Snapshot(k.listed, k.inst) => Snapshot(k.listed, k.inst)'
        BY <1>2
    <2>5. Knows(k)'
        BY <2>1, <2>2, <2>3, <2>4 DEF Knows
    <2> QED  BY <2>5
<1> QED  BY <1>1, <1>3, <1>4 DEF TokensInv

LEMMA TickKeeps ==
    ASSUME TokensInv, Tick, UNCHANGED <<env, default>>
    PROVE  TokensInv'
<1>1. /\ gh' \in [GhRepos -> Inst] /\ now' \in Nat /\ now' >= now /\ gh' \in past' /\ past \subseteq past'
    BY DEF TokensInv, TokensTypeOK, Tick
<1> QED  BY <1>1, WorldKeeps DEF Tick

LEMMA ReinstallKeeps ==
    ASSUME TokensInv, NEW r \in GhRepos, NEW i \in Insts \cup {NoInst}, Reinstall(r, i), UNCHANGED <<env, default>>
    PROVE  TokensInv'
<1>1. /\ gh' \in [GhRepos -> Inst] /\ now' \in Nat /\ now' >= now /\ gh' \in past' /\ past \subseteq past'
    BY DEF TokensInv, TokensTypeOK, Reinstall, Inst
<1> QED  BY <1>1, WorldKeeps DEF Reinstall

LEMMA NextTokensInv == TokensInv /\ [TokensNext]_tokenVars => TokensInv'
<1> SUFFICES ASSUME TokensInv, [TokensNext]_tokenVars PROVE TokensInv'
    OBVIOUS
<1>1. CASE UNCHANGED tokenVars
    BY <1>1, WorldKeeps DEF TokensInv, TokensTypeOK, tokenVars
<1>2. CASE TokensNext
    BY <1>2, WorkerKeeps, TickKeeps, ReinstallKeeps DEF TokensNext, TokensStep
<1> QED  BY <1>1, <1>2

LEMMA SpecIInv == TokensSpec => []TokensInv
BY InitTokensInv, NextTokensInv, PTL DEF TokensSpec

-----------------------------------------------------------------------------
\* Whatever goroutines share the caches, a token that is given out could be used
\* when it was asked for, and the static token only stands in where the App
\* provider has nothing to offer.
THEOREM TokensAreUsable == TokensSpec => []TokenUsable
<1>1. TokensInv => TokenUsable
    <2> SUFFICES ASSUME TokensInv PROVE TokenUsable
        OBVIOUS
    <2>1. ASSUME NEW w \in Workers, job[w].pc = "got", job[w].by = "app"
          PROVE  job[w].expires > job[w].since + Margin /\ job[w].inst # NoInst
        BY <2>1, JobOK DEF Knows
    <2>2. ASSUME NEW w \in Callers, job[w].by = "static"
          PROVE  job[w].inst = NoInst /\ (env.app => job[w].err = "no installation" /\ default = NoInst)
        BY <2>2, JobOK DEF Knows, NothingToOffer, Workers
    <2> QED  BY <2>1, <2>2 DEF TokenUsable
<1> QED  BY <1>1, SpecIInv, PTL

\* However many requests to synchronise overlap, fail half-way or are overtaken by a
\* change at GitHub, the repositories stored of an installation are one list that
\* GitHub gave out for it, whole.
THEOREM SavedListsAreWhole == TokensSpec => []SavedIsSnapshot
<1>1. TokensInv => SavedIsSnapshot
    BY DEF TokensInv, Stored, Snapshot, SavedIsSnapshot
<1> QED  BY <1>1, SpecIInv, PTL
=============================================================================
