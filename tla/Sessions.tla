------------------------------ MODULE Sessions ------------------------------
(* Logging in with GitHub, sessions and API keys (internal/auth, api/auth.go,  *)
(* api/apikeys.go).  A login is two requests of a browser with GitHub in       *)
(* between, held together by a state in the memory of the server; callbacks    *)
(* may be repeated or come late, and the server may restart.  A request that   *)
(* uses a credential is checked first and served afterwards.                    *)
EXTENDS Integers, FiniteSets

CONSTANTS Tabs,           \* browser tabs, each with a login or a request under way
          People, Allowed,\* GitHub users; those the allowlist has
          Members,        \* those it lets in for an organisation of theirs
          MaxStates, Ttl, \* the size of the state store and the life of an entry
          SessionLife,
          MaxClock, MaxLogins, MaxKeys, MaxRestarts \* bounds

ASSUME SessionsAssumption == /\ Allowed \cup Members \subseteq People
                             /\ {MaxStates, Ttl, SessionLife, MaxKeys} \subseteq Nat

VARIABLES clock,
          entries,  \* StateStore: state -> when it expires
          login,    \* per tab: where its login is, the state in its URL, who it is
          sessions, \* sessions by the state they came from: user, expiry; the cookie is signed, so it names one
          begun,    \* history: when each state was made
          refused,  \* history: the last answer to a login was that there are too many
          keys,     \* api_keys: the ids that are stored
          revoked,  \* history: sessions logged out and keys deleted
          request,  \* per tab: the credential under check, or being used
          restarts

sessionVars == <<clock, entries, login, sessions, begun, refused, keys, revoked, request, restarts>>

Cred(kind, id) == [kind |-> kind, id |-> id]
NoLogin == [pc |-> "idle", state |-> 0, who |-> "none"]
NoRequest == [pc |-> "idle", cred |-> Cred("none", 0), fair |-> TRUE]
Empty == [x \in {} |-> 0]
Without(f, S) == [x \in DOMAIN f \ S |-> f[x]]
With(f, x, v) == [y \in DOMAIN f \cup {x} |-> IF y = x THEN v ELSE f[y]]

SessionsInit == /\ clock = 0 /\ entries = Empty /\ login = [t \in Tabs |-> NoLogin] /\ sessions = Empty
                /\ begun = Empty /\ refused = FALSE /\ keys = {} /\ revoked = {}
                /\ request = [t \in Tabs |-> NoRequest] /\ restarts = 0
Go(t, l) == login' = [login EXCEPT ![t] = l]
Others == <<keys, request, restarts, clock>>

\* GET /auth/github: StateStore.Create sweeps what has expired, then refuses (429)
\* or makes a state and sends the browser to GitHub
Live(e) == Without(e, {x \in DOMAIN e : clock > e[x]})
HandleGitHubRedirect(t) ==
  LET live == Live(entries)
      new == Cardinality(DOMAIN begun) + 1
  IN  /\ login[t].pc = "idle" /\ request[t].pc = "idle" /\ Cardinality(DOMAIN begun) < MaxLogins
      /\ IF Cardinality(DOMAIN live) >= MaxStates
         THEN entries' = live /\ refused' = TRUE /\ UNCHANGED <<login, begun>>
         ELSE /\ entries' = With(live, new, clock + Ttl) /\ begun' = With(begun, new, clock) /\ refused' = FALSE
              /\ Go(t, [pc |-> "github", state |-> new, who |-> "none"])
      /\ UNCHANGED <<sessions, revoked>> /\ UNCHANGED Others
\* the user comes back from GitHub, in this tab, or gives up
ComeBack(t, who) == /\ login[t].pc = "github" /\ Go(t, [login[t] EXCEPT !.pc = "callback", !.who = who])
                  /\ UNCHANGED <<entries, sessions, begun, refused, revoked>> /\ UNCHANGED Others
GiveUp(t) == /\ login[t].pc = "github" /\ Go(t, NoLogin)
             /\ UNCHANGED <<entries, sessions, begun, refused, revoked>> /\ UNCHANGED Others
\* the same callback URL is opened in another tab
Repeat(t, u) == /\ login[t].pc \in {"callback", "user"} /\ login[u].pc = "idle" /\ Go(u, [login[t] EXCEPT !.pc = "callback"])
                /\ UNCHANGED <<entries, sessions, begun, refused, revoked>> /\ UNCHANGED Others
\* Mutant: a state that is valid stays in the store.
ConsumeKeeps(t) ==
  LET s == login[t].state
  IN  /\ login[t].pc = "callback"
      /\ Go(t, IF s \in DOMAIN entries /\ clock < (IF s \in DOMAIN entries THEN entries[s] ELSE 0)
               THEN [login[t] EXCEPT !.pc = "user"] ELSE NoLogin)
      /\ UNCHANGED <<entries, sessions, begun, refused, revoked>> /\ UNCHANGED Others
\* GET /auth/github/callback: Consume takes the state out, valid or not
Consume(t) ==
  LET s == login[t].state
  IN  /\ login[t].pc = "callback" /\ entries' = Without(entries, {s})
      /\ Go(t, IF s \in DOMAIN entries /\ clock < (IF s \in DOMAIN entries THEN entries[s] ELSE 0)
               THEN [login[t] EXCEPT !.pc = "user"] ELSE NoLogin)
      /\ UNCHANGED <<sessions, begun, refused, revoked>> /\ UNCHANGED Others
\* the code is exchanged, user and organisations are fetched (without the
\* organisations when that fails), and the allowlist decides; any other failure
\* ends the login; then the user is upserted and the session inserted
IsUserAllowed(who, orgs) == who \in Allowed \/ (orgs /\ who \in Members)
HandleGitHubCallback(t) ==
  LET who == login[t].who
      s == login[t].state
  IN  /\ login[t].pc = "user" /\ Go(t, NoLogin)
      /\ \/ /\ \E orgs \in BOOLEAN : IsUserAllowed(who, orgs)
            /\ sessions' = With(sessions, s, [who |-> who, until |-> clock + SessionLife,
                                              count |-> 1 + (IF s \in DOMAIN sessions THEN sessions[s].count ELSE 0)])
         \/ UNCHANGED sessions
      /\ UNCHANGED <<entries, begun, refused, revoked>> /\ UNCHANGED Others

-----------------------------------------------------------------------------
\* POST /auth/logout, and the hourly cleanup
HandleLogout(s) == /\ s \in DOMAIN sessions /\ sessions' = Without(sessions, {s})
                   /\ revoked' = revoked \cup {Cred("session", s)}
                   /\ UNCHANGED <<entries, login, begun, refused>> /\ UNCHANGED Others
CleanupExpired == LET old == {s \in DOMAIN sessions : sessions[s].until < clock}
                  IN  /\ old # {} /\ sessions' = Without(sessions, old)
                      /\ revoked' = revoked \cup {Cred("session", s) : s \in old}
                      /\ UNCHANGED <<entries, login, begun, refused>> /\ UNCHANGED Others
\* POST and DELETE /api-keys
CreateApiKey(k) == /\ k \notin keys /\ Cred("key", k) \notin revoked /\ keys' = keys \cup {k}
                   /\ UNCHANGED <<clock, entries, login, sessions, begun, refused, revoked, request, restarts>>
DeleteApiKey(k) == /\ k \in keys /\ keys' = keys \ {k} /\ revoked' = revoked \cup {Cred("key", k)}
                   /\ UNCHANGED <<clock, entries, login, sessions, begun, refused, request, restarts>>

\* the middleware Auth: the key by its hash, or the session if it has not expired
ValidateKey(k) == k \in keys
ValidateSession(s) == s \in DOMAIN sessions /\ sessions[s].until > clock
Auth(t, cred) ==
  /\ request[t].pc = "idle" /\ login[t].pc = "idle"
  /\ IF cred.kind = "key" THEN ValidateKey(cred.id) ELSE ValidateSession(cred.id)
  /\ request' = [request EXCEPT ![t] = [pc |-> IF cred.kind = "key" THEN "touch" ELSE "served", cred |-> cred,
                                        fair |-> cred \notin revoked]]
  /\ UNCHANGED <<clock, entries, login, sessions, begun, refused, keys, revoked, restarts>>
\* a goroutine of its own: UPDATE ... last_used_at, of no row if the key is gone
TouchKeyUsage(t) == /\ request[t].pc = "touch" /\ request' = [request EXCEPT ![t].pc = "served"]
                    /\ keys' = keys
                    /\ UNCHANGED <<clock, entries, login, sessions, begun, refused, revoked, restarts>>
Served(t) == /\ request[t].pc = "served" /\ request' = [request EXCEPT ![t] = NoRequest]
             /\ UNCHANGED <<clock, entries, login, sessions, begun, refused, keys, revoked, restarts>>

Tock == /\ clock < MaxClock /\ clock' = clock + 1 /\ refused' = FALSE
        /\ UNCHANGED <<entries, login, sessions, begun, keys, revoked, request, restarts>>
\* the server starts again: the states are gone, what runs is cut off
Restart == /\ restarts < MaxRestarts /\ restarts' = restarts + 1 /\ entries' = Empty /\ refused' = FALSE
           /\ login' = [t \in Tabs |-> IF login[t].pc = "user" THEN NoLogin ELSE login[t]]
           /\ request' = [t \in Tabs |-> NoRequest]
           /\ UNCHANGED <<clock, sessions, begun, keys, revoked>>

SessionsNext ==
  \/ \E t \in Tabs : \/ HandleGitHubRedirect(t) \/ GiveUp(t) \/ Consume(t) \/ HandleGitHubCallback(t)
                     \/ \E who \in People : ComeBack(t, who)
                     \/ \E u \in Tabs : Repeat(t, u)
                     \/ \E s \in DOMAIN begun : Auth(t, Cred("session", s))
                     \/ \E k \in 1..MaxKeys : Auth(t, Cred("key", k))
                     \/ TouchKeyUsage(t) \/ Served(t)
  \/ \E s \in DOMAIN sessions : HandleLogout(s)
  \/ \E k \in 1..MaxKeys : CreateApiKey(k) \/ DeleteApiKey(k)
  \/ CleanupExpired \/ Tock \/ Restart
SessionsSpec == SessionsInit /\ [][SessionsNext]_sessionVars

-----------------------------------------------------------------------------
\* A login that began once gives at most one session, to a user the allowlist has
\* or may have, even when its callback is repeated, raced or survives a restart;
\* a request is let in only with a credential that nobody has revoked by then; and
\* a login is refused only when as many others began within the life of a state.
LoginsHonest ==
  /\ \A s \in DOMAIN sessions : sessions[s].count = 1 /\ sessions[s].who \in Allowed \cup Members
  /\ \A s \in DOMAIN sessions : Cred("session", s) \notin revoked
  /\ \A t \in Tabs : request[t].fair
  /\ refused => Cardinality({s \in DOMAIN begun : clock <= begun[s] + Ttl}) >= MaxStates
=============================================================================
