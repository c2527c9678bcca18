---------------------------- MODULE GithubTokens ----------------------------
(* Tokens for GitHub (internal/githubauth) and the copy of the App's          *)
(* installations that POST /github/app/sync keeps (api/github_app.go).  The    *)
(* installation of a repository and the token of an installation are cached;  *)
(* each cache is read in one critical section and filled in another, with a   *)
(* request to GitHub in between, by polls, scans and sync requests at once.    *)
EXTENDS Integers, FiniteSets

CONSTANTS Callers,        \* goroutines that want a token for a repository
          Syncers,        \* requests to synchronise
          GhRepos, Insts, \* repositories, installation ids
          NoInst,
          Setups,         \* the environments to check: see env
          Life, Margin,   \* how long a token lives, and how much of that the cache leaves unused
          MaxNow, MaxMoved, MaxErrs \* bounds: clock, changes at GitHub, failing requests

ASSUME TokensAssumption == /\ NoInst \notin Insts /\ Setups \subseteq [app : BOOLEAN, default : BOOLEAN, static : BOOLEAN]
                           /\ Life \in Nat /\ Margin \in Nat /\ Margin < Life

VARIABLES env,    \* app: id and private key are set (loadPrivateKey); default: so is
                  \* GITHUB_APP_INSTALLATION_ID; static: so is GITHUB_TOKEN; fixed at start
          default,\* that id
          gh,     \* GitHub: the installation of each repository
          now,
          ids,    \* cache: repository -> installation
          tokens, \* cache: installation -> when the token expires, or 0
          job,    \* what each goroutine is doing
          saved,  \* github_app_repositories, by installation
          past,   \* history: what gh was
          moved, errs

tokenVars == <<env, default, gh, now, ids, tokens, job, saved, past, moved, errs>>

Workers == Callers \cup Syncers
Errors == {"unauthorized", "limited", "other"}
NoJob == [pc |-> "idle", repo |-> "none", inst |-> NoInst, since |-> 0, expires |-> 0, by |-> "none", err |-> "none",
          todo |-> {}, listed |-> {}]

TokensInit == /\ env \in Setups /\ default \in IF env.default THEN Insts ELSE {NoInst}
              /\ gh \in [GhRepos -> Insts \cup {NoInst}] /\ now = 0
              /\ ids = [r \in GhRepos |-> NoInst] /\ tokens = [i \in Insts |-> 0]
              /\ job = [w \in Workers |-> NoJob]
              /\ saved = [i \in Insts |-> {}] /\ past = {gh} /\ moved = 0 /\ errs = 0

Become(w, j) == job' = [job EXCEPT ![w] = j]
\* a request to GitHub that is refused or lost
Refused(w, e) == /\ errs < MaxErrs /\ errs' = errs + 1
                 /\ Become(w, [NoJob EXCEPT !.pc = "failed", !.err = e, !.repo = job[w].repo])
                 /\ UNCHANGED <<gh, now, ids, tokens, saved, past, moved>>

-----------------------------------------------------------------------------
\* TokenForRepo: the cache of installations, else the default, else a request
TokenForRepo(w, repo) ==
  /\ w \in Callers /\ job[w].pc = "idle"
  /\ LET j == [NoJob EXCEPT !.repo = repo, !.since = now]
     IN  \/ ~env.app /\ Become(w, [j EXCEPT !.pc = "failed", !.err = "not configured"])
         \/ env.app /\ ids[repo] # NoInst /\ Become(w, [j EXCEPT !.pc = "token", !.inst = ids[repo]])
         \/ env.app /\ ids[repo] = NoInst /\ default # NoInst /\ Become(w, [j EXCEPT !.pc = "token", !.inst = default])
         \/ env.app /\ ids[repo] = NoInst /\ default = NoInst /\ Become(w, [j EXCEPT !.pc = "lookup"])
  /\ UNCHANGED <<gh, now, ids, tokens, saved, past, moved, errs>>
\* the answer to GET /repos/{owner}/{repo}/installation
installationIDForRepo(w) ==
  /\ job[w].pc = "lookup"
  /\ \/ /\ \/ gh[job[w].repo] = NoInst /\ Become(w, [job[w] EXCEPT !.pc = "failed", !.err = "no installation"])
           \/ gh[job[w].repo] # NoInst /\ Become(w, [job[w] EXCEPT !.pc = "fill", !.inst = gh[job[w].repo]])
        /\ UNCHANGED <<gh, now, ids, tokens, saved, past, moved, errs>>
     \/ \E e \in Errors : Refused(w, e)
FillInstallation(w) ==
  /\ job[w].pc = "fill" /\ ids' = [ids EXCEPT ![job[w].repo] = job[w].inst]
  /\ Become(w, [job[w] EXCEPT !.pc = "token"])
  /\ UNCHANGED <<gh, now, tokens, saved, past, moved, errs>>
\* installationToken: a cached one that will live for a while yet, else a request
\* Mutant: the margin is forgotten.
StillAlive(expires) == now < expires
StillFresh(expires) == now < expires - Margin
CachedToken(w) ==
  /\ job[w].pc = "token"
  /\ \/ /\ StillFresh(tokens[job[w].inst])
        /\ Become(w, [job[w] EXCEPT !.pc = "got", !.by = "app", !.expires = tokens[job[w].inst]])
     \/ /\ ~StillFresh(tokens[job[w].inst])
        /\ Become(w, [job[w] EXCEPT !.pc = "mint", !.since = now])
  /\ UNCHANGED <<gh, now, ids, tokens, saved, past, moved, errs>>
\* POST /app/installations/{id}/access_tokens: GitHub knows the id or does not
Installed(i) == \E r \in GhRepos : gh[r] = i
installationToken(w) ==
  /\ job[w].pc = "mint"
  /\ \/ /\ \/ Installed(job[w].inst) /\ Become(w, [job[w] EXCEPT !.pc = "store", !.expires = now + Life])
           \/ ~Installed(job[w].inst) /\ Become(w, [job[w] EXCEPT !.pc = "failed", !.err = "other"])
        /\ UNCHANGED <<gh, now, ids, tokens, saved, past, moved, errs>>
     \/ \E e \in Errors : Refused(w, e)
StoreToken(w) ==
  /\ job[w].pc = "store" /\ tokens' = [tokens EXCEPT ![job[w].inst] = job[w].expires]
  /\ Become(w, [job[w] EXCEPT !.pc = "got", !.by = "app"])
  /\ UNCHANGED <<gh, now, ids, saved, past, moved, errs>>
\* the chain: the static token takes over when the App has nothing to offer
MayFallBack(e) == e \in {"not configured", "no installation"}
ChainFallback(w) ==
  /\ w \in Callers /\ job[w].pc = "failed" /\ MayFallBack(job[w].err) /\ env.static
  /\ Become(w, [job[w] EXCEPT !.pc = "got", !.by = "static"])
  /\ UNCHANGED <<gh, now, ids, tokens, saved, past, moved, errs>>
\* the caller has its token or its error and goes on
Finish(w) == /\ w \in Callers
             /\ job[w].pc = "got" \/ (job[w].pc = "failed" /\ ~(MayFallBack(job[w].err) /\ env.static))
             /\ Become(w, NoJob) /\ UNCHANGED <<gh, now, ids, tokens, saved, past, moved, errs>>

-----------------------------------------------------------------------------
\* POST /github/app/sync: 422 unless configured; the installations, then for each
\* of them its row, its repositories, and their replacement in one transaction
Sync(w) ==
  /\ w \in Syncers /\ job[w].pc = "idle" /\ env.app
  /\ \/ /\ Become(w, [NoJob EXCEPT !.pc = "next", !.todo = {gh[r] : r \in GhRepos} \ {NoInst}])
        /\ UNCHANGED <<gh, now, ids, tokens, saved, past, moved, errs>>
     \/ \E e \in Errors : Refused(w, e)
UpsertGitHubAppInstallation(w, i) ==
  /\ w \in Syncers /\ job[w].pc = "next" /\ i \in job[w].todo
  /\ Become(w, [NoJob EXCEPT !.pc = "token", !.inst = i, !.todo = job[w].todo \ {i}])
  /\ UNCHANGED <<gh, now, ids, tokens, saved, past, moved, errs>>
ListInstallationRepositories(w) ==
  /\ w \in Syncers /\ job[w].pc = "got"
  /\ \/ LET list == {r \in GhRepos : gh[r] = job[w].inst}
        IN  /\ Become(w, [NoJob EXCEPT !.pc = "replace", !.inst = job[w].inst, !.todo = job[w].todo, !.listed = list])
            /\ UNCHANGED <<gh, now, ids, tokens, saved, past, moved, errs>>
     \/ \E e \in Errors : Refused(w, e)
\* Mutant: the old rows are not deleted.
AddGitHubAppRepositories(w) ==
  /\ job[w].pc = "replace"
  /\ saved' = [saved EXCEPT ![job[w].inst] = @ \cup job[w].listed]
  /\ Become(w, [NoJob EXCEPT !.pc = "next", !.todo = job[w].todo])
  /\ UNCHANGED <<gh, now, ids, tokens, past, moved, errs>>
\* two replacements of one installation at once: the second one's inserts meet the
\* first one's rows and it fails as a whole, which is an error like any other
ReplaceGitHubAppRepositories(w) ==
  /\ job[w].pc = "replace"
  /\ \/ /\ saved' = [saved EXCEPT ![job[w].inst] = job[w].listed]
        /\ Become(w, [NoJob EXCEPT !.pc = "next", !.todo = job[w].todo])
        /\ UNCHANGED <<gh, now, ids, tokens, past, moved, errs>>
     \/ Refused(w, "other")
SyncAnswer(w) == /\ w \in Syncers /\ (job[w].pc = "failed" \/ (job[w].pc = "next" /\ job[w].todo = {}))
                 /\ Become(w, NoJob) /\ UNCHANGED <<gh, now, ids, tokens, saved, past, moved, errs>>

-----------------------------------------------------------------------------
Tick == /\ now < MaxNow /\ now' = now + 1
        /\ UNCHANGED <<gh, ids, tokens, job, saved, past, moved, errs>>
\* the App is installed, moved to another account or removed
Reinstall(r, i) == /\ moved < MaxMoved /\ moved' = moved + 1 /\ gh[r] # i /\ gh' = [gh EXCEPT ![r] = i]
                   /\ past' = past \cup {gh'}
                   /\ UNCHANGED <<now, ids, tokens, job, saved, errs>>

TokensStep == \/ \E w \in Workers :
                   \/ \E r \in GhRepos : TokenForRepo(w, r)
                   \/ installationIDForRepo(w) \/ FillInstallation(w) \/ CachedToken(w) \/ installationToken(w)
                   \/ StoreToken(w) \/ ChainFallback(w) \/ Finish(w)
                   \/ Sync(w) \/ ListInstallationRepositories(w) \/ ReplaceGitHubAppRepositories(w) \/ SyncAnswer(w)
                   \/ \E i \in Insts : UpsertGitHubAppInstallation(w, i)
              \/ Tick
              \/ \E r \in GhRepos, i \in Insts \cup {NoInst} : Reinstall(r, i)
TokensNext == TokensStep /\ UNCHANGED <<env, default>>
TokensSpec == TokensInit /\ [][TokensNext]_tokenVars

-----------------------------------------------------------------------------
\* Whoever is given an installation token could use it when asking for it, however
\* slowly another goroutine stores an older one over a newer one in between: the
\* token outlives the moment the cache was last read for it by more than the
\* margin.  And "auth-not-configured and installation-missing errors allow
\* fallback; authorization/rate-limit errors do not": the static token is only
\* used by a caller the App provider knows no installation for, no request of
\* which was refused.
TokenUsable ==
  /\ \A w \in Workers : job[w].pc = "got" /\ job[w].by = "app" =>
       job[w].expires > job[w].since + Margin /\ job[w].inst # NoInst
  /\ \A w \in Callers : job[w].by = "static" =>
       job[w].inst = NoInst /\ (env.app => job[w].err = "no installation" /\ default = NoInst)

\* What is stored of an installation is a list GitHub gave out, whole, never a mix
\* of two, whichever requests to synchronise overlap or fail half-way.
SavedIsSnapshot == \A i \in Insts : saved[i] = {} \/ \E g \in past : saved[i] = {r \in GhRepos : g[r] = i}
=============================================================================
