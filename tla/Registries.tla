----------------------------- MODULE Registries -----------------------------
(* The clients of the registries (internal/ingestion): one poll of one        *)
(* repository, request by request, while its owners push and remove tags and  *)
(* publish releases.  Two clients walk through pages of tags, GitHub's takes   *)
(* one page of releases and one of tags, the others make one request.  What    *)
(* happens to the results is in Ingestion.                                      *)
EXTENDS Integers, Sequences, FiniteSets, FiniteSetsExt, SequencesExt

CONSTANTS Providers,   \* the values of sources.provider to check
          Tags,        \* tags, numbered in the lexical order registries list them in
          DateSets,    \* where the date of an image may be found: subsets of Places
          PageSize,    \* tags per page of a walk; releases or tags of a single page
          MaxChanges, MaxErrors \* bounds: changes upstream, failing requests

Places == {"annotation", "config", "child"}
ASSUME RegistriesAssumption == /\ Tags \subseteq Nat \ {0} /\ PageSize \in Nat \ {0}
                               /\ DateSets \subseteq SUBSET Places

VARIABLES up,      \* the repository: each tag's state, when it was pushed, where its date is
          poll,    \* the poll: pc, provider, cursor, tags still without a date, results so far
          always,  \* history: tag and state as they have been since the poll began
          ever,    \* history: tags that were there at some time of the poll
          broken,  \* history: the tags one of whose requests failed
          crowded, \* history: there were more releases than a page holds
          changes, misses

registryVars == <<up, poll, always, ever, broken, crowded, changes, misses>>

Absentee == [state |-> "absent", at |-> 0, dates |-> {}]
AtRest == [pc |-> "idle", provider |-> "none", last |-> 0, left |-> <<>>, found |-> <<>>]
There(u) == {t \in Tags : u[t].state # "absent"}
\* a release has a tag: drafts are not published yet, and a "bare" tag has none;
\* at PyPI a bare version is one without files
Released(u) == {t \in Tags : u[t].state = "released"}
Drafted(u) == {t \in Tags : u[t].state = "draft"}

RegistriesInit == /\ up = [t \in Tags |-> Absentee] /\ poll = AtRest
                  /\ always = {} /\ ever = {} /\ broken = {} /\ crowded = FALSE /\ changes = 0 /\ misses = 0

-----------------------------------------------------------------------------
\* what a registry answers: the newest of S, or the next of S in lexical order
NewestOf(S) == {t \in S : Cardinality({u \in S : up[u].at > up[t].at}) < PageSize}
NextOf(S, last) == {t \in S : t > last /\ Cardinality({u \in S : last < u /\ u < t}) < PageSize}

Result(t, kind, date) == [version |-> t, kind |-> kind, date |-> date]
\* in lexical order: the i-th of S has i - 1 before it
Sorted(S) == [i \in 1..Cardinality(S) |-> CHOOSE t \in S : Cardinality({u \in S : u < t}) = i - 1]
AsList(S, kind) == LET s == Sorted(S)
                   IN  [i \in DOMAIN s |-> Result(s[i], kind, IF up[s[i]].dates = {} THEN "zero" ELSE "given")]

\* the providers there is a client for; other sources are skipped when loaded
BuildSource(provider) == provider \in {"dockerhub", "github", "ecr-public", "ghcr", "gitlab", "pypi", "npm"}
LoadEnabledSources(provider) ==
  /\ poll.pc = "idle" /\ BuildSource(provider)
  /\ poll' = [AtRest EXCEPT !.pc = "first", !.provider = provider]
  /\ always' = {<<t, up[t].state>> : t \in There(up)} /\ ever' = There(up)
  /\ broken' = {} /\ crowded' = (Cardinality(Released(up) \cup Drafted(up)) > PageSize)
  /\ UNCHANGED <<up, changes, misses>>

Client(provider, pc) == poll.provider = provider /\ poll.pc = pc
Continue(p) == poll' = p /\ UNCHANGED <<up, always, ever, broken, crowded, changes, misses>>
Over == /\ poll' = AtRest /\ always' = {} /\ ever' = {} /\ broken' = {} /\ crowded' = FALSE
        /\ UNCHANGED <<up, changes>>
Done(found) == Continue([poll EXCEPT !.pc = "done", !.found = found])
\* any failure but that of a date ends the poll without results
Fails == /\ poll.pc \in {"first", "tags"} /\ misses < MaxErrors /\ misses' = misses + 1
         /\ Over

DockerHubFetch == Client("dockerhub", "first") /\ Done(AsList(NewestOf(There(up)), "tag"))
\* an upcoming release is a prerelease
GitLabFetch == Client("gitlab", "first") /\ Done(AsList(NewestOf(Released(up)), "release"))
\* all versions, without the two keys of the map that are none
NpmFetch == Client("npm", "first") /\ Done(AsList(There(up), "tag"))
\* all versions with files, dated by the earliest one
PyPIFetch == Client("pypi", "first") /\ Done(AsList(Released(up), "tag"))

-----------------------------------------------------------------------------
\* GitHub: the releases, of which drafts are skipped (who asks may not see them
\* either)
fetchReleases ==
  /\ Client("github", "first")
  /\ \E visible \in {Released(up), Released(up) \cup Drafted(up)}, releasesOnly \in BOOLEAN :
       LET found == AsList(NewestOf(visible) \ Drafted(up), "release")
       IN  IF releasesOnly THEN Done(found) ELSE Continue([poll EXCEPT !.pc = "tags", !.found = found])
\* one page of tags, in an order of GitHub's own; those seen as a release are skipped
fetchTags ==
  /\ Client("github", "tags")
  /\ LET all == There(up)
         seen == {r.version : r \in Range(poll.found)}
     IN  \E page \in kSubset(Min({PageSize, Cardinality(all)}), all) :
           Continue([poll EXCEPT !.pc = "dates", !.left = Sorted(page \ seen)])

\* The walks.  The client sends the cursor it got and stops when it gets none.
More(page) == page # {} /\ \E t \in There(up) : t > Max(page)
\* Mutant: only the first page.
fetchTagsPageOnce ==
  /\ Client("ghcr", "first")
  /\ Continue([poll EXCEPT !.pc = "dates", !.left = Sorted(NextOf(There(up), poll.last))])
fetchTagsPage ==
  /\ Client("ghcr", "first")
  /\ LET page == NextOf(There(up), poll.last)
         list == poll.left \o Sorted(page)
     IN  Continue(IF More(page) THEN [poll EXCEPT !.last = Max(page), !.left = list]
                  ELSE [poll EXCEPT !.pc = "dates", !.left = list])
\* here the date comes with the tag; without one the image counts as pushed now
fetchImageTags ==
  /\ Client("ecr-public", "first")
  /\ LET page == NextOf(There(up), poll.last)
         list == AsList(page, "tag")
         found == poll.found \o [i \in DOMAIN list |-> [list[i] EXCEPT !.date = IF @ = "zero" THEN "now" ELSE @]]
     IN  IF More(page) THEN Continue([poll EXCEPT !.last = Max(page), !.found = found]) ELSE Done(found)

-----------------------------------------------------------------------------
\* a request to GHCR: when a token is demanded, it is fetched and the request
\* repeated once
fetchBearerToken(realm, answered) == realm /\ answered
doRegistryRequest(first, token, second) == first = "ok" \/ (first = "unauthorized" /\ token /\ second = "ok")
RegistryAnswers == {doRegistryRequest(first, fetchBearerToken(realm, answered), second) :
                first \in {"ok", "unauthorized", "error"}, realm \in BOOLEAN, answered \in BOOLEAN, second \in {"ok", "error"}}
\* the date of an image: annotation of the manifest, else its configuration, else
\* the latest annotation of its children
fetchTagMetadata(dates, manifest, config) ==
  CASE ~manifest -> "zero"
    [] manifest /\ "annotation" \in dates -> "annotation"
    [] manifest /\ "annotation" \notin dates /\ "config" \in dates /\ config -> "config"
    [] OTHER -> IF "child" \in dates THEN "child" ELSE "zero"

\* the next tag gets its date
Dated(provider, kind, date, failed) ==
  /\ Client(provider, "dates") /\ poll.left # <<>>
  /\ failed => misses < MaxErrors
  /\ misses' = misses + (IF failed THEN 1 ELSE 0)
  /\ broken' = IF failed THEN broken \cup {Head(poll.left)} ELSE broken
  /\ poll' = [poll EXCEPT !.left = Tail(@), !.found = Append(@, Result(Head(poll.left), kind, date))]
  /\ UNCHANGED <<up, always, ever, crowded, changes>>
\* what is removed meanwhile has no manifest, and may have no commit, any more
DatesOf(t) == IF up[t].state = "absent" THEN {} ELSE up[t].dates
GhcrMetadata == poll.left # <<>> /\ \E manifest \in RegistryAnswers, config \in RegistryAnswers :
  Dated("ghcr", "tag", fetchTagMetadata(DatesOf(Head(poll.left)), manifest, config), ~manifest \/ ~config)
tagCommitDate == poll.left # <<>> /\ \E ok \in BOOLEAN :
  Dated("github", "tag", IF ok /\ DatesOf(Head(poll.left)) # {} THEN "given" ELSE "zero", ~ok)
Finished == poll.pc = "dates" /\ poll.left = <<>> /\ Continue([poll EXCEPT !.pc = "done"])
\* the orchestrator takes the results
FetchNewReleases == poll.pc = "done" /\ Over /\ UNCHANGED misses

-----------------------------------------------------------------------------
\* the repository changes: a tag is pushed, a release drafted or published, a tag removed
Upstream(t, row) ==
  /\ changes < MaxChanges /\ changes' = changes + 1 /\ up' = [up EXCEPT ![t] = row]
  /\ always' = always \cap {<<x, up'[x].state>> : x \in There(up')}
  /\ ever' = IF poll = AtRest THEN {} ELSE ever \cup There(up')
  /\ crowded' = (poll # AtRest /\ (crowded \/ Cardinality(Released(up') \cup Drafted(up')) > PageSize))
  /\ UNCHANGED <<poll, broken, misses>>
Push(t, dates) == /\ up[t].state = "absent"
                  /\ Upstream(t, [state |-> "bare", at |-> changes + 1, dates |-> dates])
Publish(t, state) == /\ up[t].state \in {"bare", "draft"} /\ state # up[t].state
                     /\ Upstream(t, [up[t] EXCEPT !.state = state])
RemoveTag(t) == up[t].state # "absent" /\ Upstream(t, Absentee)

RegistriesNext ==
  \/ \E p \in Providers : LoadEnabledSources(p)
  \/ Fails \/ DockerHubFetch \/ GitLabFetch \/ NpmFetch \/ PyPIFetch \/ fetchReleases \/ fetchTags
  \/ fetchTagsPage \/ fetchImageTags \/ GhcrMetadata \/ tagCommitDate \/ Finished \/ FetchNewReleases
  \/ \E t \in Tags : \/ \E dates \in DateSets : Push(t, dates)
                     \/ \E s \in {"draft", "released"} : Publish(t, s)
                     \/ RemoveTag(t)
RegistriesSpec == RegistriesInit /\ [][RegistriesNext]_registryVars

-----------------------------------------------------------------------------
\* What a poll returns, however the repository changes between its requests:
\* every version once, none that was not there; walks and the two complete lists
\* leave out nothing that was there all the time; a version that was a release
\* all the time is returned as one (a tag carries no prerelease flag and would
\* pass the filter for it) as long as the releases fit on their page, and a draft
\* never is; and a date is missing only if there is none or a request for it
\* failed.
PollFaithful ==
  poll.pc = "done" =>
    LET found == poll.found
        versions == {r.version : r \in Range(found)}
        Remained(states) == {t \in Tags : \E s \in states : <<t, s>> \in always}
        states == {"bare", "draft", "released"}
    IN  /\ Cardinality(versions) = Len(found) /\ versions \subseteq ever
        /\ poll.provider \in {"ghcr", "ecr-public", "npm"} => Remained(states) \subseteq versions
        /\ poll.provider = "pypi" => Remained({"released"}) \subseteq versions
        /\ poll.provider = "github" /\ ~crowded =>
             /\ Remained({"released"}) \subseteq versions
             /\ \A r \in Range(found) : r.version \in Remained({"released"}) => r.kind = "release"
             /\ \A r \in Range(found) : r.version \in Remained({"bare", "draft"}) => r.kind = "tag"
        /\ \A r \in Range(found) : r.date = "zero" /\ r.version \in Remained(states) =>
             up[r.version].dates = {} \/ r.version \in broken
=============================================================================
