---------------------------- MODULE ReleaseLists ----------------------------
(* The lists of releases (pgstore.go, api/releases.go), the filters of a      *)
(* source, which SQL applies to the lists and Go to the notifications, the    *)
(* agent rules of a project, and the two normalisations of a version, one in  *)
(* Go (gate/version.go) and one in SQL.  One project; other modules model how  *)
(* releases are stored and agent runs carried out.                             *)
EXTENDS Integers, Sequences, FiniteSets, FiniteSetsExt, SequencesExt

CONSTANTS Srcs,         \* the sources of the project, each with a provider of its own
          Vers,         \* versions: [pre, nums, tail], letters v or V, one to three numbers, a suffix
          Patterns,     \* filters: [kind, matches], see Matches
          RulePattern,  \* the versions the pattern of the agent rules matches
          Dates,        \* release dates
          MaxMoves      \* bound on steps

ASSUME ListsAssumption ==
  /\ Vers \subseteq [pre : Seq({"v", "V"}), nums : Seq(Nat), tail : STRING]
  /\ "" \notin Srcs   \* a query that names no provider asks for all of them
  /\ Dates \subseteq Nat /\ \E last \in Dates : \A d \in Dates : d <= last
  /\ MaxMoves \in Nat

VARIABLES flt,     \* the filters of each source
          rels,    \* the releases stored: source, version, the prerelease flag of raw_data, date
          active,  \* agent_runs that are pending or running: version, and the release that led to the run
          reports, \* semantic_releases by created_at: version, urgency, linked releases, what led to it
          verdict, \* the last decision on agent rules
          moves

listVars == <<flt, rels, active, reports, verdict, moves>>

NoVer == [pre |-> <<>>, nums |-> <<>>, tail |-> ""]
NoFilter == [kind |-> "null", matches |-> {}]
NoVerdict == [rules |-> {}, new |-> NoVer, old |-> NoVer, newest |-> FALSE, fired |-> FALSE]
Urgencies == {"high", "low"}

ListsInit == /\ flt = [s \in Srcs |-> [include |-> NoFilter, exclude |-> NoFilter, noPre |-> TRUE]]
             /\ rels = {} /\ active = {} /\ reports = <<>> /\ verdict = NoVerdict /\ moves = 0

-----------------------------------------------------------------------------
\* a regular expression: "" matches every version, a broken one is an error
Matches(p, v) == p.kind = "empty" \/ v \in p.matches
Broken(p) == p.kind = "broken"

\* the filter in Go: nil and "" are no filter, an error does not pass
VersionPassesFilter(v, include, exclude) ==
  /\ include.kind \in {"null", "empty"} \/ (~Broken(include) /\ Matches(include, v))
  /\ exclude.kind \in {"null", "empty"} \/ (~Broken(exclude) /\ ~Matches(exclude, v))
\* the notify worker lets the release through
Announces(r) == /\ VersionPassesFilter(r.version, flt[r.source].include, flt[r.source].exclude)
                /\ ~(flt[r.source].noPre /\ r.prerelease = "true")

\* the filter in SQL: a clause of WHERE, and the column "excluded"
Kept(r) == LET f == flt[r.source] IN
  /\ f.include.kind = "null" \/ Matches(f.include, r.version)
  /\ f.exclude.kind = "null" \/ ~Matches(f.exclude, r.version)
  /\ ~f.noPre \/ r.prerelease # "true"
\* Mutant: the flag for prereleases is forgotten.
ExcludedByPattern(r) == LET f == flt[r.source] IN
  \/ f.include.kind # "null" /\ ~Matches(f.include, r.version)
  \/ f.exclude.kind # "null" /\ Matches(f.exclude, r.version)
Excluded(r) == LET f == flt[r.source] IN
  \/ f.include.kind # "null" /\ ~Matches(f.include, r.version)
  \/ f.exclude.kind # "null" /\ Matches(f.exclude, r.version)
  \/ f.noPre /\ r.prerelease = "true"

\* one leading v, then one leading V, go; the rest becomes lower case
LowerCase(pre) == [i \in DOMAIN pre |-> "v"]
Behead(pre, c) == IF pre # <<>> /\ Head(pre) = c THEN Tail(pre) ELSE pre
NormalizeVersion(v) == [v EXCEPT !.pre = LowerCase(Behead(Behead(@, "v"), "V"))]
\* LOWER(TRIM(LEADING 'v' FROM TRIM(LEADING 'V' FROM version)))
TrimLeading(pre, c) == LET keep == {i \in DOMAIN pre : pre[i] # c}
                       IN  IF keep = {} THEN <<>> ELSE SubSeq(pre, Min(keep), Len(pre))
\* Mutant: only the small letter is trimmed.
SqlNormalizeSmall(v) == [v EXCEPT !.pre = LowerCase(TrimLeading(@, "v"))]
SqlNormalize(v) == [v EXCEPT !.pre = LowerCase(TrimLeading(TrimLeading(@, "V"), "v"))]

\* the row of a release: the newest report of its version or linked to it, else
\* a run on its version, as written or as SQL normalises it
ReportsOn(r) == {i \in DOMAIN reports : reports[i].version = r.version \/ r \in reports[i].links}
Info(r) == CASE ReportsOn(r) # {} -> [status |-> "completed", urgency |-> reports[Max(ReportsOn(r))].urgency]
             [] ReportsOn(r) = {} /\ \E a \in active : a.version \in {r.version, SqlNormalize(r.version)} ->
                  [status |-> "processing", urgency |-> ""]
             [] OTHER -> [status |-> "", urgency |-> ""]

\* A list: total, from a query of its own that knows no urgency, and rows; an
\* error when the database meets a broken pattern
Queries(S, all, q) ==
  LET Where(r) == /\ all \/ Kept(r)
                  /\ q.provider \in {"", r.source} /\ q.from <= r.at /\ r.at <= q.to
  IN  [err |-> \E r \in S : Broken(flt[r.source].include) \/ Broken(flt[r.source].exclude),
       total |-> Cardinality({r \in S : Where(r)}),
       rows |-> {[rel |-> r, excluded |-> all /\ Excluded(r), info |-> Info(r)] :
                   r \in {x \in S : Where(x) /\ q.urgency \in {"", Info(x).urgency}}}]
ListAllReleases(all, q) == Queries(rels, all, q)
ListReleasesBySource(s, all, q) == Queries({r \in rels : r.source = s}, all, q)
ListReleasesByProject(all, q) == Queries({r \in rels : r.source \in Srcs}, all, q)
\* a query string: provider, urgency and dates, where a date that does not parse
\* counts as absent
ParseReleaseFilters(provider, urgency, from, to) ==
  [provider |-> provider, urgency |-> urgency, from |-> IF from \in Nat THEN from ELSE 0,
   to |-> IF to \in Nat THEN to ELSE Max(Dates)]
NoQuery == ParseReleaseFilters("", "", -1, -1)

-----------------------------------------------------------------------------
\* Mutant: the "v" is not taken off.
parseVersionPlain(v) ==
  LET n == Len(v.nums)
      Part(k) == IF k > n \/ (k = n /\ k < 3 /\ v.tail # "") THEN 0 ELSE v.nums[k]
  IN  [major |-> IF v.pre = <<>> THEN Part(1) ELSE 0, minor |-> Part(2)]
\* strconv.Atoi of a part of the version: 0 unless the part is a number.  The
\* first part keeps the letters that one "v" does not account for; the last one
\* keeps the suffix, except for the third, which is cut at "-"
parseVersion(v) ==
  LET n == Len(v.nums)
      Part(k) == IF k > n \/ (k = n /\ k < 3 /\ v.tail # "") THEN 0 ELSE v.nums[k]
  IN  [major |-> IF Behead(v.pre, "v") = <<>> THEN Part(1) ELSE 0, minor |-> Part(2)]
isSecurityPatch(v) == v.tail = "-security"
CheckAgentRules(rules, new, old) ==
  LET n == parseVersion(new)
      o == parseVersion(old)
  IN  \/ "major" \in rules /\ n.major > o.major
      \/ "minor" \in rules /\ (n.major > o.major \/ n.minor > o.minor)
      \/ "security" \in rules /\ isSecurityPatch(new)
      \/ "pattern" \in rules /\ new \in RulePattern
\* the most recent other version of the source
Previous(r) == {p \in rels : p.source = r.source /\ p.version # r.version /\
                  \A x \in rels : x.source = r.source /\ x.version # r.version => x.at <= p.at}

-----------------------------------------------------------------------------
Move == moves < MaxMoves /\ moves' = moves + 1
\* PUT /sources/{id}
SetFilter(s, include, exclude, noPre) ==
  /\ Move /\ flt' = [flt EXCEPT ![s] = [include |-> include, exclude |-> exclude, noPre |-> noPre]]
  /\ verdict' = NoVerdict /\ UNCHANGED <<rels, active, reports>>
\* a poll stores a release of a version the source did not have
StoreRelease(s, v, prerelease, at) ==
  /\ Move /\ ~\E r \in rels : r.source = s /\ r.version = v
  /\ rels' = rels \cup {[source |-> s, version |-> v, prerelease |-> prerelease, at |-> at]}
  /\ verdict' = NoVerdict /\ UNCHANGED <<flt, active, reports>>
\* the notify worker, on a project without a gate: the rules decide on a run
checkAgentRules(r, rules) ==
  /\ Move /\ Announces(r)
  /\ \E old \in IF Previous(r) = {} THEN {NoVer} ELSE {p.version : p \in Previous(r)} :
       LET fired == CheckAgentRules(rules, r.version, old)
       IN  /\ active' = IF fired THEN active \cup {[version |-> r.version, for |-> r]} ELSE active
           /\ verdict' = [rules |-> rules, new |-> r.version, old |-> old, fired |-> fired,
                          newest |-> \A x \in rels : x.source = r.source => x.at < r.at \/ x = r]
  /\ UNCHANGED <<flt, rels, reports>>
\* a gate that opens starts a run on the normalised version
GateRun(r) == /\ Move /\ active' = active \cup {[version |-> NormalizeVersion(r.version), for |-> r]}
              /\ verdict' = NoVerdict /\ UNCHANGED <<flt, rels, reports>>
\* a run ends with its report, linked to the listed releases of its version; a
\* second report on a version is refused by the database and the run fails
Report(a, urgency) ==
  LET same == {x \in rels : Kept(x) /\ NormalizeVersion(x.version) = NormalizeVersion(a.version)}
  IN  /\ Move /\ a \in active /\ active' = active \ {a}
      /\ ~ListReleasesByProject(FALSE, NoQuery).err
      /\ reports' = IF \E i \in DOMAIN reports : reports[i].version = a.version THEN reports
                    ELSE Append(reports, [version |-> a.version, urgency |-> urgency, links |-> same, for |-> a.for,
                                          listed |-> a.for \in same])
      /\ verdict' = NoVerdict /\ UNCHANGED <<flt, rels>>
FailRun(a) == /\ Move /\ a \in active /\ active' = active \ {a}
              /\ verdict' = NoVerdict /\ UNCHANGED <<flt, rels, reports>>
DeleteSemanticRelease(i) == /\ Move /\ reports' = RemoveAt(reports, i)
                            /\ verdict' = NoVerdict /\ UNCHANGED <<flt, rels, active>>
\* the migrations at the next start link reports and releases of one version
Backfill == /\ Move
            /\ reports' = [i \in DOMAIN reports |->
                 [reports[i] EXCEPT !.links = @ \cup {r \in rels : SqlNormalize(r.version) = SqlNormalize(reports[i].version)}]]
            /\ verdict' = NoVerdict /\ UNCHANGED <<flt, rels, active>>

ListsNext == \/ \E s \in Srcs, include \in Patterns, exclude \in Patterns, noPre \in BOOLEAN : SetFilter(s, include, exclude, noPre)
             \/ \E s \in Srcs, v \in Vers, pre \in {"null", "true"}, at \in Dates : StoreRelease(s, v, pre, at)
             \/ \E r \in rels : GateRun(r) \/ \E rules \in SUBSET {"major", "minor", "security", "pattern"} : checkAgentRules(r, rules)
             \/ \E a \in active : FailRun(a) \/ \E u \in Urgencies : Report(a, u)
             \/ \E i \in DOMAIN reports : DeleteSemanticRelease(i)
             \/ Backfill
ListsSpec == ListsInit /\ [][ListsNext]_listVars

-----------------------------------------------------------------------------
\* The lists and the notifications apply the same filters, one in SQL, one in Go:
\* unless a pattern is the empty string, a list without excluded releases has
\* exactly those the notify worker lets through; the list with them marks exactly
\* the others; and the total counts the rows when no urgency is asked for.
FiltersAgree ==
  LET Plain(p) == p.kind # "empty"
      Rel(rows) == {x.rel : x \in rows}
  IN  \A s \in Srcs : Plain(flt[s].include) /\ Plain(flt[s].exclude) =>
        LET few == ListReleasesBySource(s, FALSE, NoQuery)
            all == ListReleasesBySource(s, TRUE, NoQuery)
        IN  few.err \/ /\ Rel(few.rows) = {r \in rels : r.source = s /\ Announces(r)}
                       /\ Rel({x \in all.rows : ~x.excluded}) = Rel(few.rows)
                       /\ few.total = Cardinality(few.rows)
                       /\ few.rows \subseteq ListAllReleases(FALSE, NoQuery).rows \cap ListReleasesByProject(FALSE, NoQuery).rows
                       /\ \A u \in Urgencies : LET q == ParseReleaseFilters(s, u, 0, -1)
                                               IN  ListAllReleases(TRUE, q).rows \subseteq all.rows

\* A release whose version has at most one letter in front shows the run it led
\* to, started by the rules on the version as it is or by a gate on the
\* normalised one: as processing, and, if the list had the release when the run
\* ended, with the report or a newer one from then on.
RunsShown ==
  \A r \in rels : Len(r.version.pre) <= 1 =>
    /\ (\E a \in active : a.for = r) => Info(r).status # ""
    /\ \A i \in DOMAIN reports : reports[i].for = r /\ reports[i].listed =>
         Info(r).status = "completed" /\ \E j \in ReportsOn(r) : j >= i

\* For versions of three numbers with at most a "v" in front, and the newest
\* release of its source being an upgrade: the major rule fires exactly when the
\* first number grew, the minor rule when one of the first two did.
RulesFollowUpgrades ==
  LET n == verdict.new
      o == verdict.old
      Regular(v) == Len(v.nums) = 3 /\ v.pre \in {<<>>, <<"v">>}
      Upgrade == n.nums[1] > o.nums[1] \/ (n.nums[1] = o.nums[1] /\ n.nums[2] >= o.nums[2])
  IN  verdict.newest /\ Regular(n) /\ Regular(o) /\ Upgrade =>
        /\ verdict.rules = {"major"} => (verdict.fired <=> n.nums[1] # o.nums[1])
        /\ verdict.rules = {"minor"} => (verdict.fired <=> SubSeq(n.nums, 1, 2) # SubSeq(o.nums, 1, 2))
=============================================================================
