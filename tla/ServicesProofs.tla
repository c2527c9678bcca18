--------------------------- MODULE ServicesProofs ---------------------------
(***************************************************************************)
(* Proofs about four services around the pipeline, which share no state:   *)
(* the lists of releases with their filters and rules (ReleaseLists), the  *)
(* stream of events (Events), the onboarding scans (Onboarding) and the    *)
(* registry clients (Registries).  Each part has an inductive invariant of *)
(* its own: ListsInv, EventsInv, OnboardInv and RegistriesInv.              *)
(***************************************************************************)
EXTENDS ReleaseLists, Events, Onboarding, Registries, FiniteSetTheorems, SequenceTheorems, TLAPS

(***************************************************************************)
(* ReleaseLists, for any sources, versions, patterns and dates.            *)
(***************************************************************************)
AnyVer == Vers \cup {NormalizeVersion(v) : v \in Vers}
Filters == [include : Patterns \cup {NoFilter}, exclude : Patterns \cup {NoFilter}, noPre : BOOLEAN]
StoredRels == [source : Srcs, version : Vers, prerelease : {"null", "true"}, at : Dates]

StoredReports == [version : AnyVer, urgency : Urgencies, links : SUBSET rels, for : rels, listed : BOOLEAN]

ListsTypeOK ==
    /\ flt \in [Srcs -> Filters]
    /\ rels \subseteq StoredRels
    /\ IsFiniteSet(rels)
    /\ active \subseteq [version : AnyVer, for : rels]
    /\ reports \in Seq(StoredReports)

\* A run is on the version of the release that led to it, as it is or normalised,
\* and its report, if the list had the release, is linked to it.
RunsOnVersion == \A a \in active : a.version \in {a.for.version, NormalizeVersion(a.for.version)}
ReportsLinked == \A i \in DOMAIN reports : reports[i].listed => reports[i].for \in reports[i].links

\* The last decision is what the rules say of the two versions.
Verdicts ==
    \/ verdict = NoVerdict
    \/ /\ verdict.new \in Vers /\ verdict.old \in Vers \cup {NoVer}
       /\ verdict.fired = CheckAgentRules(verdict.rules, verdict.new, verdict.old)

ListsInv == ListsTypeOK /\ RunsOnVersion /\ ReportsLinked /\ Verdicts
-----------------------------------------------------------------------------
LEMMA LatestDate == Max(Dates) \in Dates /\ \A d \in Dates : d <= Max(Dates)
<1> PICK last \in Dates : \A d \in Dates : d <= last  BY ListsAssumption
<1>1. \A d \in Dates : last >= d  BY ListsAssumption
<1> HIDE DEF Max
<1>2. Max(Dates) \in Dates /\ \A d \in Dates : Max(Dates) >= d
    BY <1>1, Zenon DEF Max
<1> QED  BY <1>2, ListsAssumption

LEMMA InitLists == ListsInit => ListsInv
<1> SUFFICES ASSUME ListsInit PROVE ListsInv  OBVIOUS
<1> USE DEF ListsInit
<1>1. flt \in [Srcs -> Filters]  BY DEF Filters
<1>2. IsFiniteSet(rels)  BY FS_EmptySet
<1>3. reports \in Seq(StoredReports)  OBVIOUS
<1>6. ListsTypeOK  BY <1>1, <1>2, <1>3 DEF ListsTypeOK
<1>4. DOMAIN reports = {}  BY DEF ListsInit
<1>5. RunsOnVersion /\ ReportsLinked /\ Verdicts  BY <1>4 DEF RunsOnVersion, ReportsLinked, Verdicts
<1> QED  BY <1>5, <1>6 DEF ListsInv

-----------------------------------------------------------------------------
\* A step that leaves runs and reports alone: it changes a filter or stores a
\* release.
LEMMA StoreKeeps ==
    ASSUME ListsInv, flt' \in [Srcs -> Filters],
           rels \subseteq rels', rels' \subseteq StoredRels, IsFiniteSet(rels'),
           UNCHANGED <<active, reports>>, Verdicts'
    PROVE  ListsInv'
<1> USE DEF ListsInv
<1>1. active \subseteq [version : AnyVer, for : rels']
    BY DEF ListsTypeOK
<1>2. StoredReports \subseteq StoredReports'
    BY DEF StoredReports
<1>3. reports \in Seq(StoredReports')
    BY <1>2, SeqMonotonic DEF ListsTypeOK
<1>4. ListsTypeOK'  BY <1>1, <1>3 DEF ListsTypeOK
<1>5. RunsOnVersion' /\ ReportsLinked'  BY DEF RunsOnVersion, ReportsLinked
<1> QED  BY <1>4, <1>5

LEMMA SetFilterKeeps ==
    ASSUME ListsInv, NEW s \in Srcs, NEW include \in Patterns, NEW exclude \in Patterns, NEW noPre \in BOOLEAN,
           SetFilter(s, include, exclude, noPre)
    PROVE  ListsInv'
<1>1. [include |-> include, exclude |-> exclude, noPre |-> noPre] \in Filters
    BY DEF Filters
<1>2. flt' \in [Srcs -> Filters]
    BY <1>1 DEF SetFilter, ListsInv, ListsTypeOK
<1>3. rels' = rels /\ UNCHANGED <<active, reports>> /\ Verdicts'
    BY DEF SetFilter, Verdicts
<1> QED  BY <1>2, <1>3, StoreKeeps DEF ListsInv, ListsTypeOK

LEMMA StoreReleaseKeeps ==
    ASSUME ListsInv, NEW s \in Srcs, NEW v \in Vers, NEW pre \in {"null", "true"}, NEW at \in Dates,
           StoreRelease(s, v, pre, at)
    PROVE  ListsInv'
<1> DEFINE r == [source |-> s, version |-> v, prerelease |-> pre, at |-> at]
<1>1. r \in StoredRels  BY DEF StoredRels
<1>2. rels' = rels \cup {r} /\ UNCHANGED <<flt, active, reports>> /\ Verdicts'
    BY DEF StoreRelease, Verdicts
<1>3. IsFiniteSet(rels')  BY <1>2, FS_AddElement DEF ListsInv, ListsTypeOK
<1> HIDE DEF r
<1> QED  BY <1>1, <1>2, <1>3, StoreKeeps DEF ListsInv, ListsTypeOK

\* A step that starts or ends runs and leaves the rest alone.
LEMMA RunsKeep ==
    ASSUME ListsInv, UNCHANGED <<flt, rels, reports>>, Verdicts',
           \A a \in active' : \/ a \in active
                              \/ /\ a \in [version : AnyVer, for : rels]
                                 /\ a.version \in {a.for.version, NormalizeVersion(a.for.version)}
    PROVE  ListsInv'
<1> USE DEF ListsInv
<1>1. ListsTypeOK'  BY DEF ListsTypeOK, StoredReports
<1>2. RunsOnVersion' /\ ReportsLinked'  BY DEF RunsOnVersion, ReportsLinked
<1> QED  BY <1>1, <1>2

LEMMA RuleRunKeeps ==
    ASSUME ListsInv, NEW r \in rels, NEW rules, checkAgentRules(r, rules)
    PROVE  ListsInv'
<1> DEFINE a == [version |-> r.version, for |-> r]
<1>1. r.version \in Vers /\ \A p \in rels : p.version \in Vers
    BY DEF ListsInv, ListsTypeOK, StoredRels
<1>2. PICK old \in IF Previous(r) = {} THEN {NoVer} ELSE {p.version : p \in Previous(r)} :
        /\ active' = IF CheckAgentRules(rules, r.version, old) THEN active \cup {a} ELSE active
        /\ verdict' = [rules |-> rules, new |-> r.version, old |-> old, fired |-> CheckAgentRules(rules, r.version, old),
                       newest |-> \A x \in rels : x.source = r.source => x.at < r.at \/ x = r]
    BY DEF checkAgentRules
<1>3. old \in Vers \cup {NoVer}  BY <1>1, <1>2 DEF Previous
<1>4. Verdicts'
    <2> DEFINE f == CheckAgentRules(rules, r.version, old)
               n == \A x \in rels : x.source = r.source => x.at < r.at \/ x = r
    <2>1. verdict' = [rules |-> rules, new |-> r.version, old |-> old, fired |-> f, newest |-> n]
        BY <1>2
    <2>2. verdict'.rules = rules /\ verdict'.new = r.version /\ verdict'.old = old /\ verdict'.fired = f
        <3> HIDE DEF f, n
        <3> QED  BY <2>1, Zenon
    <2>3. verdict'.fired = CheckAgentRules(verdict'.rules, verdict'.new, verdict'.old)
        BY <2>2, Zenon
    <2> QED  BY <1>1, <1>3, <2>2, <2>3, Zenon DEF Verdicts
<1>5. a \in [version : AnyVer, for : rels] /\ a.version = a.for.version
    BY <1>1 DEF AnyVer
<1>6. UNCHANGED <<flt, rels, reports>>  BY DEF checkAgentRules
<1> HIDE DEF a
<1>7. \A x \in active' : x \in active \/ x = a  BY <1>2
<1> QED  BY <1>4, <1>5, <1>6, <1>7, RunsKeep

LEMMA GateRunKeeps ==
    ASSUME ListsInv, NEW r \in rels, GateRun(r)
    PROVE  ListsInv'
<1> DEFINE w == NormalizeVersion(r.version)
           a == [version |-> w, for |-> r]
<1>1. w \in AnyVer  BY DEF ListsInv, ListsTypeOK, StoredRels, AnyVer
<1>2. active' = active \cup {a} /\ UNCHANGED <<flt, rels, reports>> /\ Verdicts'
    BY DEF GateRun, Verdicts
<1> HIDE DEF w
<1>3. a \in [version : AnyVer, for : rels] /\ a.version = w /\ a.for = r
    BY <1>1
<1> HIDE DEF a
<1> QED  BY <1>2, <1>3, RunsKeep DEF w

LEMMA FailRunKeeps ==
    ASSUME ListsInv, NEW a \in active, FailRun(a)
    PROVE  ListsInv'
<1>1. active' \subseteq active /\ UNCHANGED <<flt, rels, reports>> /\ Verdicts'
    BY DEF FailRun, Verdicts
<1> QED  BY <1>1, RunsKeep

\* A step that changes the reports.
LEMMA ReportsKeep ==
    ASSUME ListsInv, UNCHANGED <<flt, rels>>, active' \subseteq active, Verdicts',
           reports' \in Seq(StoredReports),
           ReportsLinked'
    PROVE  ListsInv'
<1> USE DEF ListsInv
<1>1. ListsTypeOK'  BY DEF ListsTypeOK, StoredReports
<1>2. RunsOnVersion'  BY DEF RunsOnVersion
<1> QED  BY <1>1, <1>2

LEMMA ReportKeeps ==
    ASSUME ListsInv, NEW a \in active, NEW u \in Urgencies, Report(a, u)
    PROVE  ListsInv'
<1> DEFINE same == {x \in rels : Kept(x) /\ NormalizeVersion(x.version) = NormalizeVersion(a.version)}
           listed == a.for \in same
           new == [version |-> a.version, urgency |-> u, links |-> same, for |-> a.for, listed |-> listed]
<1>1. /\ active' = active \ {a} /\ UNCHANGED <<flt, rels>> /\ Verdicts'
      /\ reports' = reports \/ reports' = Append(reports, new)
    BY DEF Report, Verdicts
<1>2. same \subseteq rels /\ a.version \in AnyVer /\ a.for \in rels /\ reports \in Seq(StoredReports) /\ listed \in BOOLEAN
    BY DEF ListsInv, ListsTypeOK
<1>3. listed => a.for \in same  OBVIOUS
<1> HIDE DEF same, listed
<1>4. new \in StoredReports /\ (new.listed => new.for \in new.links)
    BY <1>2, <1>3 DEF StoredReports
<1> HIDE DEF new
<1>5. reports' \in Seq(StoredReports)  BY <1>1, <1>2, <1>4
<1>6. ReportsLinked'
    <2>1. CASE reports' = reports
        BY <2>1 DEF ReportsLinked, ListsInv
    <2>2. CASE reports' = Append(reports, new)
        BY <1>2, <1>4, <2>2 DEF ReportsLinked, ListsInv
    <2> QED  BY <1>1, <2>1, <2>2
<1> QED  BY <1>1, <1>5, <1>6, ReportsKeep

LEMMA DeleteReportKeeps ==
    ASSUME ListsInv, NEW i \in DOMAIN reports, DeleteSemanticRelease(i)
    PROVE  ListsInv'
<1>1. reports' = SubSeq(reports, 1, i - 1) \o SubSeq(reports, i + 1, Len(reports)) /\ UNCHANGED <<flt, rels, active>> /\ Verdicts'
    BY DEF DeleteSemanticRelease, RemoveAt, Verdicts
<1>2. reports \in Seq(StoredReports)  BY DEF ListsInv, ListsTypeOK
<1> DEFINE front == SubSeq(reports, 1, i - 1)
           back == SubSeq(reports, i + 1, Len(reports))
<1>3. i \in 1..Len(reports) /\ Len(reports) \in Nat  BY <1>2
<1>4. /\ front \in Seq(StoredReports) /\ Len(front) = i - 1
      /\ \A k \in 1..(i - 1) : front[k] = reports[k]
    BY <1>2, <1>3
<1>5. /\ back \in Seq(StoredReports) /\ Len(back) = Len(reports) - i
      /\ \A k \in 1..(Len(reports) - i) : back[k] = reports[i + k]
    BY <1>2, <1>3
<1> HIDE DEF front, back
<1>6. reports' = front \o back  BY <1>1 DEF front, back
<1>7. /\ reports' \in Seq(StoredReports) /\ Len(reports') = Len(reports) - 1
      /\ \A k \in 1..(Len(reports) - 1) : reports'[k] = IF k < i THEN reports[k] ELSE reports[k + 1]
    BY <1>3, <1>4, <1>5, <1>6
<1>8. \A k \in DOMAIN reports' : \E j \in DOMAIN reports : reports'[k] = reports[j]
    BY <1>2, <1>3, <1>7
<1>9. ReportsLinked'  BY <1>8 DEF ReportsLinked, ListsInv
<1> QED  BY <1>1, <1>7, <1>9, ReportsKeep

LEMMA BackfillKeeps ==
    ASSUME ListsInv, Backfill
    PROVE  ListsInv'
<1> DEFINE On(i) == {r \in rels : SqlNormalize(r.version) = SqlNormalize(reports[i].version)}
<1>1. reports' = [i \in DOMAIN reports |-> [reports[i] EXCEPT !.links = @ \cup On(i)]]
    BY DEF Backfill
<1>2. UNCHANGED <<flt, rels, active>> /\ Verdicts'  BY DEF Backfill, Verdicts
<1>3. reports \in Seq(StoredReports)  BY DEF ListsInv, ListsTypeOK
<1>4. \A i \in DOMAIN reports : On(i) \subseteq rels  OBVIOUS
<1> HIDE DEF On
<1>5. \A i \in DOMAIN reports : /\ reports'[i] \in StoredReports
                                /\ reports'[i].listed = reports[i].listed /\ reports'[i].for = reports[i].for
                                /\ reports[i].links \subseteq reports'[i].links
    <2> TAKE i \in DOMAIN reports
    <2>1. reports[i] \in StoredReports  BY <1>3
    <2>2. reports'[i] = [reports[i] EXCEPT !.links = @ \cup On(i)]  BY <1>1
    <2> QED  BY <2>1, <2>2, <1>4 DEF StoredReports
<1>6. reports' \in Seq(StoredReports) /\ DOMAIN reports' = DOMAIN reports
    <2>1. DOMAIN reports = 1..Len(reports) /\ Len(reports) \in Nat  BY <1>3
    <2>2. reports' \in [1..Len(reports) -> StoredReports]  BY <1>1, <1>5, <2>1
    <2> QED  BY <2>1, <2>2
<1>7. ReportsLinked'  BY <1>5, <1>6 DEF ReportsLinked, ListsInv
<1> QED  BY <1>2, <1>6, <1>7, ReportsKeep

LEMMA NextLists == ListsInv /\ [ListsNext]_listVars => ListsInv'
<1> SUFFICES ASSUME ListsInv, [ListsNext]_listVars PROVE ListsInv'
    OBVIOUS
<1>1. CASE UNCHANGED listVars
    <2>1. Verdicts'  BY <1>1 DEF Verdicts, ListsInv, listVars
    <2> QED  BY <1>1, <2>1, StoreKeeps DEF ListsInv, ListsTypeOK, listVars
<1>2. CASE \E s \in Srcs, include \in Patterns, exclude \in Patterns, noPre \in BOOLEAN : SetFilter(s, include, exclude, noPre)
    BY <1>2, SetFilterKeeps
<1>3. CASE \E s \in Srcs, v \in Vers, pre \in {"null", "true"}, at \in Dates : StoreRelease(s, v, pre, at)
    BY <1>3, StoreReleaseKeeps
<1>4. ASSUME NEW r \in rels, GateRun(r) \/ \E rules \in SUBSET {"major", "minor", "security", "pattern"} : checkAgentRules(r, rules)
      PROVE  ListsInv'
    BY <1>4, GateRunKeeps, RuleRunKeeps
<1>5. ASSUME NEW a \in active, FailRun(a) \/ \E u \in Urgencies : Report(a, u) PROVE ListsInv'
    BY <1>5, FailRunKeeps, ReportKeeps
<1>6. ASSUME NEW i \in DOMAIN reports, DeleteSemanticRelease(i) PROVE ListsInv'
    BY <1>6, DeleteReportKeeps
<1>7. CASE Backfill  BY <1>7, BackfillKeeps
<1> QED  BY <1>1, <1>2, <1>3, <1>4, <1>5, <1>6, <1>7 DEF ListsNext

-----------------------------------------------------------------------------
\* A row of a list.
Row(all, r) == [rel |-> r, excluded |-> all /\ Excluded(r), info |-> Info(r)]

RowsFor(S, all, p, u) ==
    {Row(all, r) : r \in {x \in S : (all \/ Kept(x)) /\ p \in {"", x.source} /\ u \in {"", Info(x).urgency}}}

LEMMA RowOf == \A all, r : Row(all, r).rel = r /\ (Row(all, r).excluded <=> all /\ Excluded(r))
<1>1. \A a, b, c : LET x == [rel |-> a, excluded |-> b, info |-> c] IN x.rel = a /\ x.excluded = b
    OBVIOUS
<1>2. \A all, r : Row(all, r).rel = r /\ Row(all, r).excluded = (all /\ Excluded(r))
    BY <1>1, Zenon DEF Row
<1> QED  BY <1>2, Zenon

LEMMA RelsOfFew == \A S : {x.rel : x \in {Row(FALSE, r) : r \in S}} = S
<1> TAKE S
<1>1. \A r : Row(FALSE, r).rel = r  BY RowOf
<1> QED  BY <1>1

LEMMA RelsOfAll ==
    ASSUME NEW S, NEW rows, rows = {Row(TRUE, r) : r \in S}
    PROVE  {x.rel : x \in {y \in rows : ~y.excluded}} = {r \in S : ~Excluded(r)}
<1> DEFINE shown == {y \in rows : ~y.excluded}
<1>1. \A r : Row(TRUE, r).rel = r /\ (Row(TRUE, r).excluded <=> Excluded(r))  BY RowOf, Zenon
<1>2. \A x \in shown : \E r \in S : x = Row(TRUE, r) /\ ~Excluded(r)  BY <1>1, Zenon
<1>3. \A r \in S : ~Excluded(r) => Row(TRUE, r) \in shown  BY <1>1, Zenon
<1>4. \A r : Row(TRUE, r).rel = r  BY <1>1, Zenon
<1> HIDE DEF shown
<1>5. {x.rel : x \in shown} = {r \in S : ~Excluded(r)}  BY <1>2, <1>3, <1>4
<1> QED  BY <1>5 DEF shown

LEMMA DatesBounded == ListsInv => \A r \in rels : 0 <= r.at /\ r.at <= Max(Dates)
<1> SUFFICES ASSUME ListsInv, NEW r \in rels PROVE 0 <= r.at /\ r.at <= Max(Dates)
    OBVIOUS
<1>1. r.at \in Dates  BY DEF ListsInv, ListsTypeOK, StoredRels
<1>2. r.at \in Nat /\ r.at <= Max(Dates)  BY <1>1, LatestDate, ListsAssumption
<1> QED  BY <1>2

\* What a list shows that is asked for nothing but one provider, or none, and one
\* urgency, or none: no date is beyond the bounds that stand for absent ones.
LEMMA RowsOfQuery ==
    ASSUME ListsInv, NEW S, S \subseteq rels, NEW all, NEW p, NEW u, NEW q,
           q = [provider |-> p, urgency |-> u, from |-> 0, to |-> Max(Dates)]
    PROVE  Queries(S, all, q).rows = RowsFor(S, all, p, u)
<1>1. \A r \in S : 0 <= r.at /\ r.at <= Max(Dates)
    BY DatesBounded
<1>2. q.provider = p /\ q.urgency = u /\ q.from = 0 /\ q.to = Max(Dates)
    OBVIOUS
<1> DEFINE Where(r) == /\ all \/ Kept(r)
                       /\ q.provider \in {"", r.source} /\ q.from <= r.at /\ r.at <= q.to
           rows == {[rel |-> r, excluded |-> all /\ Excluded(r), info |-> Info(r)] :
                      r \in {x \in S : Where(x) /\ q.urgency \in {"", Info(x).urgency}}}
<1>3. Queries(S, all, q).rows = rows
    BY DEF Queries
<1>4. \A x \in S : Where(x) <=> (all \/ Kept(x)) /\ p \in {"", x.source}
    BY <1>1, <1>2
<1> HIDE DEF Where
<1>5. {x \in S : Where(x) /\ q.urgency \in {"", Info(x).urgency}} =
      {x \in S : (all \/ Kept(x)) /\ p \in {"", x.source} /\ u \in {"", Info(x).urgency}}
    BY <1>2, <1>4
<1> QED  BY <1>3, <1>5 DEF Row, RowsFor

LEMMA NoQueryIs == NoQuery = [provider |-> "", urgency |-> "", from |-> 0, to |-> Max(Dates)]
BY DEF NoQuery, ParseReleaseFilters

LEMMA RowsOfNoQuery ==
    ASSUME ListsInv, NEW S, S \subseteq rels
    PROVE  /\ Queries(S, FALSE, NoQuery).rows = {Row(FALSE, r) : r \in {x \in S : Kept(x)}}
           /\ Queries(S, TRUE, NoQuery).rows = {Row(TRUE, r) : r \in S}
<1>1. \A all : Queries(S, all, NoQuery).rows = RowsFor(S, all, "", "")
    BY NoQueryIs, RowsOfQuery, Zenon
<1>2. /\ {x \in S : (FALSE \/ Kept(x)) /\ "" \in {"", x.source} /\ "" \in {"", Info(x).urgency}} = {x \in S : Kept(x)}
      /\ {x \in S : (TRUE \/ Kept(x)) /\ "" \in {"", x.source} /\ "" \in {"", Info(x).urgency}} = S
    OBVIOUS
<1>3. /\ RowsFor(S, FALSE, "", "") = {Row(FALSE, r) : r \in {x \in S : Kept(x)}}
      /\ RowsFor(S, TRUE, "", "") = {Row(TRUE, r) : r \in S}
    BY <1>2 DEF RowsFor
<1> QED  BY <1>1, <1>3

LEMMA TotalOfQuery ==
    ASSUME ListsInv, NEW S, S \subseteq rels, NEW all
    PROVE  /\ Queries(S, all, NoQuery).total = Cardinality({r \in S : all \/ Kept(r)})
           /\ Queries(S, all, NoQuery).err <=> \E r \in S : Broken(flt[r.source].include) \/ Broken(flt[r.source].exclude)
<1>1. \A r \in S : 0 <= r.at /\ r.at <= Max(Dates)
    BY DatesBounded
<1>3. NoQuery.provider = "" /\ NoQuery.from = 0 /\ NoQuery.to = Max(Dates)
    BY NoQueryIs
<1> HIDE DEF NoQuery
<1> DEFINE Where(r) == /\ all \/ Kept(r)
                       /\ NoQuery.provider \in {"", r.source} /\ NoQuery.from <= r.at /\ r.at <= NoQuery.to
<1>4. Queries(S, all, NoQuery).total = Cardinality({r \in S : Where(r)})
    BY DEF Queries
<1>5. \A x \in S : Where(x) <=> all \/ Kept(x)
    BY <1>1, <1>3
<1>6. Queries(S, all, NoQuery).err <=> \E r \in S : Broken(flt[r.source].include) \/ Broken(flt[r.source].exclude)
    BY DEF Queries
<1> HIDE DEF Where
<1>7. {r \in S : Where(r)} = {r \in S : all \/ Kept(r)}  BY <1>5
<1> QED  BY <1>4, <1>6, <1>7

\* SQL and Go agree on a release of a source whose patterns are neither empty nor
\* broken.
LEMMA SqlIsGo ==
    ASSUME ListsInv, NEW r \in rels,
           LET f == flt[r.source] IN {f.include.kind, f.exclude.kind} \cap {"empty", "broken"} = {}
    PROVE  (Kept(r) <=> Announces(r)) /\ (Excluded(r) <=> ~Kept(r))
<1>1. r.source \in Srcs /\ flt[r.source].noPre \in BOOLEAN
    BY DEF ListsInv, ListsTypeOK, StoredRels, Filters
<1> QED  BY <1>1 DEF Kept, Announces, VersionPassesFilter, Excluded, Matches, Broken

\* The lists filter in SQL and the notifications in Go, each with its own idea of a
\* missing or broken pattern; for any patterns but the empty ones, versions and dates
\* the three lists, with and without filters, show what the notifications let through.
THEOREM ListsFilterAlike == ListsSpec => []FiltersAgree
<1>1. ListsInv => FiltersAgree
    <2> SUFFICES ASSUME ListsInv, NEW s \in Srcs,
                        flt[s].include.kind # "empty", flt[s].exclude.kind # "empty",
                        ~ListReleasesBySource(s, FALSE, NoQuery).err
                 PROVE  LET few == ListReleasesBySource(s, FALSE, NoQuery)
                            all == ListReleasesBySource(s, TRUE, NoQuery)
                            Rel(rows) == {x.rel : x \in rows}
                        IN  /\ Rel(few.rows) = {r \in rels : r.source = s /\ Announces(r)}
                            /\ Rel({x \in all.rows : ~x.excluded}) = Rel(few.rows)
                            /\ few.total = Cardinality(few.rows)
                            /\ few.rows \subseteq ListAllReleases(FALSE, NoQuery).rows \cap ListReleasesByProject(FALSE, NoQuery).rows
                            /\ \A u \in Urgencies : LET q == ParseReleaseFilters(s, u, 0, -1)
                                                    IN  ListAllReleases(TRUE, q).rows \subseteq all.rows
        BY DEF FiltersAgree
    <2> DEFINE S == {r \in rels : r.source = s}
               K == {r \in S : Kept(r)}
               few == ListReleasesBySource(s, FALSE, NoQuery)
               all == ListReleasesBySource(s, TRUE, NoQuery)
               Rel(rows) == {x.rel : x \in rows}
    <2>1. few.rows = {Row(FALSE, r) : r \in K}
        BY RowsOfNoQuery DEF ListReleasesBySource
    <2>2. all.rows = {Row(TRUE, r) : r \in S}
        BY RowsOfNoQuery DEF ListReleasesBySource
    <2>3. \A r \in S : (Kept(r) <=> Announces(r)) /\ (Excluded(r) <=> ~Kept(r))
        <3> SUFFICES ASSUME NEW r \in S PROVE (Kept(r) <=> Announces(r)) /\ (Excluded(r) <=> ~Kept(r))
            OBVIOUS
        <3>1. ~Broken(flt[s].include) /\ ~Broken(flt[s].exclude)
            BY TotalOfQuery DEF ListReleasesBySource
        <3> QED  BY <3>1, SqlIsGo DEF Broken
    <2>4. few.total = Cardinality(K)
        <3>1. few.total = Cardinality({r \in S : FALSE \/ Kept(r)})
            BY TotalOfQuery DEF ListReleasesBySource
        <3>2. {r \in S : FALSE \/ Kept(r)} = K  OBVIOUS
        <3> QED  BY <3>1, <3>2
    <2> HIDE DEF few, all
    <2>5. Rel(few.rows) = K
        <3> HIDE DEF K
        <3> QED  BY <2>1, RelsOfFew, Zenon
    <2>6. K = {r \in rels : r.source = s /\ Announces(r)}
        BY <2>3
    <2>7. Rel({x \in all.rows : ~x.excluded}) = K
        <3>1. K = {r \in S : ~Excluded(r)}  BY <2>3
        <3>2. {x.rel : x \in {y \in all.rows : ~y.excluded}} = {r \in S : ~Excluded(r)}
            <4> HIDE DEF S
            <4> QED  BY <2>2, RelsOfAll
        <3> QED  BY <3>1, <3>2
    <2>8. few.total = Cardinality(few.rows)
        <3> DEFINE f == [r \in K |-> Row(FALSE, r)]
        <3>1. f \in Bijection(K, few.rows)
            <4>1. \A r \in K : Row(FALSE, r).rel = r  BY RowOf
            <4>2. f \in [K -> few.rows]  BY <2>1
            <4>3. \A a, b \in K : f[a] = f[b] => a = b
                <5> TAKE a, b \in K
                <5>1. f[a] = Row(FALSE, a) /\ f[b] = Row(FALSE, b)  OBVIOUS
                <5> HIDE DEF f, K
                <5>2. HAVE f[a] = f[b]
                <5> QED  BY <4>1, <5>1, <5>2
            <4>4. \A t \in few.rows : \E r \in K : f[r] = t  BY <2>1
            <4> HIDE DEF f, K
            <4>5. f \in Injection(K, few.rows)  BY <4>2, <4>3, Zenon DEF Injection, IsInjective
            <4>6. f \in Surjection(K, few.rows)  BY <4>2, <4>4, Zenon DEF Surjection
            <4> QED  BY <4>5, <4>6, Zenon DEF Bijection
        <3>2. IsFiniteSet(K)  BY FS_Subset DEF ListsInv, ListsTypeOK
        <3>3. ExistsBijection(K, few.rows)  BY <3>1 DEF ExistsBijection
        <3> QED  BY <2>4, <3>2, <3>3, FS_Bijection
    <2>9. few.rows \subseteq ListAllReleases(FALSE, NoQuery).rows \cap ListReleasesByProject(FALSE, NoQuery).rows
        <3>1. ListAllReleases(FALSE, NoQuery).rows = {Row(FALSE, r) : r \in {x \in rels : Kept(x)}}
            BY RowsOfNoQuery DEF ListAllReleases
        <3>2. ListReleasesByProject(FALSE, NoQuery).rows =
                {Row(FALSE, r) : r \in {x \in {r \in rels : r.source \in Srcs} : Kept(x)}}
            BY RowsOfNoQuery DEF ListReleasesByProject
        <3> QED  BY <2>1, <3>1, <3>2
    <2>10. \A u \in Urgencies : ListAllReleases(TRUE, ParseReleaseFilters(s, u, 0, -1)).rows \subseteq all.rows
        <3> SUFFICES ASSUME NEW u \in Urgencies
                     PROVE  ListAllReleases(TRUE, ParseReleaseFilters(s, u, 0, -1)).rows \subseteq all.rows
            OBVIOUS
        <3>1. ParseReleaseFilters(s, u, 0, -1) = [provider |-> s, urgency |-> u, from |-> 0, to |-> Max(Dates)]
            BY DEF ParseReleaseFilters
        <3>2. ListAllReleases(TRUE, ParseReleaseFilters(s, u, 0, -1)).rows = RowsFor(rels, TRUE, s, u)
            BY <3>1, RowsOfQuery, Zenon DEF ListAllReleases
        <3>3. \A x \in RowsFor(rels, TRUE, s, u) : \E r \in rels : x = Row(TRUE, r) /\ s \in {"", r.source}
            BY DEF RowsFor
        <3> QED  BY <2>2, <3>2, <3>3, ListsAssumption
    <2>11. Rel({x \in all.rows : ~x.excluded}) = Rel(few.rows)
        BY <2>5, <2>7
    <2>12. Rel(few.rows) = {r \in rels : r.source = s /\ Announces(r)}
        BY <2>5, <2>6
    <2> QED  BY <2>8, <2>9, <2>10, <2>11, <2>12 DEF few, all
<1> QED  BY <1>1, InitLists, NextLists, PTL DEF ListsSpec

-----------------------------------------------------------------------------
\* With at most one letter in front the two normalisations agree.
LEMMA NormalizationsAgree ==
    ASSUME NEW v \in Vers, Len(v.pre) <= 1
    PROVE  NormalizeVersion(v) = SqlNormalize(v)
<1>1. v.pre \in Seq({"v", "V"})  BY ListsAssumption
<1>2. v.pre = <<>> \/ v.pre = <<"v">> \/ v.pre = <<"V">>
    <2>1. Len(v.pre) = 0 => v.pre = <<>>  BY <1>1
    <2>2. Len(v.pre) = 1 => v.pre[1] \in {"v", "V"} /\ v.pre = <<v.pre[1]>>  BY <1>1
    <2>3. Len(v.pre) \in Nat  BY <1>1
    <2>4. Len(v.pre) = 0 \/ Len(v.pre) = 1
        <3> DEFINE n == Len(v.pre)
        <3>1. n \in Nat /\ n <= 1  BY <2>3
        <3> HIDE DEF n
        <3>2. n = 0 \/ n = 1  BY <3>1
        <3> QED  BY <3>2 DEF n
    <2> QED  BY <2>1, <2>2, <2>4
<1>3. Behead(Behead(v.pre, "v"), "V") = TrimLeading(TrimLeading(v.pre, "V"), "v")
    <2>1. CASE v.pre = <<>>  BY <2>1 DEF Behead, TrimLeading
    <2>2. ASSUME NEW c \in {"v", "V"}, v.pre = <<c>>
          PROVE  Behead(Behead(v.pre, "v"), "V") = <<>> /\ TrimLeading(TrimLeading(v.pre, "V"), "v") = <<>>
        <3>1. Tail(<<c>>) = <<>> /\ Head(<<c>>) = c /\ <<c>> # <<>>  OBVIOUS
        <3>2. Behead(Behead(v.pre, "v"), "V") = <<>>  BY <2>2, <3>1 DEF Behead
        <3>3. CASE c = "V"
            <4>1. TrimLeading(<<c>>, "V") = <<>>  BY <3>3 DEF TrimLeading
            <4>2. TrimLeading(<<>>, "v") = <<>>  BY DEF TrimLeading
            <4> QED  BY <2>2, <3>2, <4>1, <4>2
        <3>4. CASE c = "v"
            <4>1. {i \in DOMAIN <<c>> : <<c>>[i] # "V"} = {1}  BY <3>4
            <4>2. Min({1}) = 1  BY DEF Min
            <4>4. SubSeq(<<c>>, 1, Len(<<c>>)) = <<c>>
                <5>1. <<c>> \in Seq({"v", "V"})  OBVIOUS
                <5> QED  BY <5>1, SubSeqFull
            <4>5. TrimLeading(<<c>>, "V") = SubSeq(<<c>>, 1, Len(<<c>>))
                <5> HIDE DEF Min
                <5> QED  BY <4>1, <4>2, Zenon DEF TrimLeading
            <4>3. TrimLeading(<<c>>, "v") = <<>>  BY <3>4 DEF TrimLeading
            <4> QED  BY <2>2, <3>2, <4>3, <4>4, <4>5
        <3> QED  BY <3>3, <3>4
    <2> QED  BY <1>2, <2>1, <2>2
<1> QED  BY <1>3 DEF NormalizeVersion, SqlNormalize

\* The release of a run shows it, and the release of a listed report shows that.
THEOREM ListsShowRuns == ListsSpec => []RunsShown
<1>1. ListsInv => RunsShown
    <2> SUFFICES ASSUME ListsInv, NEW r \in rels, Len(r.version.pre) <= 1
                 PROVE  /\ (\E a \in active : a.for = r) => Info(r).status # ""
                        /\ \A i \in DOMAIN reports : reports[i].for = r /\ reports[i].listed =>
                             Info(r).status = "completed" /\ \E j \in ReportsOn(r) : j >= i
        BY DEF RunsShown
    <2>1. ReportsOn(r) # {} => Info(r).status = "completed"
        BY DEF Info
    <2>2. ReportsOn(r) = {} /\ (\E a \in active : a.version \in {r.version, SqlNormalize(r.version)})
            => Info(r).status = "processing"
        BY DEF Info
    <2>3. ASSUME NEW a \in active, a.for = r PROVE a.version \in {r.version, SqlNormalize(r.version)}
        <3>1. r.version \in Vers  BY DEF ListsInv, ListsTypeOK, StoredRels
        <3>2. a.version \in {r.version, NormalizeVersion(r.version)}
            BY <2>3 DEF ListsInv, RunsOnVersion
        <3> QED  BY <3>1, <3>2, NormalizationsAgree
    <2>4. ASSUME NEW i \in DOMAIN reports, reports[i].for = r, reports[i].listed PROVE i \in ReportsOn(r) /\ i >= i
        <3>1. i \in Nat  BY DEF ListsInv, ListsTypeOK
        <3>2. r \in reports[i].links  BY <2>4 DEF ListsInv, ReportsLinked
        <3> QED  BY <3>1, <3>2 DEF ReportsOn
    <2> QED  BY <2>1, <2>2, <2>3, <2>4
<1> QED  BY <1>1, InitLists, NextLists, PTL DEF ListsSpec

\* The numbers of a regular version.
LEMMA RegularNumbers ==
    ASSUME NEW v \in Vers, Len(v.nums) = 3, v.pre \in {<<>>, <<"v">>}
    PROVE  /\ parseVersion(v).major = v.nums[1] /\ parseVersion(v).minor = v.nums[2]
           /\ v.nums \in Seq(Nat) /\ v.nums[1] \in Nat /\ v.nums[2] \in Nat
<1>1. v.nums \in Seq(Nat)  BY ListsAssumption
<1>2. Behead(v.pre, "v") = <<>>
    <2>1. Head(<<"v">>) = "v" /\ Tail(<<"v">>) = <<>>  OBVIOUS
    <2> QED  BY <2>1 DEF Behead
<1>3. parseVersion(v) = [major |-> v.nums[1], minor |-> v.nums[2]]
    BY <1>1, <1>2 DEF parseVersion
<1> QED  BY <1>1, <1>3

\* For regular versions of any size, where the newest release of its source is an
\* upgrade: the major rule fires exactly when the first number grew, the minor rule
\* exactly when one of the first two did.
THEOREM RulesFireOnUpgrades == ListsSpec => []RulesFollowUpgrades
<1>1. ListsInv => RulesFollowUpgrades
    <2> DEFINE n == verdict.new
               o == verdict.old
    <2> SUFFICES ASSUME ListsInv, Len(n.nums) = 3, n.pre \in {<<>>, <<"v">>},
                        Len(o.nums) = 3, o.pre \in {<<>>, <<"v">>},
                        n.nums[1] > o.nums[1] \/ (n.nums[1] = o.nums[1] /\ n.nums[2] >= o.nums[2])
                 PROVE  /\ verdict.rules = {"major"} => (verdict.fired <=> n.nums[1] # o.nums[1])
                        /\ verdict.rules = {"minor"} => (verdict.fired <=> SubSeq(n.nums, 1, 2) # SubSeq(o.nums, 1, 2))
        BY DEF RulesFollowUpgrades
    <2>1. n \in Vers /\ o \in Vers \cup {NoVer} /\ verdict.fired = CheckAgentRules(verdict.rules, n, o)
        <3>1. verdict # NoVerdict
            <4>1. NoVerdict.new = NoVer /\ NoVer.nums = <<>>  BY DEF NoVerdict, NoVer
            <4>2. Len(<<>>) # 3  OBVIOUS
            <4> QED  BY <4>1, <4>2, Zenon
        <3> QED  BY <3>1, Zenon DEF ListsInv, Verdicts
    <2>2. o \in Vers
        <3>1. NoVer.nums = <<>>  BY DEF NoVer
        <3>2. Len(<<>>) # 3  OBVIOUS
        <3>3. o # NoVer  BY <3>1, <3>2, Zenon
        <3> QED  BY <2>1, <3>3
    <2> HIDE DEF n, o
    <2>3. /\ parseVersion(n).major = n.nums[1] /\ parseVersion(n).minor = n.nums[2]
          /\ n.nums \in Seq(Nat) /\ n.nums[1] \in Nat /\ n.nums[2] \in Nat
        BY <2>1, RegularNumbers
    <2>4. /\ parseVersion(o).major = o.nums[1] /\ parseVersion(o).minor = o.nums[2]
          /\ o.nums \in Seq(Nat) /\ o.nums[1] \in Nat /\ o.nums[2] \in Nat
        BY <2>2, RegularNumbers
    <2>5. verdict.rules = {"major"} => (verdict.fired <=> n.nums[1] > o.nums[1])
        BY <2>1, <2>3, <2>4 DEF CheckAgentRules
    <2>6. verdict.rules = {"minor"} => (verdict.fired <=> n.nums[1] > o.nums[1] \/ n.nums[2] > o.nums[2])
        BY <2>1, <2>3, <2>4 DEF CheckAgentRules
    <2>7. SubSeq(n.nums, 1, 2) = SubSeq(o.nums, 1, 2) <=> n.nums[1] = o.nums[1] /\ n.nums[2] = o.nums[2]
        BY <2>3, <2>4
    <2> QED  BY <2>3, <2>4, <2>5, <2>6, <2>7
<1> QED  BY <1>1, InitLists, NextLists, PTL DEF ListsSpec

(***************************************************************************)
(* Events, for any clients, buffer and number of events.                   *)
(***************************************************************************)
EventIds == 1..MaxEvents
Pending == sentOut \o wire

\* What a client was sent, or will be from its buffer.
Mine(c) == got[c] \o buffer[c]

EventsTypeOK ==
    /\ open \subseteq EventIds
    /\ committed \in Seq(EventIds) /\ wire \in Seq(EventIds) /\ sentOut \in Seq(EventIds)
    /\ listening \in BOOLEAN
    /\ buffer \in [DOMAIN buffer -> Seq(EventIds)]
    /\ got \in [DOMAIN buffer -> Seq(EventIds)]
    /\ skipped \in [DOMAIN buffer -> Seq(EventIds)]
    /\ since \in [DOMAIN buffer -> Nat]
    /\ failures \in Nat

\* Events are committed once, and only committed ones are broadcast or on their way.
CommittedOnce ==
    /\ IsInjective(committed)
    /\ IsInjective(Pending)
    /\ Range(Pending) \subseteq Range(committed)
    /\ open \cap Range(committed) = {}

\* s is the end of t.
EndOf(s, t) == Len(s) <= Len(t) /\ \A i \in 1..Len(s) : s[i] = t[Len(t) - Len(s) + i]

\* While no connection was lost: nothing is broadcast before the server listens,
\* and from then on every event that is committed.
AllOnTheirWay ==
    failures = 0 => IF listening THEN EndOf(Pending, committed) ELSE Pending = <<>>

\* The events m a client is sent, and those it missed, d, are the events of s after
\* the k-th, the former in their order.
Follows(m, k, s, d) ==
    /\ \A i \in 1..Len(m) : \E x \in (k + 1)..Len(s) : s[x] = m[i]
    /\ \A i, j \in 1..Len(m) : i < j => \E x, y \in (k + 1)..Len(s) : x < y /\ s[x] = m[i] /\ s[y] = m[j]
    /\ \A x \in (k + 1)..Len(s) : (\E i \in 1..Len(m) : m[i] = s[x]) \/ (\E j \in 1..Len(d) : d[j] = s[x])
    /\ \A i \in 1..Len(m), j \in 1..Len(d) : m[i] # d[j]
    /\ \A j \in 1..Len(d) : \E x \in 1..Len(s) : s[x] = d[j]

ClientsFollow ==
    \A c \in Connected : /\ since[c] <= Len(sentOut)
                         /\ Follows(Mine(c), since[c], sentOut, skipped[c])
                         /\ skipped[c] # <<>> => Len(Mine(c)) >= Buffer

EventsInv == EventsTypeOK /\ CommittedOnce /\ AllOnTheirWay /\ ClientsFollow
-----------------------------------------------------------------------------
\* Facts about sequences.
LEMMA EndIsSuffix ==
    ASSUME NEW S, NEW s \in Seq(S), NEW t \in Seq(S), EndOf(s, t)
    PROVE  IsSuffix(s, t)
<1> DEFINE rs == Reverse(s)
           rt == Reverse(t)
<1>1. rs \in Seq(S) /\ Len(rs) = Len(s) /\ \A i \in 1..Len(s) : rs[i] = s[Len(s) - i + 1]
    BY DEF Reverse
<1>2. rt \in Seq(S) /\ Len(rt) = Len(t) /\ \A i \in 1..Len(t) : rt[i] = t[Len(t) - i + 1]
    BY DEF Reverse
<1> HIDE DEF rs, rt
<1>3. \A i \in 1..Len(s) : rs[i] = rt[i]
    <2> SUFFICES ASSUME NEW i \in 1..Len(s) PROVE rs[i] = rt[i]  OBVIOUS
    <2> DEFINE j == Len(s) - i + 1
    <2>1. Len(s) \in Nat /\ Len(t) \in Nat  OBVIOUS
    <2>2. j \in 1..Len(s) /\ i \in 1..Len(t) /\ Len(t) - Len(s) + j = Len(t) - i + 1
        BY <2>1 DEF EndOf
    <2>3. s[j] = t[Len(t) - Len(s) + j]  BY <2>2 DEF EndOf
    <2> QED  BY <1>1, <1>2, <2>2, <2>3
<1>4. Len(s) \in Nat /\ Len(t) \in Nat /\ Len(s) <= Len(t)  BY DEF EndOf
<1>5. IsPrefix(rs, rt)
    BY <1>1, <1>2, <1>3, <1>4 DEF IsPrefix
<1> QED  BY <1>5 DEF IsSuffix, rs, rt

LEMMA RangeIs == ASSUME NEW S, NEW s \in Seq(S) PROVE Range(s) = {s[i] : i \in 1..Len(s)}
BY DEF Range

\* The head of the one goes to the end of the other.
LEMMA HeadMoves ==
    ASSUME NEW S, NEW g \in Seq(S), NEW b \in Seq(S), b # <<>>
    PROVE  Append(g, Head(b)) \o Tail(b) = g \o b
OBVIOUS

LEMMA AppendToSecond ==
    ASSUME NEW S, NEW g \in Seq(S), NEW b \in Seq(S), NEW e \in S
    PROVE  g \o Append(b, e) = Append(g \o b, e)
OBVIOUS

LEMMA AppendFresh ==
    ASSUME NEW S, NEW s \in Seq(S), NEW e \in S, e \notin Range(s), IsInjective(s)
    PROVE  IsInjective(Append(s, e)) /\ Range(Append(s, e)) = Range(s) \cup {e}
<1>1. \A i \in 1..Len(s) : s[i] # e  BY RangeIs
<1>2. IsInjective(Append(s, e))  BY <1>1 DEF IsInjective
<1>3. Range(Append(s, e)) = Range(s) \cup {e}
    <2>1. Append(s, e) \in Seq(S) /\ Len(Append(s, e)) = Len(s) + 1 /\ Append(s, e)[Len(s) + 1] = e
          /\ \A i \in 1..Len(s) : Append(s, e)[i] = s[i]
        OBVIOUS
    <2> DEFINE t == Append(s, e)
    <2> HIDE DEF t
    <2>2. Range(t) = {t[i] : i \in 1..Len(t)} /\ Range(s) = {s[i] : i \in 1..Len(s)}
        BY <2>1, RangeIs DEF t
    <2>3. Len(s) \in Nat  OBVIOUS
    <2> QED  BY <2>1, <2>2, <2>3 DEF t
<1> QED  BY <1>2, <1>3

\* A client with room is told of the next event, one without misses it.
LEMMA NextFollows ==
    ASSUME NEW m \in Seq(EventIds), NEW s \in Seq(EventIds), NEW d \in Seq(EventIds), NEW k \in Nat, NEW e \in EventIds,
           k <= Len(s), Follows(m, k, s, d), \A x \in 1..Len(s) : s[x] # e
    PROVE  Follows(Append(m, e), k, Append(s, e), d) /\ Follows(m, k, Append(s, e), Append(d, e))
<1> DEFINE n == Append(m, e)
           t == Append(s, e)
           c == Append(d, e)
           M == 1..Len(m)
           S == 1..Len(s)
           D == 1..Len(d)
           K == (k + 1)..Len(s)
           p == Len(m) + 1
           q == Len(s) + 1
           w == Len(d) + 1
<1>1. Len(n) = p /\ n[p] = e /\ \A i \in M : n[i] = m[i]  OBVIOUS
<1>2. Len(t) = q /\ t[q] = e /\ \A x \in S : t[x] = s[x]  OBVIOUS
<1>3. Len(c) = w /\ c[w] = e /\ \A j \in D : c[j] = d[j]  OBVIOUS
<1> HIDE DEF n, t, c
<1>4. /\ 1..p = M \cup {p} /\ 1..q = S \cup {q} /\ 1..w = D \cup {w} /\ (k + 1)..q = K \cup {q}
      /\ K \subseteq S
      /\ \A i \in M : i < p /\ ~(p < i)
      /\ \A x \in K : x < q
      /\ ~(p < p)
    <2>1. Len(m) \in Nat /\ Len(s) \in Nat /\ Len(d) \in Nat  OBVIOUS
    <2>2. \A a \in Nat : 1..(a + 1) = (1..a) \cup {a + 1} /\ \A i \in 1..a : i < a + 1 /\ ~(a + 1 < i)
        OBVIOUS
    <2>3. \A a \in Nat : k <= a =>
            /\ (k + 1)..(a + 1) = ((k + 1)..a) \cup {a + 1}
            /\ (k + 1)..a \subseteq 1..a
            /\ \A x \in (k + 1)..a : x < a + 1
        OBVIOUS
    <2>4. ~(p < p)  BY <2>1
    <2> QED  BY <2>1, <2>2, <2>3, <2>4, Zenon
<1>5. /\ \A i \in M : \E x \in K : s[x] = m[i]
      /\ \A i, j \in M : i < j => \E x, y \in K : x < y /\ s[x] = m[i] /\ s[y] = m[j]
      /\ \A x \in K : (\E i \in M : m[i] = s[x]) \/ (\E j \in D : d[j] = s[x])
      /\ \A i \in M, j \in D : m[i] # d[j]
      /\ \A j \in D : \E x \in S : s[x] = d[j]
    BY DEF Follows
<1>6. \A x \in S : s[x] # e  OBVIOUS
<1> HIDE DEF M, S, D, K, p, q, w
<1>7. Follows(n, k, t, d)
    <2>1. \A i \in M \cup {p} : \E x \in K \cup {q} : t[x] = n[i]
        BY <1>1, <1>2, <1>4, <1>5
    <2>2. \A i, j \in M \cup {p} : i < j => \E x, y \in K \cup {q} : x < y /\ t[x] = n[i] /\ t[y] = n[j]
        <3> SUFFICES ASSUME NEW i \in M, NEW j \in M \cup {p}, i < j
                     PROVE  \E x, y \in K \cup {q} : x < y /\ t[x] = n[i] /\ t[y] = n[j]
            BY <1>4
        <3>1. CASE j = p
            <4> PICK x \in K : s[x] = m[i]  BY <1>5
            <4> QED  BY <1>1, <1>2, <1>4, <3>1
        <3>2. CASE j \in M
            <4> PICK x \in K, y \in K : x < y /\ s[x] = m[i] /\ s[y] = m[j]  BY <1>5, <3>2
            <4> QED  BY <1>1, <1>2, <1>4, <3>2
        <3> QED  BY <3>1, <3>2
    <2>3. \A x \in K \cup {q} : (\E i \in M \cup {p} : n[i] = t[x]) \/ (\E j \in D : d[j] = t[x])
        <3> TAKE x \in K \cup {q}
        <3>1. CASE x = q  BY <1>1, <1>2, <3>1
        <3>2. CASE x \in K
            <4>1. t[x] = s[x] /\ \A i \in M : n[i] = m[i]  BY <1>1, <1>2, <1>4, <3>2
            <4>2. (\E i \in M : m[i] = s[x]) \/ (\E j \in D : d[j] = s[x])  BY <1>5, <3>2
            <4> QED  BY <4>1, <4>2
        <3> QED  BY <3>1, <3>2
    <2>4. \A i \in M \cup {p}, j \in D : n[i] # d[j]
        BY <1>1, <1>2, <1>4, <1>5, <1>6
    <2>5. \A j \in D : \E x \in S \cup {q} : t[x] = d[j]
        BY <1>2, <1>4, <1>5
    <2>6. 1..Len(n) = M \cup {p} /\ (k + 1)..Len(t) = K \cup {q} /\ 1..Len(t) = S \cup {q} /\ 1..Len(d) = D
        BY <1>1, <1>2, <1>4 DEF D
    <2>7. \A i \in 1..Len(n) : \E x \in (k + 1)..Len(t) : t[x] = n[i]
        BY <2>1, <2>6
    <2>9. \A i, j \in 1..Len(n) : i < j => \E x, y \in (k + 1)..Len(t) : x < y /\ t[x] = n[i] /\ t[y] = n[j]
        <3> SUFFICES ASSUME NEW i \in 1..Len(n), NEW j \in 1..Len(n), i < j
                     PROVE  \E x, y \in (k + 1)..Len(t) : x < y /\ t[x] = n[i] /\ t[y] = n[j]
            OBVIOUS
        <3>1. i \in M \cup {p} /\ j \in M \cup {p}  BY <2>6
        <3> PICK x \in K \cup {q}, y \in K \cup {q} : x < y /\ t[x] = n[i] /\ t[y] = n[j]
            BY <2>2, <3>1
        <3>2. x \in (k + 1)..Len(t) /\ y \in (k + 1)..Len(t)  BY <2>6
        <3> QED  BY <3>2
    <2>8. /\ \A x \in (k + 1)..Len(t) : (\E i \in 1..Len(n) : n[i] = t[x]) \/ (\E j \in 1..Len(d) : d[j] = t[x])
          /\ \A i \in 1..Len(n), j \in 1..Len(d) : n[i] # d[j]
          /\ \A j \in 1..Len(d) : \E x \in 1..Len(t) : t[x] = d[j]
        BY <2>3, <2>4, <2>5, <2>6
    <2> QED  BY <2>7, <2>8, <2>9 DEF Follows
<1>8. Follows(m, k, t, c)
    <2>1. \A i \in M : \E x \in K \cup {q} : t[x] = m[i]
        BY <1>2, <1>4, <1>5
    <2>2. \A i, j \in M : i < j => \E x, y \in K \cup {q} : x < y /\ t[x] = m[i] /\ t[y] = m[j]
        <3> SUFFICES ASSUME NEW i \in M, NEW j \in M, i < j
                     PROVE  \E x, y \in K \cup {q} : x < y /\ t[x] = m[i] /\ t[y] = m[j]
            OBVIOUS
        <3> PICK x \in K, y \in K : x < y /\ s[x] = m[i] /\ s[y] = m[j]  BY <1>5
        <3> QED  BY <1>2, <1>4
    <2>3. \A x \in K \cup {q} : (\E i \in M : m[i] = t[x]) \/ (\E j \in D \cup {w} : c[j] = t[x])
        BY <1>2, <1>3, <1>4, <1>5
    <2>4. \A i \in M, j \in D \cup {w} : m[i] # c[j]
        BY <1>2, <1>3, <1>4, <1>5, <1>6
    <2>5. \A j \in D \cup {w} : \E x \in S \cup {q} : t[x] = c[j]
        BY <1>2, <1>3, <1>4, <1>5
    <2>6. 1..Len(m) = M /\ (k + 1)..Len(t) = K \cup {q} /\ 1..Len(t) = S \cup {q} /\ 1..Len(c) = D \cup {w}
        BY <1>2, <1>3, <1>4 DEF M
    <2>7. \A i \in 1..Len(m) : \E x \in (k + 1)..Len(t) : t[x] = m[i]
        BY <2>1, <2>6
    <2>9. \A i, j \in 1..Len(m) : i < j => \E x, y \in (k + 1)..Len(t) : x < y /\ t[x] = m[i] /\ t[y] = m[j]
        <3> SUFFICES ASSUME NEW i \in 1..Len(m), NEW j \in 1..Len(m), i < j
                     PROVE  \E x, y \in (k + 1)..Len(t) : x < y /\ t[x] = m[i] /\ t[y] = m[j]
            OBVIOUS
        <3>1. i \in M /\ j \in M  BY <2>6
        <3> PICK x \in K \cup {q}, y \in K \cup {q} : x < y /\ t[x] = m[i] /\ t[y] = m[j]
            BY <2>2, <3>1
        <3>2. x \in (k + 1)..Len(t) /\ y \in (k + 1)..Len(t)  BY <2>6
        <3> QED  BY <3>2
    <2>8. /\ \A x \in (k + 1)..Len(t) : (\E i \in 1..Len(m) : m[i] = t[x]) \/ (\E j \in 1..Len(c) : c[j] = t[x])
          /\ \A i \in 1..Len(m), j \in 1..Len(c) : m[i] # c[j]
          /\ \A j \in 1..Len(c) : \E x \in 1..Len(t) : t[x] = c[j]
        BY <2>3, <2>4, <2>5, <2>6
    <2> QED  BY <2>7, <2>8, <2>9 DEF Follows
<1> QED  BY <1>7, <1>8 DEF n, t, c

-----------------------------------------------------------------------------
LEMMA PendingType == EventsTypeOK => Pending \in Seq(EventIds) /\ \A c \in Connected : Mine(c) \in Seq(EventIds)
BY DEF EventsTypeOK, Pending, Mine, Connected

LEMMA InitEvents == EventsInit => EventsInv
<1> SUFFICES ASSUME EventsInit PROVE EventsInv  OBVIOUS
<1> USE DEF EventsInit
<1>1. DOMAIN buffer = {}  OBVIOUS
<1>2. EventsTypeOK
    <2>1. open = {} /\ committed = <<>> /\ wire = <<>> /\ sentOut = <<>> /\ listening = FALSE /\ failures = 0
        OBVIOUS
    <2>2. /\ buffer \in [{} -> Seq(EventIds)] /\ got \in [{} -> Seq(EventIds)]
          /\ skipped \in [{} -> Seq(EventIds)] /\ since \in [{} -> Nat]
        OBVIOUS
    <2>3. /\ open \subseteq EventIds /\ committed \in Seq(EventIds) /\ wire \in Seq(EventIds) /\ sentOut \in Seq(EventIds)
          /\ listening \in BOOLEAN /\ failures \in Nat
        <3>1. <<>> \in Seq(EventIds)  BY EmptySeq
        <3>2. listening \in BOOLEAN  OBVIOUS
        <3> HIDE DEF EventsInit
        <3> QED  BY <2>1, <3>1, <3>2
    <2>4. /\ buffer \in [DOMAIN buffer -> Seq(EventIds)] /\ got \in [DOMAIN buffer -> Seq(EventIds)]
          /\ skipped \in [DOMAIN buffer -> Seq(EventIds)] /\ since \in [DOMAIN buffer -> Nat]
        <3> HIDE DEF EventsInit
        <3> QED  BY <1>1, <2>2
    <2> QED  BY <2>3, <2>4 DEF EventsTypeOK
<1>3. Pending = <<>>  BY DEF Pending
<1>4. Range(<<>>) = {} /\ IsInjective(<<>>)  BY DEF Range, IsInjective
<1>5. CommittedOnce  BY <1>3, <1>4 DEF CommittedOnce
<1>6. AllOnTheirWay  BY <1>3 DEF AllOnTheirWay
<1>7. ClientsFollow  BY <1>1 DEF ClientsFollow, Connected
<1> QED  BY <1>2, <1>5, <1>6, <1>7 DEF EventsInv

\* The clients do not notice the transactions and the listener's comings and goings.
LEMMA ClientsUntouched ==
    ASSUME ClientsFollow, UNCHANGED <<buffer, got, since, sentOut, skipped>>
    PROVE  ClientsFollow'
BY DEF ClientsFollow, Connected, Mine

LEMMA OpenKeeps ==
    ASSUME EventsInv, NotifyReleaseCreated
    PROVE  EventsInv'
<1> USE DEF EventsInv, NotifyReleaseCreated
<1>1. EventsTypeOK'  BY DEF EventsTypeOK, EventIds
<1>2. Pending' = Pending  BY DEF Pending
<1>3. CommittedOnce'  BY <1>2 DEF CommittedOnce
<1>4. AllOnTheirWay'  BY <1>2 DEF AllOnTheirWay
<1>5. ClientsFollow'  BY ClientsUntouched
<1> QED  BY <1>1, <1>3, <1>4, <1>5

LEMMA RollbackKeeps ==
    ASSUME EventsInv, NEW e \in open, Rollback(e)
    PROVE  EventsInv'
<1> USE DEF EventsInv, Rollback
<1>1. EventsTypeOK'  BY DEF EventsTypeOK
<1>2. Pending' = Pending  BY DEF Pending
<1>3. CommittedOnce'  BY <1>2 DEF CommittedOnce
<1>4. AllOnTheirWay'  BY <1>2 DEF AllOnTheirWay
<1>5. ClientsFollow'  BY ClientsUntouched
<1> QED  BY <1>1, <1>3, <1>4, <1>5

LEMMA CommitKeeps ==
    ASSUME EventsInv, NEW e \in open, Commit(e)
    PROVE  EventsInv'
<1> USE DEF EventsInv, Commit
<1>1. e \in EventIds  BY DEF EventsTypeOK
<1>2. EventsTypeOK'
    <2>1. committed' \in Seq(EventIds) /\ wire' \in Seq(EventIds)  BY <1>1 DEF EventsTypeOK
    <2> QED  BY <2>1 DEF EventsTypeOK
<1>3. Pending' = IF listening THEN Append(Pending, e) ELSE Pending
    <2>1. sentOut \in Seq(EventIds) /\ wire \in Seq(EventIds)  BY DEF EventsTypeOK
    <2>2. sentOut \o Append(wire, e) = Append(sentOut \o wire, e)  BY <1>1, <2>1, AppendToSecond
    <2> QED  BY <2>2 DEF Pending
<1>4. /\ Pending \in Seq(EventIds) /\ committed \in Seq(EventIds)
      /\ IsInjective(committed) /\ IsInjective(Pending)
      /\ Range(Pending) \subseteq Range(committed)
      /\ e \notin Range(committed)
    BY PendingType DEF CommittedOnce, EventsTypeOK
<1>5. /\ IsInjective(Append(committed, e)) /\ Range(Append(committed, e)) = Range(committed) \cup {e}
      /\ IsInjective(Append(Pending, e)) /\ Range(Append(Pending, e)) = Range(Pending) \cup {e}
    BY <1>1, <1>4, AppendFresh
<1>6. committed' = Append(committed, e) /\ open' = open \ {e}  OBVIOUS
<1>7. CommittedOnce'
    <2>1. CASE listening
        BY <1>3, <1>4, <1>5, <1>6, <2>1 DEF CommittedOnce
    <2>2. CASE ~listening
        BY <1>3, <1>4, <1>5, <1>6, <2>2 DEF CommittedOnce
    <2> QED  BY <2>1, <2>2
<1>8. AllOnTheirWay'
    <2>1. ASSUME NEW s \in Seq(EventIds), NEW t \in Seq(EventIds), EndOf(s, t)
          PROVE  EndOf(Append(s, e), Append(t, e))
        <3> DEFINE a == Append(s, e)
                   b == Append(t, e)
        <3>1. /\ Len(a) = Len(s) + 1 /\ a[Len(s) + 1] = e /\ \A i \in 1..Len(s) : a[i] = s[i]
              /\ Len(b) = Len(t) + 1 /\ b[Len(t) + 1] = e /\ \A i \in 1..Len(t) : b[i] = t[i]
              /\ Len(s) \in Nat /\ Len(t) \in Nat
            BY <1>1
        <3> HIDE DEF a, b
        <3>2. Len(a) <= Len(b)  BY <2>1, <3>1 DEF EndOf
        <3>3. ASSUME NEW i \in 1..Len(a) PROVE a[i] = b[Len(b) - Len(a) + i]
            <4>1. CASE i = Len(s) + 1  BY <3>1, <4>1
            <4>2. CASE i \in 1..Len(s)
                <5>1. Len(b) - Len(a) + i = Len(t) - Len(s) + i /\ Len(t) - Len(s) + i \in 1..Len(t)
                    BY <2>1, <3>1, <4>2 DEF EndOf
                <5> QED  BY <2>1, <3>1, <4>2, <5>1 DEF EndOf
            <4> QED  BY <3>1, <4>1, <4>2
        <3> QED  BY <3>2, <3>3 DEF EndOf, a, b
    <2>2. CASE listening
        BY <1>3, <1>4, <1>6, <2>1, <2>2 DEF AllOnTheirWay
    <2>3. CASE ~listening
        BY <1>3, <2>3 DEF AllOnTheirWay
    <2> QED  BY <2>2, <2>3
<1>9. ClientsFollow'  BY ClientsUntouched
<1> QED  BY <1>2, <1>7, <1>8, <1>9

LEMMA ListenKeeps ==
    ASSUME EventsInv, Listen \/ ListenerFails
    PROVE  EventsInv'
<1> USE DEF EventsInv
<1>1. UNCHANGED <<open, committed, buffer, got, since, sentOut, skipped>>  BY DEF Listen, ListenerFails
<1>2. EventsTypeOK'
    <2>1. listening' \in BOOLEAN /\ wire' \in Seq(EventIds) /\ failures' \in Nat
        <3>1. CASE Listen  BY <3>1 DEF EventsTypeOK, Listen
        <3>2. CASE ListenerFails
            <4>1. failures' = failures + 1 /\ wire' = <<>> /\ listening' = FALSE  BY <3>2 DEF ListenerFails
            <4>2. <<>> \in Seq(EventIds)  BY EmptySeq
            <4>3. listening' \in BOOLEAN  BY <4>1, Zenon
            <4> QED  BY <4>1, <4>2, <4>3 DEF EventsTypeOK
        <3> QED  BY <3>1, <3>2
    <2> QED  BY <1>1, <2>1 DEF EventsTypeOK
<1>3. CASE Listen
    <2>1. Pending' = Pending /\ Pending = <<>>  BY <1>3 DEF Listen, Pending, AllOnTheirWay
    <2>2. CommittedOnce'  BY <1>1, <2>1 DEF CommittedOnce
    <2>3. EndOf(<<>>, committed)
        <3>1. Len(committed) \in Nat  BY DEF EventsTypeOK
        <3> QED  BY <3>1 DEF EndOf
    <2>4. AllOnTheirWay'  BY <1>1, <1>3, <2>1, <2>3 DEF AllOnTheirWay, Listen
    <2> QED  BY <1>1, <1>2, <2>2, <2>4, ClientsUntouched
<1>4. CASE ListenerFails
    <2>1. Pending' = sentOut
        <3>1. sentOut \in Seq(EventIds)  BY DEF EventsTypeOK
        <3> QED  BY <1>4, <3>1 DEF ListenerFails, Pending
    <2>2. IsInjective(sentOut) /\ Range(sentOut) \subseteq Range(committed)
        <3>1. sentOut \in Seq(EventIds) /\ wire \in Seq(EventIds) /\ Pending \in Seq(EventIds)
            BY PendingType DEF EventsTypeOK
        <3>2. \A i \in 1..Len(sentOut) : i \in 1..Len(Pending) /\ Pending[i] = sentOut[i]
            BY <3>1 DEF Pending
        <3>3. IsInjective(sentOut)
            BY <3>1, <3>2 DEF CommittedOnce, IsInjective
        <3>4. Range(sentOut) \subseteq Range(Pending)
            <4>1. Range(sentOut) = {sentOut[i] : i \in 1..Len(sentOut)} /\ Range(Pending) = {Pending[i] : i \in 1..Len(Pending)}
                BY <3>1, RangeIs
            <4> QED  BY <3>2, <4>1
        <3> QED  BY <3>3, <3>4 DEF CommittedOnce
    <2>3. CommittedOnce'  BY <1>1, <2>1, <2>2 DEF CommittedOnce
    <2>4. failures' # 0  BY <1>4 DEF ListenerFails, EventsTypeOK
    <2>5. AllOnTheirWay'  BY <2>4 DEF AllOnTheirWay
    <2> QED  BY <1>1, <1>2, <2>3, <2>5, ClientsUntouched
<1> QED  BY <1>3, <1>4

\* The broadcast: what was on its way first is broadcast, and each client gets it
\* or misses it.
LEMMA BroadcastKeeps ==
    ASSUME EventsInv, ListenForNotifications
    PROVE  EventsInv'
<1> DEFINE e == Head(wire)
           Fits(c) == Len(buffer[c]) < Buffer
<1>1. /\ wire # <<>> /\ wire' = Tail(wire) /\ sentOut' = Append(sentOut, e)
      /\ buffer' = [c \in Connected |-> IF Fits(c) THEN Append(buffer[c], e) ELSE buffer[c]]
      /\ skipped' = [c \in Connected |-> IF Fits(c) THEN skipped[c] ELSE Append(skipped[c], e)]
      /\ UNCHANGED <<open, committed, listening, got, since, failures>>
    BY DEF ListenForNotifications, Send
<1>2. /\ wire \in Seq(EventIds) /\ sentOut \in Seq(EventIds) /\ e \in EventIds
      /\ Len(sentOut) \in Nat /\ DOMAIN buffer = Connected
    BY <1>1 DEF EventsInv, EventsTypeOK, Connected
<1> HIDE DEF e
<1>3. \A c \in Connected : /\ buffer[c] \in Seq(EventIds) /\ got[c] \in Seq(EventIds) /\ skipped[c] \in Seq(EventIds)
                           /\ since[c] \in Nat
    BY DEF EventsInv, EventsTypeOK, Connected
<1>4. Connected' = Connected
    BY <1>1 DEF Connected
<1>5. EventsTypeOK'
    <2>1. wire' \in Seq(EventIds) /\ sentOut' \in Seq(EventIds)  BY <1>1, <1>2
    <2>2. buffer' \in [Connected -> Seq(EventIds)] /\ skipped' \in [Connected -> Seq(EventIds)]
        BY <1>1, <1>2, <1>3
    <2> QED  BY <1>1, <1>4, <2>1, <2>2 DEF EventsInv, EventsTypeOK, Connected
<1>6. Pending' = Pending
    BY <1>1, <1>2, HeadMoves DEF Pending, e
<1>7. CommittedOnce' /\ AllOnTheirWay'
    BY <1>1, <1>6 DEF EventsInv, CommittedOnce, AllOnTheirWay
<1>8. \A x \in 1..Len(sentOut) : sentOut[x] # e
    <2> SUFFICES ASSUME NEW x \in 1..Len(sentOut) PROVE sentOut[x] # e  OBVIOUS
    <2>1. /\ Pending[x] = sentOut[x] /\ Pending[Len(sentOut) + 1] = e
          /\ x \in DOMAIN Pending /\ Len(sentOut) + 1 \in DOMAIN Pending
        BY <1>1, <1>2 DEF Pending, e
    <2>2. x # Len(sentOut) + 1  BY <1>2
    <2> QED  BY <2>1, <2>2 DEF EventsInv, CommittedOnce, IsInjective
<1>9. ClientsFollow'
    <2> SUFFICES ASSUME NEW c \in Connected
                 PROVE  /\ since'[c] <= Len(sentOut')
                        /\ Follows(Mine(c)', since'[c], sentOut', skipped'[c])
                        /\ skipped'[c] # <<>> => Len(Mine(c)') >= Buffer
        BY <1>4 DEF ClientsFollow
    <2>1. /\ since[c] <= Len(sentOut) /\ Follows(Mine(c), since[c], sentOut, skipped[c])
          /\ skipped[c] # <<>> => Len(Mine(c)) >= Buffer
        BY DEF EventsInv, ClientsFollow
    <2>2. Mine(c) \in Seq(EventIds) /\ Len(Mine(c)) = Len(got[c]) + Len(buffer[c])
        BY <1>3 DEF Mine
    <2>3. since'[c] <= Len(sentOut')
        BY <1>1, <1>2, <1>3, <2>1
    <2>4. /\ Follows(Append(Mine(c), e), since[c], sentOut', skipped[c])
          /\ Follows(Mine(c), since[c], sentOut', Append(skipped[c], e))
        BY <1>1, <1>2, <1>3, <1>8, <2>1, <2>2, NextFollows
    <2>5. CASE Fits(c)
        <3>1. Mine(c)' = Append(Mine(c), e) /\ skipped'[c] = skipped[c]
            <4>1. buffer'[c] = Append(buffer[c], e) /\ skipped'[c] = skipped[c] /\ got' = got
                BY <1>1, <2>5
            <4>2. got[c] \o Append(buffer[c], e) = Append(got[c] \o buffer[c], e)
                <5> DEFINE g == got[c]
                           b == buffer[c]
                <5>1. g \in Seq(EventIds) /\ b \in Seq(EventIds)  BY <1>3
                <5> HIDE DEF g, b
                <5>2. g \o Append(b, e) = Append(g \o b, e)  BY <1>2, <5>1, AppendToSecond
                <5> QED  BY <5>2 DEF g, b
            <4> QED  BY <4>1, <4>2 DEF Mine
        <3>2. Len(Append(Mine(c), e)) = Len(Mine(c)) + 1 /\ Len(Mine(c)) \in Nat  BY <1>2, <2>2
        <3>3. skipped'[c] # <<>> => Len(Mine(c)') >= Buffer
            BY <2>1, <3>1, <3>2, EventsAssumption
        <3>4. Follows(Mine(c)', since'[c], sentOut', skipped'[c])
            BY <1>1, <2>4, <3>1
        <3> QED  BY <2>3, <3>3, <3>4
    <2>6. CASE ~Fits(c)
        <3>1. Mine(c)' = Mine(c) /\ skipped'[c] = Append(skipped[c], e)
            BY <1>1, <2>6 DEF Mine
        <3>2. Len(Mine(c)) >= Buffer
            <4> DEFINE g == got[c]
                       b == buffer[c]
            <4>1. g \in Seq(EventIds) /\ b \in Seq(EventIds)  BY <1>3
            <4>2. Len(Mine(c)) = Len(g) + Len(b) /\ ~(Len(b) < Buffer)  BY <2>2, <2>6
            <4> HIDE DEF g, b
            <4>3. Len(g) \in Nat /\ Len(b) \in Nat  BY <4>1
            <4> QED  BY <4>2, <4>3, EventsAssumption
        <3> QED  BY <1>1, <2>3, <2>4, <3>1, <3>2
    <2> QED  BY <2>5, <2>6
<1> QED  BY <1>5, <1>7, <1>9 DEF EventsInv

LEMMA SubscribeKeeps ==
    ASSUME EventsInv, NEW c \in Clients, Subscribe(c)
    PROVE  EventsInv'
<1>1. /\ c \notin Connected
      /\ buffer' = [d \in Connected \cup {c} |-> IF d = c THEN <<>> ELSE buffer[d]]
      /\ got' = [d \in Connected \cup {c} |-> IF d = c THEN <<>> ELSE got[d]]
      /\ since' = [d \in Connected \cup {c} |-> IF d = c THEN Len(sentOut) ELSE since[d]]
      /\ skipped' = [d \in Connected \cup {c} |-> IF d = c THEN <<>> ELSE skipped[d]]
      /\ UNCHANGED <<open, committed, wire, listening, sentOut, failures>>
    BY DEF Subscribe
<1>2. DOMAIN buffer = Connected /\ Connected' = Connected \cup {c} /\ DOMAIN buffer' = Connected \cup {c}
    BY <1>1 DEF Connected
<1>3. <<>> \in Seq(EventIds) /\ Len(sentOut) \in Nat
    BY EmptySeq DEF EventsInv, EventsTypeOK
<1>4. EventsTypeOK'
    <2>1. /\ buffer' \in [Connected \cup {c} -> Seq(EventIds)] /\ got' \in [Connected \cup {c} -> Seq(EventIds)]
          /\ skipped' \in [Connected \cup {c} -> Seq(EventIds)] /\ since' \in [Connected \cup {c} -> Nat]
        BY <1>1, <1>2, <1>3 DEF EventsInv, EventsTypeOK
    <2> QED  BY <1>1, <1>2, <2>1 DEF EventsInv, EventsTypeOK
<1>5. Pending' = Pending  BY <1>1 DEF Pending
<1>6. CommittedOnce' /\ AllOnTheirWay'
    BY <1>1, <1>5 DEF EventsInv, CommittedOnce, AllOnTheirWay
<1>7. ClientsFollow'
    <2> SUFFICES ASSUME NEW d \in Connected \cup {c}
                 PROVE  /\ since'[d] <= Len(sentOut')
                        /\ Follows(Mine(d)', since'[d], sentOut', skipped'[d])
                        /\ skipped'[d] # <<>> => Len(Mine(d)') >= Buffer
        BY <1>2 DEF ClientsFollow
    <2>1. CASE d = c
        <3>1. since'[d] = Len(sentOut) /\ skipped'[d] = <<>> /\ Mine(d)' = <<>> \o <<>>
            BY <1>1, <2>1 DEF Mine
        <3>2. Mine(d)' = <<>> /\ Len(<<>>) = 0 /\ (Len(sentOut) + 1)..Len(sentOut) = {}
            BY <1>3, <3>1
        <3>3. Follows(<<>>, Len(sentOut), sentOut, <<>>)
            BY <3>2 DEF Follows
        <3> QED  BY <1>1, <1>3, <3>1, <3>2, <3>3
    <2>2. CASE d # c
        <3>1. since'[d] = since[d] /\ skipped'[d] = skipped[d] /\ Mine(d)' = Mine(d) /\ sentOut' = sentOut
            BY <1>1, <2>2 DEF Mine
        <3> QED  BY <2>2, <3>1 DEF EventsInv, ClientsFollow
    <2> QED  BY <2>1, <2>2
<1> QED  BY <1>4, <1>6, <1>7 DEF EventsInv

LEMMA StreamKeeps ==
    ASSUME EventsInv, NEW c \in Clients, Stream(c)
    PROVE  EventsInv'
<1>1. /\ c \in Connected /\ buffer[c] # <<>>
      /\ got' = [got EXCEPT ![c] = Append(@, Head(buffer[c]))] /\ buffer' = [buffer EXCEPT ![c] = Tail(@)]
      /\ UNCHANGED <<open, committed, wire, listening, since, sentOut, skipped, failures>>
    BY DEF Stream
<1>2. DOMAIN buffer = Connected /\ Connected' = Connected
    BY <1>1 DEF Connected
<1>3. buffer[c] \in Seq(EventIds) /\ got[c] \in Seq(EventIds)
    BY <1>1, <1>2 DEF EventsInv, EventsTypeOK
<1>4. Append(got[c], Head(buffer[c])) \in Seq(EventIds) /\ Tail(buffer[c]) \in Seq(EventIds)
    BY <1>1, <1>3
<1>5. EventsTypeOK'
    <2>1. got' \in [Connected -> Seq(EventIds)] /\ buffer' \in [Connected -> Seq(EventIds)]
        BY <1>1, <1>2, <1>4 DEF EventsInv, EventsTypeOK
    <2> QED  BY <1>1, <1>2, <2>1 DEF EventsInv, EventsTypeOK, Connected
<1>6. Pending' = Pending  BY <1>1 DEF Pending
<1>7. CommittedOnce' /\ AllOnTheirWay'
    BY <1>1, <1>6 DEF EventsInv, CommittedOnce, AllOnTheirWay
<1>8. \A d \in Connected : Mine(d)' = Mine(d)
    <2> TAKE d \in Connected
    <2>1. CASE d = c
        <3>1. got'[c] = Append(got[c], Head(buffer[c])) /\ buffer'[c] = Tail(buffer[c])
            BY <1>1, <1>2 DEF EventsInv, EventsTypeOK
        <3>2. Append(got[c], Head(buffer[c])) \o Tail(buffer[c]) = got[c] \o buffer[c]
            BY <1>1, <1>3, HeadMoves
        <3> QED  BY <2>1, <3>1, <3>2 DEF Mine
    <2>2. CASE d # c
        BY <1>1, <1>2, <2>2 DEF Mine, EventsInv, EventsTypeOK
    <2> QED  BY <2>1, <2>2
<1>9. ClientsFollow'
    BY <1>1, <1>2, <1>8 DEF EventsInv, ClientsFollow
<1> QED  BY <1>5, <1>7, <1>9 DEF EventsInv

LEMMA UnsubscribeKeeps ==
    ASSUME EventsInv, NEW c \in Clients, Unsubscribe(c)
    PROVE  EventsInv'
<1> DEFINE rest == Connected \ {c}
<1>1. /\ buffer' = [d \in rest |-> buffer[d]] /\ got' = [d \in rest |-> got[d]]
      /\ since' = [d \in rest |-> since[d]] /\ skipped' = [d \in rest |-> skipped[d]]
      /\ UNCHANGED <<open, committed, wire, listening, sentOut, failures>>
    BY DEF Unsubscribe
<1>2. DOMAIN buffer = Connected /\ rest \subseteq Connected  BY DEF Connected
<1> HIDE DEF rest
<1>3. Connected' = rest /\ DOMAIN buffer' = rest  BY <1>1 DEF Connected
<1>4. EventsTypeOK'
    <2>1. /\ buffer' \in [rest -> Seq(EventIds)] /\ got' \in [rest -> Seq(EventIds)]
          /\ skipped' \in [rest -> Seq(EventIds)] /\ since' \in [rest -> Nat]
        BY <1>1, <1>2 DEF EventsInv, EventsTypeOK
    <2> QED  BY <1>1, <1>3, <2>1 DEF EventsInv, EventsTypeOK
<1>5. Pending' = Pending  BY <1>1 DEF Pending
<1>6. CommittedOnce' /\ AllOnTheirWay'
    BY <1>1, <1>5 DEF EventsInv, CommittedOnce, AllOnTheirWay
<1>7. \A d \in rest : since'[d] = since[d] /\ skipped'[d] = skipped[d] /\ Mine(d)' = Mine(d)
    BY <1>1 DEF Mine
<1>8. ClientsFollow'
    BY <1>1, <1>2, <1>3, <1>7 DEF EventsInv, ClientsFollow
<1> QED  BY <1>4, <1>6, <1>8 DEF EventsInv

LEMMA NextEvents == EventsInv /\ [EventsNext]_eventVars => EventsInv'
<1> SUFFICES ASSUME EventsInv, [EventsNext]_eventVars PROVE EventsInv'
    OBVIOUS
<1>1. CASE UNCHANGED eventVars
    BY <1>1 DEF EventsInv, eventVars, EventsTypeOK, CommittedOnce, AllOnTheirWay, ClientsFollow, Pending, Mine, Connected
<1>2. CASE NotifyReleaseCreated \/ Listen \/ ListenerFails \/ ListenForNotifications
    BY <1>2, OpenKeeps, ListenKeeps, BroadcastKeeps
<1>3. ASSUME NEW e \in open, Commit(e) \/ Rollback(e) PROVE EventsInv'
    BY <1>3, CommitKeeps, RollbackKeeps
<1>4. ASSUME NEW c \in Clients, Subscribe(c) \/ Stream(c) \/ Unsubscribe(c) PROVE EventsInv'
    BY <1>4, SubscribeKeeps, StreamKeeps, UnsubscribeKeeps
<1> QED  BY <1>1, <1>2, <1>3, <1>4 DEF EventsNext

\* However transactions commit, the listener's connection breaks and clients come and
\* go, a client gets the events that committed since it came, once and in order, but
\* those it had no room for.
THEOREM EventStreamFaithful == EventsSpec => []StreamFaithful
<1>1. EventsInv => StreamFaithful
    <2> SUFFICES ASSUME EventsInv PROVE StreamFaithful  OBVIOUS
    <2>0. /\ sentOut \in Seq(EventIds) /\ committed \in Seq(EventIds) /\ Pending \in Seq(EventIds)
          /\ DOMAIN buffer = Connected
        BY PendingType DEF EventsInv, EventsTypeOK, Connected
    <2>1. ASSUME NEW c \in Connected
          PROVE  LET mine == got[c] \o buffer[c]
                     due == SubSeq(sentOut, since[c] + 1, Len(sentOut))
                 IN  /\ IsInjective(mine) /\ Range(mine) = Range(due) \ Range(skipped[c])
                     /\ \A i, j \in DOMAIN mine : i < j =>
                          \E x, y \in DOMAIN due : x < y /\ due[x] = mine[i] /\ due[y] = mine[j]
                     /\ skipped[c] # <<>> => Len(mine) >= Buffer
        <3> DEFINE m == Mine(c)
                   k == since[c]
                   n == Len(sentOut)
                   d == skipped[c]
                   due == SubSeq(sentOut, k + 1, n)
        <3>1. m \in Seq(EventIds) /\ d \in Seq(EventIds) /\ k \in Nat /\ n \in Nat
            BY <2>0, PendingType DEF EventsInv, EventsTypeOK
        <3>2. k <= n /\ Follows(m, k, sentOut, d) /\ (d # <<>> => Len(m) >= Buffer)
            BY DEF EventsInv, ClientsFollow
        <3>3. /\ due \in Seq(EventIds) /\ Len(due) = n - k
              /\ \A x \in 1..(n - k) : due[x] = sentOut[k + x]
            <4>1. \A i \in (k + 1)..n : sentOut[i] \in EventIds  BY <2>0, <3>1
            <4> HIDE DEF k, n
            <4>2. /\ SubSeq(sentOut, k + 1, n) \in Seq(EventIds)
                  /\ Len(SubSeq(sentOut, k + 1, n)) = IF k + 1 <= n THEN n - (k + 1) + 1 ELSE 0
                  /\ \A i \in 1..(n - (k + 1) + 1) : SubSeq(sentOut, k + 1, n)[i] = sentOut[k + 1 + i - 1]
                BY <3>1, <4>1, SubSeqProperties
            <4> QED  BY <3>1, <3>2, <4>2
        <3>4. \A x, y \in 1..n : sentOut[x] = sentOut[y] => x = y
            <4>1. \A x \in 1..n : x \in DOMAIN Pending /\ Pending[x] = sentOut[x]
                BY <2>0 DEF Pending, EventsInv, EventsTypeOK
            <4> QED  BY <4>1 DEF EventsInv, CommittedOnce, IsInjective
        <3> HIDE DEF m, k, n, d, due
        <3>5. \A x \in (k + 1)..n : x - k \in 1..(n - k) /\ due[x - k] = sentOut[x] /\ x \in 1..n
            BY <3>1, <3>2, <3>3
        <3>6. \A i, j \in 1..Len(m) : i < j => \E x, y \in 1..(n - k) : x < y /\ due[x] = m[i] /\ due[y] = m[j]
            <4> SUFFICES ASSUME NEW i \in 1..Len(m), NEW j \in 1..Len(m), i < j
                         PROVE  \E x, y \in 1..(n - k) : x < y /\ due[x] = m[i] /\ due[y] = m[j]
                OBVIOUS
            <4> PICK x \in (k + 1)..n, y \in (k + 1)..n : x < y /\ sentOut[x] = m[i] /\ sentOut[y] = m[j]
                BY <3>2 DEF Follows, n
            <4>1. x - k < y - k  BY <3>1
            <4> QED  BY <3>5, <4>1
        <3>7. \A i, j \in 1..Len(m) : i < j => m[i] # m[j]
            <4> SUFFICES ASSUME NEW i \in 1..Len(m), NEW j \in 1..Len(m), i < j PROVE m[i] # m[j]
                OBVIOUS
            <4> PICK x \in (k + 1)..n, y \in (k + 1)..n : x < y /\ sentOut[x] = m[i] /\ sentOut[y] = m[j]
                BY <3>2 DEF Follows, n
            <4> QED  BY <3>4, <3>5
        <3>8. DOMAIN m = 1..Len(m) /\ Len(m) \in Nat /\ DOMAIN due = 1..(n - k)  BY <3>1, <3>3
        <3>9. IsInjective(m)
            BY <3>7, <3>8 DEF IsInjective
        <3>10. Range(m) = Range(due) \ Range(d)
            <4>1. /\ Range(m) = {m[i] : i \in 1..Len(m)} /\ Range(d) = {d[i] : i \in 1..Len(d)}
                  /\ Range(due) = {due[i] : i \in 1..(n - k)}
                BY <3>1, <3>3, RangeIs
            <4>2. \A i \in 1..Len(m) : (\E x \in 1..(n - k) : due[x] = m[i]) /\ \A j \in 1..Len(d) : m[i] # d[j]
                <5> TAKE i \in 1..Len(m)
                <5>1. PICK x \in (k + 1)..n : sentOut[x] = m[i]  BY <3>2 DEF Follows, n
                <5>2. \A j \in 1..Len(d) : m[i] # d[j]  BY <3>2 DEF Follows
                <5> QED  BY <3>5, <5>1, <5>2
            <4>3. \A x \in 1..(n - k) : (\E i \in 1..Len(m) : m[i] = due[x]) \/ (\E j \in 1..Len(d) : d[j] = due[x])
                <5> TAKE x \in 1..(n - k)
                <5>1. k + x \in (k + 1)..n /\ due[x] = sentOut[k + x]  BY <3>1, <3>3
                <5> QED  BY <3>2, <5>1 DEF Follows, n
            <4> QED  BY <4>1, <4>2, <4>3
        <3>11. \A i, j \in DOMAIN m : i < j => \E x, y \in DOMAIN due : x < y /\ due[x] = m[i] /\ due[y] = m[j]
            <4> SUFFICES ASSUME NEW i \in DOMAIN m, NEW j \in DOMAIN m, i < j
                         PROVE  \E x, y \in DOMAIN due : x < y /\ due[x] = m[i] /\ due[y] = m[j]
                OBVIOUS
            <4>1. i \in 1..Len(m) /\ j \in 1..Len(m)  BY <3>8
            <4>2. PICK x \in 1..(n - k), y \in 1..(n - k) : x < y /\ due[x] = m[i] /\ due[y] = m[j]
                BY <3>6, <4>1
            <4>3. x \in DOMAIN due /\ y \in DOMAIN due  BY <3>8
            <4> QED  BY <4>2, <4>3
        <3>12. d # <<>> => Len(m) >= Buffer  BY <3>2
        <3> QED  BY <3>9, <3>10, <3>11, <3>12, Zenon DEF m, k, n, d, due, Mine
    <2>2. IsSuffix(sentOut \o wire, committed) \/ failures > 0
        <3>1. CASE failures = 0 /\ listening
            BY <2>0, <3>1, EndIsSuffix DEF EventsInv, AllOnTheirWay, Pending
        <3>2. CASE failures = 0 /\ ~listening
            <4>1. Pending = <<>>  BY <3>2 DEF EventsInv, AllOnTheirWay
            <4>2. EndOf(Pending, committed)
                <5>1. Len(committed) \in Nat /\ Len(Pending) = 0  BY <2>0, <4>1
                <5> QED  BY <5>1 DEF EndOf
            <4> QED  BY <2>0, <4>2, EndIsSuffix DEF Pending
        <3>3. CASE failures # 0
            BY <3>3 DEF EventsInv, EventsTypeOK
        <3> QED  BY <3>1, <3>2, <3>3
    <2>3. \A e \in open : e \notin Range(sentOut \o wire)
        BY DEF EventsInv, CommittedOnce, Pending
    <2> QED  BY <2>1, <2>2, <2>3 DEF StreamFaithful
<1> QED  BY <1>1, InitEvents, NextEvents, PTL DEF EventsSpec

(***************************************************************************)
(* Onboarding, for any requests, scans, attempts and bounds.               *)
(***************************************************************************)
Stops == {"none", "mark", "fetch", "failed", "empty", "cancel", "extract", "results"}

OnboardTypeOK ==
    /\ scans \in [Scans -> [status : {"none", "pending", "processing", "completed", "failed"}, results : BOOLEAN]]
    /\ work \in [Scans -> [state : {"none", "queued", "running", "completed", "cancelled", "discarded"},
                           attempt : Nat, at : Stops]]
    /\ asking \in [Requests -> {"idle", "create", "conflict"}]
    /\ lost \subseteq Scans
    /\ raced \in BOOLEAN

\* A job and its scan come together.  While an attempt is past its first write, the
\* scan is processing; a scan that is not active has had an attempt, and is running
\* only as a later one that has not written yet.
Together ==
    \A s \in Scans :
        /\ scans[s].status = "none" <=> work[s].state = "none"
        /\ work[s].state = "running" => work[s].at # "none" /\ work[s].attempt >= 1
        /\ work[s].state = "running" /\ work[s].at # "mark" => scans[s].status = "processing"
        /\ scans[s].status \in {"completed", "failed"} => work[s].attempt >= 1
        /\ scans[s].status \in {"completed", "failed"} /\ work[s].state = "running" => work[s].attempt >= 2

Decided ==
    \A s \in Scans : Ended(s) /\ s \notin lost =>
        /\ scans[s].status \in {"completed", "failed"}
        /\ work[s].state = "completed" => scans[s].results
        /\ work[s].state = "cancelled" => scans[s].status = "failed"

\* As long as no two requests were between check and insert at once, one that is
\* there leaves room for its scan, and a scan that is older than another one is
\* active only by being tried again.
OneAsks ==
    ~raced => \A q \in Requests : asking[q] = "create" =>
        /\ \A p \in Requests : asking[p] = "create" => p = q
        /\ \A s \in Active : work[s].attempt > 1

Retried == ~raced => \A s, t \in Stored : s < t /\ s \in Active => work[s].attempt > 1

OnboardInv == OnboardTypeOK /\ Together /\ Decided /\ OneAsks /\ Retried

USE OnboardingAssumption DEF Scans, Stored, Active, Ended, Stops
-----------------------------------------------------------------------------
LEMMA InitOnboard == OnboardInit => OnboardInv
<1> SUFFICES ASSUME OnboardInit PROVE OnboardInv
    OBVIOUS
<1>1. OnboardTypeOK                  BY DEF OnboardInit, OnboardTypeOK
<1>2. \A s \in Scans : scans[s].status = "none" /\ work[s].state = "none"
    BY DEF OnboardInit
<1>3. Together /\ Decided /\ Retried  BY <1>2 DEF Together, Decided, Retried
<1>4. OneAsks                        BY DEF OnboardInit, OneAsks
<1> QED  BY <1>1, <1>3, <1>4 DEF OnboardInv

\* What River makes of an attempt that returns.
LEMMA ReturnsLeaves ==
    ASSUME OnboardTypeOK, NEW s \in Scans, NEW how \in {"nil", "error", "cancel"}, Returns(s, how)
    PROVE  \E st \in {"completed", "cancelled", "queued", "discarded"} :
             /\ work' = [work EXCEPT ![s] = [state |-> st, attempt |-> work[s].attempt, at |-> "none"]]
             /\ st = "completed" <=> how = "nil"
             /\ st = "cancelled" <=> how = "cancel"
<1> DEFINE st == CASE how = "nil" -> "completed" [] how = "cancel" -> "cancelled"
                   [] OTHER -> IF work[s].attempt < MaxAttempts THEN "queued" ELSE "discarded"
<1>1. st \in {"completed", "cancelled", "queued", "discarded"}
    OBVIOUS
<1>2. (st = "completed" <=> how = "nil") /\ (st = "cancelled" <=> how = "cancel")
    OBVIOUS
<1>3. work' = [work EXCEPT ![s] = [state |-> st, attempt |-> work[s].attempt, at |-> "none"]]
    BY DEF Returns
<1> QED  BY <1>1, <1>2, <1>3

\* A request that is answered, or that has looked and found no active scan.
LEMMA CheckKeeps ==
    ASSUME OnboardInv, NEW q \in Requests, ActiveScanForRepo(q) \/ GetOnboardScan(q)
    PROVE  OnboardInv'
<1> USE DEF OnboardInv, ActiveScanForRepo, GetOnboardScan
<1>1. OnboardTypeOK'       BY DEF OnboardTypeOK
<1>2. Together'            BY DEF Together
<1>3. Decided'             BY DEF Decided
<1>4. OneAsks'             BY DEF OnboardTypeOK, OneAsks
<1>5. Retried'             BY DEF OnboardTypeOK, Retried
<1> QED  BY <1>1, <1>2, <1>3, <1>4, <1>5

\* The new scan is the last one, and the request that stores it the only one.
LEMMA CreateKeeps ==
    ASSUME OnboardInv, NEW q \in Requests, CreateOnboardScan(q)
    PROVE  OnboardInv'
<1> USE DEF OnboardInv
<1> PICK s \in Scans : /\ Stored = 1..(s - 1)
                       /\ scans' = [scans EXCEPT ![s] = [status |-> "pending", results |-> FALSE]]
                       /\ work' = [work EXCEPT ![s] = [state |-> "queued", attempt |-> 0, at |-> "none"]]
    BY DEF CreateOnboardScan
<1>1. /\ asking[q] = "create" /\ asking' = [asking EXCEPT ![q] = "idle"]
      /\ UNCHANGED <<lost, raced>>
    BY DEF CreateOnboardScan
<1>2. scans[s].status = "none" /\ \A t \in Stored : t < s
    <2>1. s \notin 1..(s - 1) /\ \A t \in 1..(s - 1) : t < s  OBVIOUS
    <2> QED  BY <2>1
<1>3. OnboardTypeOK'       BY <1>1 DEF OnboardTypeOK
<1>4. Together'            BY <1>1 DEF OnboardTypeOK, Together
<1>5. Decided'             BY <1>1 DEF OnboardTypeOK, Decided
<1>6. OneAsks'             BY <1>1 DEF OnboardTypeOK, OneAsks
<1>7. Retried'
    <2> SUFFICES ASSUME ~raced', NEW a \in Stored', NEW b \in Stored', a < b, a \in Active'
                 PROVE  work'[a].attempt > 1
        BY DEF Retried
    <2>1. a # s
        <3> SUFFICES ASSUME a = s PROVE FALSE  OBVIOUS
        <3>1. b \in Stored  BY DEF OnboardTypeOK
        <3> QED  BY <3>1, <1>2
    <2>2. a \in Active /\ work'[a] = work[a]
        BY <2>1 DEF OnboardTypeOK
    <2> QED  BY <1>1, <2>2 DEF OneAsks
<1> QED  BY <1>3, <1>4, <1>5, <1>6, <1>7

-----------------------------------------------------------------------------
\* What a step of the worker of scan s has to establish: only the row and the job
\* of s change, the attempts do not go back, and what it makes active again has
\* been tried before.
Worker(s) ==
    /\ scans' = [scans EXCEPT ![s] = scans'[s]]
    /\ work' = [work EXCEPT ![s] = work'[s]]
    /\ scans[s].status # "none" /\ scans'[s].status # "none"
    /\ work'[s].attempt >= work[s].attempt
    /\ scans'[s].status \in {"pending", "processing"} /\ scans[s].status \notin {"pending", "processing"}
         => work'[s].attempt > 1
    /\ UNCHANGED <<asking, raced>>

LEMMA WorkerKeepsOthers ==
    ASSUME OnboardInv, OnboardTypeOK', NEW s \in Scans, Worker(s)
    PROVE  OneAsks' /\ Retried'
<1> USE DEF OnboardInv, Worker
<1>1. \A t \in Scans \ {s} : scans'[t] = scans[t] /\ work'[t] = work[t]
    BY DEF OnboardTypeOK
<1>2. Stored' = Stored
    BY <1>1 DEF OnboardTypeOK
<1>3. \A t \in Active' : t \in Active \/ work'[t].attempt > 1
    BY <1>1 DEF OnboardTypeOK
<1>4. \A t \in Scans : work'[t].attempt >= work[t].attempt /\ work'[t].attempt \in Nat /\ work[t].attempt \in Nat
    BY <1>1 DEF OnboardTypeOK
<1>5. OneAsks'
    BY <1>3, <1>4 DEF OneAsks
<1>6. Retried'
    BY <1>2, <1>3, <1>4 DEF Retried
<1> QED  BY <1>5, <1>6

LEMMA StartKeeps ==
    ASSUME OnboardInv, NEW s \in Scans, StartWork(s)
    PROVE  OnboardInv'
<1> USE DEF StartWork
<1>1. OnboardTypeOK'       BY DEF OnboardInv, OnboardTypeOK
<1>2. Together'            BY DEF OnboardInv, OnboardTypeOK, Together
<1>3. Decided'             BY DEF OnboardInv, OnboardTypeOK, Decided
<1>4. Worker(s)            BY DEF OnboardInv, OnboardTypeOK, Together, Worker
<1> QED  BY <1>1, <1>2, <1>3, <1>4, WorkerKeepsOthers DEF OnboardInv

\* The attempt fetches files and asks the LLM.
LEMMA ReadKeeps ==
    ASSUME OnboardInv, NEW s \in Scans, FetchDependencyFiles(s) \/ Extract(s)
    PROVE  OnboardInv'
<1> PICK place \in Stops \ {"none", "mark"} : Step(s, place)
    BY DEF FetchDependencyFiles, Extract
<1>0. /\ work[s].state = "running" /\ work[s].at \notin {"none", "mark"}
      /\ UNCHANGED <<scans, asking, lost, raced>>
    BY DEF FetchDependencyFiles, Extract, At
<1> USE <1>0 DEF Step
<1>1. OnboardTypeOK'       BY DEF OnboardInv, OnboardTypeOK
<1>2. Together'            BY DEF OnboardInv, OnboardTypeOK, Together
<1>3. Decided'             BY DEF OnboardInv, OnboardTypeOK, Decided
<1>4. Worker(s)            BY DEF OnboardInv, OnboardTypeOK, Together, Worker
<1> QED  BY <1>1, <1>2, <1>3, <1>4, WorkerKeepsOthers DEF OnboardInv

\* An attempt returns without a write; the history says so.
LEMMA LossKeeps ==
    ASSUME OnboardInv, NEW s \in Scans, NEW how \in {"nil", "error", "cancel"},
           work[s].state = "running", Returns(s, how),
           lost' = lost \cup {s}, UNCHANGED <<scans, asking, raced>>
    PROVE  OnboardInv'
<1> PICK st \in {"completed", "cancelled", "queued", "discarded"} :
          /\ work' = [work EXCEPT ![s] = [state |-> st, attempt |-> work[s].attempt, at |-> "none"]]
          /\ st = "completed" <=> how = "nil"
          /\ st = "cancelled" <=> how = "cancel"
    BY ReturnsLeaves DEF OnboardInv
<1>1. OnboardTypeOK'       BY DEF OnboardInv, OnboardTypeOK
<1>2. Together'            BY DEF OnboardInv, OnboardTypeOK, Together
<1>3. Decided'             BY DEF OnboardInv, OnboardTypeOK, Decided
<1>4. Worker(s)            BY DEF OnboardInv, OnboardTypeOK, Together, Worker
<1> QED  BY <1>1, <1>2, <1>3, <1>4, WorkerKeepsOthers DEF OnboardInv

\* An attempt returns with its last write made.
LEMMA VerdictKeeps ==
    ASSUME OnboardInv, NEW s \in Scans, NEW status \in {"completed", "failed"}, NEW how \in {"nil", "error", "cancel"},
           work[s].state = "running",
           how = "nil" => status = "completed", how = "cancel" => status = "failed",
           UpdateOnboardScanStatus(s, status), Returns(s, how), UNCHANGED <<lost, asking, raced>>
    PROVE  OnboardInv'
<1> PICK st \in {"completed", "cancelled", "queued", "discarded"} :
          /\ work' = [work EXCEPT ![s] = [state |-> st, attempt |-> work[s].attempt, at |-> "none"]]
          /\ st = "completed" <=> how = "nil"
          /\ st = "cancelled" <=> how = "cancel"
    BY ReturnsLeaves DEF OnboardInv
<1> USE DEF UpdateOnboardScanStatus
<1>1. OnboardTypeOK'       BY DEF OnboardInv, OnboardTypeOK
<1>2. Together'            BY DEF OnboardInv, OnboardTypeOK, Together
<1>3. Decided'             BY DEF OnboardInv, OnboardTypeOK, Decided
<1>4. Worker(s)            BY DEF OnboardInv, OnboardTypeOK, Together, Worker
<1> QED  BY <1>1, <1>2, <1>3, <1>4, WorkerKeepsOthers DEF OnboardInv

LEMMA WriteKeeps ==
    ASSUME OnboardInv, NEW s \in Scans,
           WriteFailed(s) \/ WriteEmpty(s) \/ WriteCancelled(s) \/ WriteCompleted(s) \/ DiesAfterWrite(s)
    PROVE  OnboardInv'
<1>1. work[s].state = "running"
    BY DEF WriteFailed, WriteEmpty, WriteCancelled, WriteCompleted, DiesAfterWrite, At
<1> SUFFICES ASSUME NEW status \in {"completed", "failed"},
                    NEW done \in {"nil", "error", "cancel"}, NEW gone \in {"nil", "error", "cancel"},
                    done = "nil" => status = "completed", done = "cancel" => status = "failed",
                    \/ UpdateOnboardScanStatus(s, status) /\ Returns(s, done) /\ UNCHANGED <<asking, lost, raced>>
                    \/ lost' = lost \cup {s} /\ Returns(s, gone) /\ UNCHANGED <<scans, asking, raced>>
             PROVE  OnboardInv'
    BY DEF WriteFailed, WriteEmpty, WriteCancelled, WriteCompleted, DiesAfterWrite, Write
<1> QED  BY <1>1, VerdictKeeps, LossKeeps

\* The first write of an attempt makes the scan active, perhaps again.
LEMMA MarkKeeps ==
    ASSUME OnboardInv, NEW s \in Scans, MarkProcessing(s)
    PROVE  OnboardInv'
<1>0. work[s].state = "running" /\ work[s].at = "mark"
    BY DEF MarkProcessing, At
<1>1. CASE lost' = lost \cup {s} /\ Returns(s, "error") /\ UNCHANGED <<scans, asking, raced>>
    BY <1>0, <1>1, LossKeeps
<1>2. CASE UpdateOnboardScanStatus(s, "processing") /\ Step(s, "fetch") /\ UNCHANGED <<asking, lost, raced>>
    <2> USE <1>0, <1>2 DEF UpdateOnboardScanStatus, Step
    <2>1. OnboardTypeOK'       BY DEF OnboardInv, OnboardTypeOK
    <2>2. Together'            BY DEF OnboardInv, OnboardTypeOK, Together
    <2>3. Decided'             BY DEF OnboardInv, OnboardTypeOK, Decided
    <2>4. Worker(s)            BY DEF OnboardInv, OnboardTypeOK, Together, Worker
    <2> QED  BY <2>1, <2>2, <2>3, <2>4, WorkerKeepsOthers DEF OnboardInv
<1> QED  BY <1>1, <1>2 DEF MarkProcessing

-----------------------------------------------------------------------------
LEMMA NextOnboard == OnboardInv /\ [OnboardNext]_onboardVars => OnboardInv'
<1> SUFFICES ASSUME OnboardInv, [OnboardNext]_onboardVars PROVE OnboardInv'
    OBVIOUS
<1>1. CASE UNCHANGED onboardVars
    BY <1>1 DEF OnboardInv, onboardVars, OnboardTypeOK, Together, Decided, OneAsks, Retried
<1>2. ASSUME NEW q \in Requests, ActiveScanForRepo(q) \/ CreateOnboardScan(q) \/ GetOnboardScan(q)
      PROVE  OnboardInv'
    BY <1>2, CheckKeeps, CreateKeeps
<1>3. ASSUME NEW s \in Scans, StartWork(s) \/ MarkProcessing(s) \/ FetchDependencyFiles(s) \/ Extract(s)
      PROVE  OnboardInv'
    BY <1>3, StartKeeps, ReadKeeps, MarkKeeps
<1>4. ASSUME NEW s \in Scans,
             WriteFailed(s) \/ WriteEmpty(s) \/ WriteCancelled(s) \/ WriteCompleted(s) \/ DiesAfterWrite(s)
      PROVE  OnboardInv'
    BY <1>4, WriteKeeps
<1>5. ASSUME NEW s \in Scans, WorkerDies(s) PROVE OnboardInv'
    BY <1>5, LossKeeps DEF WorkerDies
<1> QED  BY <1>1, <1>2, <1>3, <1>4, <1>5 DEF OnboardNext

\* The statuses, places, attempts and requests stay what they are declared to be.
THEOREM OnboardTypeCorrect == OnboardSpec => []OnboardTypeOK
<1>1. OnboardInv => OnboardTypeOK  BY DEF OnboardInv
<1> QED  BY <1>1, InitOnboard, NextOnboard, PTL DEF OnboardSpec

\* No job ends with its scan undecided, unless a status write was lost, and two
\* scans are active at once only through a race of requests or a retry: for any
\* number of requests, scans, attempts and outages.
THEOREM ScansAreDecided == OnboardSpec => []ScanDecided
<1>1. OnboardInv => ScanDecided
    BY DEF OnboardInv, OnboardTypeOK, Decided, Retried, ScanDecided
<1> QED  BY <1>1, InitOnboard, NextOnboard, PTL DEF OnboardSpec

HIDE OnboardingAssumption DEF Scans, Stored, Active, Ended, Stops

(***************************************************************************)
(* Registries, for any tags, page size and bounds.  First finite sets of   *)
(* numbers: their elements can be listed in order.                         *)
(***************************************************************************)
\* how many of S come before t
Rank(S, t) == Cardinality({u \in S : u < t})

LEMMA RankInRange ==
    ASSUME NEW S, \A x \in S : x \in Nat, IsFiniteSet(S), NEW t \in S
    PROVE  Rank(S, t) \in 0 .. (Cardinality(S) - 1)
<1> DEFINE B == {u \in S : u < t}
<1>1. B \in SUBSET (S \ {t})
    OBVIOUS
<1>2. IsFiniteSet(S \ {t}) /\ Cardinality(S \ {t}) = Cardinality(S) - 1
    BY FS_RemoveElement
<1>3. IsFiniteSet(B) /\ Cardinality(B) <= Cardinality(S) - 1
    BY <1>1, <1>2, FS_Subset
<1>4. Cardinality(B) \in Nat /\ Cardinality(S) \in Nat
    BY <1>3, FS_CardinalityType
<1> QED  BY <1>3, <1>4 DEF Rank

LEMMA RankGrows ==
    ASSUME NEW S, \A x \in S : x \in Nat, IsFiniteSet(S), NEW t \in S, NEW u \in S, t < u
    PROVE  Rank(S, t) < Rank(S, u)
<1> DEFINE A == {x \in S : x < t}
           B == {x \in S : x < u}
<1>1. A \subseteq S /\ A \cup {t} \subseteq B /\ B \subseteq S /\ t \notin A
    OBVIOUS
<1> HIDE DEF A, B
<1>2. IsFiniteSet(A) /\ IsFiniteSet(B)
    BY <1>1, FS_Subset
<1>3. Cardinality(A \cup {t}) = Cardinality(A) + 1
    BY <1>1, <1>2, FS_AddElement
<1>4. Cardinality(A \cup {t}) <= Cardinality(B)
    BY <1>1, <1>2, FS_Subset
<1>5. Cardinality(A) \in Nat /\ Cardinality(B) \in Nat
    BY <1>2, FS_CardinalityType
<1> QED  BY <1>3, <1>4, <1>5 DEF Rank, A, B

\* Every place up to the number of elements is taken.
LEMMA RankTaken ==
    ASSUME NEW S, \A x \in S : x \in Nat, IsFiniteSet(S), NEW k \in 0 .. (Cardinality(S) - 1)
    PROVE  \E t \in S : Rank(S, t) = k
<1> DEFINE n == Cardinality(S)
           I == 0 .. (n - 1)
           T == I \ {k}
           f == [t \in S |-> Rank(S, t)]
<1>1. n \in Nat
    BY FS_CardinalityType
<1>2. IsFiniteSet(I) /\ Cardinality(I) = n /\ k \in I
    BY <1>1, 0 \in Int, n - 1 \in Int, FS_Interval
<1>3. IsFiniteSet(T) /\ Cardinality(T) < Cardinality(S)
  <2> HIDE DEF I
  <2>1. IsFiniteSet(I \ {k}) /\ Cardinality(I \ {k}) = n - 1
      BY <1>2, FS_RemoveElement
  <2> QED  BY <1>1, <2>1
<1> SUFFICES ASSUME \A t \in S : Rank(S, t) # k PROVE FALSE
    OBVIOUS
<1>4. f \in [S -> T]
    BY RankInRange
<1>5. \E t, u \in S : t # u /\ f[t] = f[u]
  <2> HIDE DEF T, f
  <2> QED  BY <1>3, <1>4, FS_PigeonHole
<1> PICK t \in S, u \in S : t # u /\ f[t] = f[u]
    BY <1>5
<1>6. t < u \/ u < t
    OBVIOUS
<1>7. Rank(S, t) < Rank(S, u) \/ Rank(S, u) < Rank(S, t)
    BY <1>6, RankGrows
<1>8. Rank(S, t) = Rank(S, u) /\ Rank(S, t) \in Int
    BY RankInRange
<1> QED  BY <1>7, <1>8

\* A list without repetitions of the elements of S.
Enumerates(s, S) ==
    /\ s \in Seq(S) /\ {s[i] : i \in DOMAIN s} = S
    /\ \A i, j \in DOMAIN s : i # j => s[i] # s[j]

LEMMA SortedIs == ASSUME NEW S, \A x \in S : x \in Nat, IsFiniteSet(S) PROVE Enumerates(Sorted(S), S)
<1> DEFINE n == Cardinality(S)
           s == Sorted(S)
           Nth(i) == CHOOSE t \in S : Rank(S, t) = i - 1
<1>1. n \in Nat
    BY FS_CardinalityType
<1>2. s = [i \in 1..n |-> Nth(i)]
    BY DEF Sorted, Rank
<1>3. \A i \in 1..n : Nth(i) \in S /\ Rank(S, Nth(i)) = i - 1
  <2> TAKE i \in 1..n
  <2>1. \E t \in S : Rank(S, t) = i - 1
      BY <1>1, RankTaken
  <2> QED  BY <2>1
<1> HIDE DEF Nth, s
<1>4. DOMAIN s = 1..n /\ \A i \in 1..n : s[i] \in S /\ Rank(S, s[i]) = i - 1
    BY <1>2, <1>3
<1>5. s \in Seq(S)
  <2>1. s \in [1..n -> S]
      BY <1>2, <1>3
  <2> QED  BY <1>1, <2>1, SeqDef
<1>6. \A t \in S : \E i \in 1..n : s[i] = t
  <2> TAKE t \in S
  <2> DEFINE i == Rank(S, t) + 1
  <2>1. i \in 1..n /\ i - 1 = Rank(S, t)
      BY <1>1, RankInRange
  <2> HIDE DEF i
  <2>2. Rank(S, s[i]) = Rank(S, t) /\ s[i] \in S
      BY <1>4, <2>1
  <2>3. s[i] = t
    <3>1. CASE s[i] < t
      <4>1. Rank(S, s[i]) < Rank(S, t) /\ Rank(S, t) \in Int
          BY <2>2, <3>1, RankGrows, RankInRange
      <4> QED  BY <2>2, <4>1
    <3>2. CASE t < s[i]
      <4>1. Rank(S, t) < Rank(S, s[i]) /\ Rank(S, t) \in Int
          BY <2>2, <3>2, RankGrows, RankInRange
      <4> QED  BY <2>2, <4>1
    <3>3. s[i] \in Nat /\ t \in Nat
        BY <2>2
    <3> QED  BY <3>1, <3>2, <3>3
  <2> QED  BY <2>1, <2>3
<1>7. \A i, j \in 1..n : i # j => s[i] # s[j]
    BY <1>4
<1> QED  BY <1>4, <1>5, <1>6, <1>7 DEF Enumerates, s

\* The least and the greatest element.
LEMMA Extremes ==
    ASSUME NEW S, \A x \in S : x \in Nat, IsFiniteSet(S), S # {}
    PROVE  /\ Max(S) \in S /\ \A t \in S : t <= Max(S)
           /\ \E t \in S : \A u \in S : t <= u
<1>1. Cardinality(S) \in Nat \ {0}
    BY FS_CardinalityType, FS_EmptySet
<1>2. PICK t \in S : Rank(S, t) = Cardinality(S) - 1
    BY <1>1, RankTaken
<1>3. \A u \in S : ~(t < u)
    BY <1>1, <1>2, RankGrows, RankInRange
<1>4. \A u \in S : t >= u
    BY <1>3
<1>5. Max(S) \in S /\ \A u \in S : Max(S) >= u
    BY <1>4 DEF Max
<1>6. PICK b \in S : Rank(S, b) = 0
    BY <1>1, RankTaken
<1>7. \A u \in S : ~(u < b)
    BY <1>6, RankGrows, RankInRange
<1> QED  BY <1>5, <1>6, <1>7

RegistryDates == {"zero", "given", "now", "annotation", "config", "child"}
Results == [version : Tags, kind : {"tag", "release"}, date : RegistryDates]
TagRows == [state : {"absent", "bare", "draft", "released"}, at : Nat, dates : SUBSET Places]
Walks == {"ghcr", "ecr-public"}

Elements(s) == {s[i] : i \in DOMAIN s}
Apart(s) == \A i, j \in DOMAIN s : i # j => s[i] # s[j]
Versions(s) == {s[i].version : i \in DOMAIN s}
VersionsApart(s) == \A i, j \in DOMAIN s : i # j => s[i].version # s[j].version
\* what the poll has come by so far
Seen(p) == Elements(p.left) \cup Versions(p.found)
\* the tags that are as they were when the poll began
Steady == {t \in Tags : <<t, up[t].state>> \in always}

RepositoryOK == up \in [Tags -> TagRows] /\ IsFiniteSet(There(up)) /\ changes \in Nat
HistoryOK ==
    poll.pc # "idle" =>
      /\ always \subseteq {<<t, up[t].state>> : t \in There(up)} /\ There(up) \subseteq ever
      /\ ~crowded => Cardinality(Released(up) \cup Drafted(up)) <= PageSize

PollTyped(p) == p \in [pc : {"idle", "first", "tags", "dates", "done"}, provider : Providers \cup {"none"}, last : Nat,
                       left : Seq(Tags), found : Seq(Results)]
OnceEach(p) ==
    /\ Apart(p.left) /\ VersionsApart(p.found)
    /\ Elements(p.left) \cap Versions(p.found) = {} /\ Seen(p) \subseteq ever
\* a walk has come as far as its cursor, and nobody else has anything before the first answer
Placed(p) ==
    /\ p.pc = "first" => /\ \A t \in Seen(p) : t <= p.last
                         /\ p.provider \notin Walks => p.last = 0
                         /\ p.provider # "ghcr" => p.left = <<>>
    /\ p.pc \in {"tags", "done"} => p.left = <<>>
NothingLost(p) ==
    /\ p.provider \in Walks => \A t \in Steady : (p.pc = "first" => t <= p.last) => t \in Seen(p)
    /\ p.provider = "npm" /\ p.pc # "first" => Steady \subseteq Seen(p)
    /\ p.provider = "pypi" /\ p.pc # "first" => \A t \in Steady : up[t].state = "released" => t \in Seen(p)
KindsRight(p) ==
    p.provider = "github" /\ p.pc # "first" /\ ~crowded =>
      /\ \A t \in Steady : up[t].state = "released" => t \in Versions(p.found)
      /\ \A i \in DOMAIN p.found : p.found[i].version \in Steady =>
           (p.found[i].kind = "release" <=> up[p.found[i].version].state = "released")
DatesRight(p, b) ==
    \A i \in DOMAIN p.found : p.found[i].date = "zero" /\ p.found[i].version \in Steady =>
      up[p.found[i].version].dates = {} \/ p.found[i].version \in b
Faithful(p, b) ==
    PollTyped(p) /\ (p.pc # "idle" => OnceEach(p) /\ Placed(p) /\ NothingLost(p) /\ KindsRight(p) /\ DatesRight(p, b))

RegistriesInv == RepositoryOK /\ HistoryOK /\ Faithful(poll, broken)

\* The client.
ListOf(l, S, kind) ==
    /\ l \in Seq(Results) /\ Versions(l) = S /\ VersionsApart(l)
    /\ \A i \in DOMAIN l : l[i].kind = kind /\ (l[i].date = "zero" => up[l[i].version].dates = {})

LEMMA Subsets ==
    ASSUME RepositoryOK, NEW S, S \subseteq There(up)
    PROVE  IsFiniteSet(S) /\ Cardinality(S) \in Nat /\ S \subseteq Tags /\ \A t \in S : t \in Nat /\ t # 0
<1>1. IsFiniteSet(S)
    BY FS_Subset DEF RepositoryOK
<1>2. S \subseteq Tags
    BY DEF There
<1> QED  BY <1>1, <1>2, FS_CardinalityType, RegistriesAssumption

LEMMA AsListIs ==
    ASSUME RepositoryOK, NEW S, S \subseteq There(up), NEW kind \in {"tag", "release"}
    PROVE  ListOf(AsList(S, kind), S, kind)
<1> DEFINE s == Sorted(S)
           Item(t) == Result(t, kind, IF up[t].dates = {} THEN "zero" ELSE "given")
           l == [i \in DOMAIN s |-> Item(s[i])]
<1>1. Enumerates(s, S)
    BY Subsets, SortedIs
<1>2. AsList(S, kind) = l
    BY DEF AsList
<1> HIDE DEF s
<1>3. S \subseteq Tags
    BY Subsets
<1>4. \A t \in S : /\ Item(t) \in Results /\ Item(t).version = t /\ Item(t).kind = kind
                   /\ Item(t).date = "zero" => up[t].dates = {}
    BY <1>3 DEF Result, Results, RegistryDates
<1> HIDE DEF Item
<1>5. DOMAIN s = 1..Len(s) /\ Len(s) \in Nat /\ \A i \in DOMAIN s : s[i] \in S
    BY <1>1, LenProperties DEF Enumerates
<1>6. l \in [1..Len(s) -> Results]
    BY <1>4, <1>5
<1>7. l \in Seq(Results)
    BY <1>5, <1>6, SeqDef
<1>8. DOMAIN l = DOMAIN s /\ \A i \in DOMAIN s : l[i].version = s[i] /\ l[i] = Item(s[i])
    BY <1>4, <1>5
<1> HIDE DEF l
<1>9. Versions(l) = S /\ VersionsApart(l)
    BY <1>1, <1>8 DEF Enumerates, Versions, VersionsApart
<1>10. \A i \in DOMAIN l : l[i].kind = kind /\ (l[i].date = "zero" => up[l[i].version].dates = {})
    BY <1>4, <1>5, <1>8
<1> QED  BY <1>2, <1>7, <1>9, <1>10 DEF ListOf

LEMMA SteadyThere == ASSUME RegistriesInv, poll.pc # "idle", NEW t \in Steady PROVE t \in There(up)
BY DEF RegistriesInv, HistoryOK, Steady

\* One answer with all there is.
LEMMA FetchFits ==
    ASSUME RegistriesInv, poll.pc = "first", poll.provider \notin Walks,
           NEW S, S \subseteq There(up), NEW kind \in {"tag", "release"}, NEW pc \in {"tags", "done"},
           NEW p, p = [poll EXCEPT !.pc = pc, !.found = AsList(S, kind)],
           poll.provider = "npm" => S = There(up),
           poll.provider = "pypi" => S = Released(up),
           poll.provider = "github" /\ ~crowded => S = Released(up) /\ kind = "release"
    PROVE  Faithful(p, broken)
<1> DEFINE l == AsList(S, kind)
<1>1. ListOf(l, S, kind)
    BY AsListIs DEF RegistriesInv
<1> HIDE DEF l
<1>2. PollTyped(poll) /\ poll.left = <<>> /\ There(up) \subseteq ever
    BY DEF RegistriesInv, Faithful, Placed, Walks, HistoryOK
<1>3. p = [poll EXCEPT !.pc = pc, !.found = l]
    BY DEF l
<1>4. p.pc = pc /\ p.found = l /\ p.left = <<>> /\ p.provider = poll.provider /\ PollTyped(p)
    BY <1>1, <1>2, <1>3 DEF PollTyped, ListOf
<1>5. Elements(p.left) = {} /\ Apart(p.left)
    BY <1>4 DEF Elements, Apart
<1>6. Seen(p) = S /\ Versions(p.found) = S
    BY <1>1, <1>4, <1>5 DEF Seen, ListOf
<1>7. OnceEach(p)
    BY <1>1, <1>2, <1>4, <1>5, <1>6 DEF OnceEach, ListOf
<1>8. Placed(p)
    BY <1>4 DEF Placed
<1>9. \A t \in Steady : t \in There(up) /\ (up[t].state = "released" => t \in Released(up))
    BY SteadyThere DEF Released, Steady
<1>10. NothingLost(p)
    BY <1>4, <1>6, <1>9 DEF NothingLost
<1>11. KindsRight(p)
  <2> SUFFICES ASSUME p.provider = "github", ~crowded
               PROVE  /\ \A t \in Steady : up[t].state = "released" => t \in Versions(p.found)
                      /\ \A i \in DOMAIN p.found : p.found[i].version \in Steady =>
                           (p.found[i].kind = "release" <=> up[p.found[i].version].state = "released")
      BY DEF KindsRight
  <2>1. S = Released(up) /\ kind = "release"
      BY <1>4
  <2>2. \A i \in DOMAIN l : l[i].kind = "release" /\ l[i].version \in S
      BY <1>1, <2>1 DEF ListOf, Versions
  <2> QED  BY <1>4, <1>6, <1>9, <2>1, <2>2 DEF Released
<1>12. DatesRight(p, broken)
    BY <1>1, <1>4 DEF DatesRight, ListOf
<1> QED  BY <1>4, <1>7, <1>8, <1>10, <1>11, <1>12 DEF Faithful

LEMMA NewestAll ==
    ASSUME RepositoryOK, NEW S, S \subseteq There(up), Cardinality(S) <= PageSize
    PROVE  NewestOf(S) = S
<1> SUFFICES ASSUME NEW t \in S PROVE Cardinality({u \in S : up[u].at > up[t].at}) < PageSize
    BY DEF NewestOf
<1> DEFINE B == {u \in S : up[u].at > up[t].at}
<1>1. IsFiniteSet(S) /\ Cardinality(S) \in Nat /\ S \subseteq Tags
    BY Subsets
<1>2. ~(up[t].at > up[t].at)
    BY <1>1 DEF RepositoryOK, TagRows
<1>3. B \subseteq S \ {t}
    BY <1>2
<1> HIDE DEF B
<1>4. IsFiniteSet(S \ {t}) /\ Cardinality(S \ {t}) = Cardinality(S) - 1
    BY <1>1, FS_RemoveElement
<1>5. Cardinality(B) <= Cardinality(S) - 1 /\ Cardinality(B) \in Nat
    BY <1>3, <1>4, FS_Subset, FS_CardinalityType
<1>6. Cardinality(B) < PageSize
    BY <1>1, <1>5, RegistriesAssumption
<1> QED  BY <1>6 DEF B

LEMMA SingleStep ==
    ASSUME RegistriesInv, DockerHubFetch \/ GitLabFetch \/ NpmFetch \/ PyPIFetch
    PROVE  Faithful(poll', broken')
<1> DEFINE P(S, kind) == [poll EXCEPT !.pc = "done", !.found = AsList(S, kind)]
<1>1. broken' = broken /\ poll.pc = "first"
    BY DEF DockerHubFetch, GitLabFetch, NpmFetch, PyPIFetch, Done, Continue, Client
<1>2. Released(up) \subseteq There(up) /\ NewestOf(There(up)) \subseteq There(up) /\ NewestOf(Released(up)) \subseteq There(up)
    BY DEF Released, There, NewestOf
<1>3. CASE DockerHubFetch
  <2>1. poll' = P(NewestOf(There(up)), "tag") /\ poll.provider = "dockerhub"
      BY <1>3 DEF DockerHubFetch, Done, Continue, Client
  <2> QED  BY <1>1, <1>2, <2>1, FetchFits DEF Walks
<1>4. CASE GitLabFetch
  <2>1. poll' = P(NewestOf(Released(up)), "release") /\ poll.provider = "gitlab"
      BY <1>4 DEF GitLabFetch, Done, Continue, Client
  <2> QED  BY <1>1, <1>2, <2>1, FetchFits DEF Walks
<1>5. CASE NpmFetch
  <2>1. poll' = P(There(up), "tag") /\ poll.provider = "npm"
      BY <1>5 DEF NpmFetch, Done, Continue, Client
  <2> QED  BY <1>1, <1>2, <2>1, FetchFits DEF Walks
<1>6. CASE PyPIFetch
  <2>1. poll' = P(Released(up), "tag") /\ poll.provider = "pypi"
      BY <1>6 DEF PyPIFetch, Done, Continue, Client
  <2> QED  BY <1>1, <1>2, <2>1, FetchFits DEF Walks
<1> QED  BY <1>3, <1>4, <1>5, <1>6

LEMMA ReleasesStep == ASSUME RegistriesInv, fetchReleases PROVE Faithful(poll', broken')
<1>1. PICK visible \in {Released(up), Released(up) \cup Drafted(up)}, releasesOnly \in BOOLEAN :
        LET found == AsList(NewestOf(visible) \ Drafted(up), "release")
        IN  IF releasesOnly THEN Done(found) ELSE Continue([poll EXCEPT !.pc = "tags", !.found = found])
    BY DEF fetchReleases
<1> DEFINE S == NewestOf(visible) \ Drafted(up)
<1>2. visible \subseteq There(up) /\ S \subseteq There(up) /\ Released(up) \cap Drafted(up) = {}
    BY DEF Released, Drafted, There, NewestOf
<1>3. ~crowded => S = Released(up)
  <2> SUFFICES ASSUME ~crowded PROVE S = Released(up)
      OBVIOUS
  <2> DEFINE Both == Released(up) \cup Drafted(up)
  <2>1. Cardinality(Both) <= PageSize /\ RepositoryOK
      BY DEF fetchReleases, Client, RegistriesInv, HistoryOK
  <2>2. Both \subseteq There(up)
      BY DEF Released, Drafted, There
  <2>3. IsFiniteSet(Both) /\ Cardinality(Both) \in Nat /\ Cardinality(visible) \in Nat
      BY <1>2, <2>1, <2>2, Subsets
  <2>4. Cardinality(visible) <= Cardinality(Both)
    <3>1. visible \in SUBSET Both
        OBVIOUS
    <3> HIDE DEF Both
    <3> QED  BY <2>3, <3>1, FS_Subset
  <2>5. Cardinality(visible) <= PageSize
      BY <2>1, <2>3, <2>4, RegistriesAssumption
  <2>6. NewestOf(visible) = visible
      BY <1>2, <2>1, <2>5, NewestAll
  <2> QED  BY <1>2, <2>6
<1>4. broken' = broken /\ poll.pc = "first" /\ poll.provider = "github"
    BY <1>1, Zenon DEF fetchReleases, Client, Done, Continue
<1>5. \E pc \in {"tags", "done"} : poll' = [poll EXCEPT !.pc = pc, !.found = AsList(S, "release")]
    BY <1>1 DEF Done, Continue
<1> HIDE DEF S
<1> QED  BY <1>2, <1>3, <1>4, <1>5, FetchFits DEF Walks

LEMMA AppendedIs ==
    ASSUME NEW T, NEW a \in Seq(T), NEW b \in Seq(T)
    PROVE  /\ a \o b \in Seq(T) /\ Elements(a \o b) = Elements(a) \cup Elements(b)
           /\ Versions(a \o b) = Versions(a) \cup Versions(b)
           /\ Apart(a) /\ Apart(b) /\ Elements(a) \cap Elements(b) = {} => Apart(a \o b)
           /\ VersionsApart(a) /\ VersionsApart(b) /\ Versions(a) \cap Versions(b) = {} => VersionsApart(a \o b)
           /\ \A i \in DOMAIN (a \o b) : (a \o b)[i] \in Elements(a) \cup Elements(b)
<1> DEFINE c == a \o b
<1>1. /\ c \in Seq(T) /\ Len(c) = Len(a) + Len(b)
      /\ \A i \in 1 .. Len(a) + Len(b) : c[i] = IF i <= Len(a) THEN a[i] ELSE b[i - Len(a)]
    BY ConcatProperties
<1>2. Len(a) \in Nat /\ Len(b) \in Nat /\ DOMAIN a = 1..Len(a) /\ DOMAIN b = 1..Len(b) /\ DOMAIN c = 1..Len(c)
    BY <1>1, LenProperties
<1> HIDE DEF c
<1>3. \A i \in DOMAIN a : i \in DOMAIN c /\ c[i] = a[i]
    BY <1>1, <1>2
<1>4. \A i \in DOMAIN b : i + Len(a) \in DOMAIN c /\ c[i + Len(a)] = b[i]
    BY <1>1, <1>2
<1>5. \A i \in DOMAIN c : \/ i \in DOMAIN a /\ c[i] = a[i]
                          \/ i \notin DOMAIN a /\ i - Len(a) \in DOMAIN b /\ c[i] = b[i - Len(a)]
    BY <1>1, <1>2
<1>6. Elements(c) = Elements(a) \cup Elements(b)
    BY <1>3, <1>4, <1>5 DEF Elements
<1>7. Versions(c) = Versions(a) \cup Versions(b)
    BY <1>3, <1>4, <1>5 DEF Versions
<1>8. \A i, j \in DOMAIN c : i # j => i - Len(a) # j - Len(a)
    BY <1>2
<1>9. ASSUME Apart(a), Apart(b), Elements(a) \cap Elements(b) = {} PROVE Apart(c)
  <2> SUFFICES ASSUME NEW i \in DOMAIN c, NEW j \in DOMAIN c, i # j PROVE c[i] # c[j]
      BY DEF Apart
  <2>1. i - Len(a) # j - Len(a)
      BY <1>8
  <2>2. CASE i \in DOMAIN a /\ j \in DOMAIN a
      BY <1>3, <1>9, <2>2 DEF Apart
  <2>3. CASE i \notin DOMAIN a /\ j \notin DOMAIN a
      BY <1>5, <1>9, <2>1, <2>3 DEF Apart
  <2>4. CASE (i \in DOMAIN a) # (j \in DOMAIN a)
      BY <1>5, <1>9, <2>4 DEF Elements
  <2> QED  BY <2>2, <2>3, <2>4
<1>10. ASSUME VersionsApart(a), VersionsApart(b), Versions(a) \cap Versions(b) = {} PROVE VersionsApart(c)
  <2> SUFFICES ASSUME NEW i \in DOMAIN c, NEW j \in DOMAIN c, i # j PROVE c[i].version # c[j].version
      BY DEF VersionsApart
  <2>1. i - Len(a) # j - Len(a)
      BY <1>8
  <2>2. CASE i \in DOMAIN a /\ j \in DOMAIN a
      BY <1>3, <1>10, <2>2 DEF VersionsApart
  <2>3. CASE i \notin DOMAIN a /\ j \notin DOMAIN a
      BY <1>5, <1>10, <2>1, <2>3 DEF VersionsApart
  <2>4. CASE (i \in DOMAIN a) # (j \in DOMAIN a)
      BY <1>5, <1>10, <2>4 DEF Versions
  <2> QED  BY <2>2, <2>3, <2>4
<1>11. \A i \in DOMAIN c : c[i] \in Elements(a) \cup Elements(b)
    BY <1>5 DEF Elements
<1> QED  BY <1>1, <1>6, <1>7, <1>9, <1>10, <1>11 DEF c

\* A page of a walk holds all there is up to its last tag, and the last page all the rest.
LEMMA PageIs ==
    ASSUME RepositoryOK, NEW last \in Nat, NEW page, page = NextOf(There(up), last)
    PROVE  /\ page \subseteq There(up) /\ \A t \in page : t > last
           /\ page # {} => /\ Max(page) \in Nat /\ Max(page) > last /\ \A t \in page : t <= Max(page)
                           /\ \A t \in There(up) : last < t /\ t <= Max(page) => t \in page
           /\ ~More(page) => \A t \in There(up) : last < t => t \in page
<1> DEFINE Before(t) == {u \in There(up) : last < u /\ u < t}
<1>1. page \subseteq There(up) /\ (\A t \in page : t > last)
      /\ \A t \in There(up) : t \in page <=> t > last /\ Cardinality(Before(t)) < PageSize
    BY DEF NextOf
<1>2. \A t \in There(up) : t \in Nat
    BY Subsets
<1>3. IsFiniteSet(page) /\ IsFiniteSet(There(up)) /\ \A t \in page : t \in Nat
    BY <1>1, Subsets
<1>4. ASSUME page # {}
      PROVE  /\ Max(page) \in Nat /\ Max(page) > last /\ \A t \in page : t <= Max(page)
             /\ \A t \in There(up) : last < t /\ t <= Max(page) => t \in page
  <2>1. Max(page) \in page /\ \A t \in page : t <= Max(page)
      BY <1>3, <1>4, Extremes
  <2> SUFFICES ASSUME NEW t \in There(up), last < t, t <= Max(page) PROVE t \in page
      BY <1>1, <1>3, <2>1
  <2> DEFINE m == Max(page)
  <2>2. m \in Nat /\ t \in Nat /\ m \in There(up)
      BY <1>1, <1>2, <2>1
  <2>3. Before(t) \subseteq Before(m) /\ Before(m) \subseteq There(up)
    <3>1. t <= m
        OBVIOUS
    <3> HIDE DEF m
    <3>2. \A u \in There(up) : u < t => u < m
        BY <1>2, <2>2, <3>1
    <3> QED  BY <3>2
  <2>4. Cardinality(Before(m)) < PageSize
      BY <1>1, <2>1, <2>2
  <2>5. Cardinality(Before(t)) <= Cardinality(Before(m)) /\ Cardinality(Before(t)) \in Nat /\ Cardinality(Before(m)) \in Nat
    <3>1. IsFiniteSet(Before(m))
        BY <1>3, <2>3, FS_Subset
    <3> HIDE DEF Before
    <3>2. IsFiniteSet(Before(t)) /\ Cardinality(Before(t)) <= Cardinality(Before(m))
        BY <2>3, <3>1, FS_Subset
    <3> QED  BY <3>1, <3>2, FS_CardinalityType
  <2>6. Cardinality(Before(t)) < PageSize
      BY <2>4, <2>5, RegistriesAssumption
  <2> QED  BY <1>1, <2>6
<1>5. ASSUME ~More(page), NEW t \in There(up), last < t PROVE t \in page
  <2>1. CASE page # {}
    <3>1. t <= Max(page)
        BY <1>2, <1>4, <1>5, <2>1 DEF More
    <3> QED  BY <1>4, <1>5, <2>1, <3>1
  <2>2. CASE page = {}
    <3> DEFINE Rest == {u \in There(up) : last < u}
    <3>1. t \in Rest /\ Rest \subseteq There(up) /\ \A u \in Rest : u \in Nat
        BY <1>2, <1>5
    <3>2. IsFiniteSet(Rest)
        BY <1>3, <3>1, FS_Subset
    <3>3. PICK b \in Rest : \A u \in Rest : b <= u
      <4> HIDE DEF Rest
      <4> QED  BY <3>1, <3>2, Extremes
    <3>4. Before(b) = {}
        BY <1>2, <3>1, <3>3
    <3>5. Cardinality(Before(b)) = 0
        BY <3>4, FS_EmptySet
    <3>6. b \in page
        BY <1>1, <3>5, RegistriesAssumption
    <3> QED  BY <2>2, <3>6
  <2> QED  BY <2>1, <2>2
<1> QED  BY <1>1, <1>4, <1>5

\* Tags to date: their names go to the end of the list, sorted.
LEMMA TagsStep == ASSUME RegistriesInv, fetchTags PROVE Faithful(poll', broken')
<1> DEFINE seen == {r.version : r \in Range(poll.found)}
<1>1. PICK page \in SUBSET There(up) : poll' = [poll EXCEPT !.pc = "dates", !.left = Sorted(page \ seen)]
    BY DEF fetchTags, Continue, kSubset
<1> DEFINE s == Sorted(page \ seen)
<1>2. broken' = broken /\ poll.provider = "github" /\ poll.pc = "tags"
    BY DEF fetchTags, Continue, Client
<1>3. seen = Versions(poll.found)
    BY DEF Range, Versions
<1> HIDE DEF seen
<1>4. Enumerates(s, page \ seen) /\ page \ seen \subseteq Tags
    BY Subsets, SortedIs DEF RegistriesInv
<1> HIDE DEF s
<1>5. PollTyped(poll) /\ OnceEach(poll) /\ KindsRight(poll) /\ DatesRight(poll, broken) /\ There(up) \subseteq ever
    BY <1>2 DEF RegistriesInv, Faithful, HistoryOK
<1> DEFINE p == [poll EXCEPT !.pc = "dates", !.left = s]
<1>6. s \in Seq(Tags)
    BY <1>4, SeqMonotonic DEF Enumerates
<1>7. p.pc = "dates" /\ p.left = s /\ p.found = poll.found /\ p.provider = "github" /\ PollTyped(p)
    BY <1>2, <1>5, <1>6 DEF PollTyped
<1> HIDE DEF p
<1>8. Elements(s) = page \ seen /\ Apart(s)
    BY <1>4 DEF Enumerates, Elements, Apart
<1>9. OnceEach(p)
    BY <1>3, <1>5, <1>7, <1>8 DEF OnceEach, Seen
<1>10. Placed(p) /\ NothingLost(p)
    BY <1>7 DEF Placed, NothingLost, Walks
<1>11. KindsRight(p) /\ DatesRight(p, broken)
    BY <1>2, <1>5, <1>7 DEF KindsRight, DatesRight
<1> QED  BY <1>1, <1>2, <1>7, <1>9, <1>10, <1>11 DEF Faithful, p, s

LEMMA SeenTags == ASSUME NEW p, PollTyped(p) PROVE Seen(p) \subseteq Tags
<1>1. p.left \in Seq(Tags) /\ p.found \in Seq(Results)
    BY DEF PollTyped
<1>2. \A i \in DOMAIN p.left : p.left[i] \in Tags
    BY <1>1, LenProperties, ElementOfSeq
<1>3. \A i \in DOMAIN p.found : p.found[i] \in Results
    BY <1>1, LenProperties, ElementOfSeq
<1> QED  BY <1>2, <1>3 DEF Seen, Elements, Versions, Results

\* What a step of a walk must do to what was seen.
LEMMA WalkFits ==
    ASSUME RegistriesInv, poll.pc = "first", poll.provider \in Walks, NEW page, page = NextOf(There(up), poll.last),
           NEW p, PollTyped(p), p.provider = poll.provider, p.provider # "ghcr" => p.left = <<>>,
           Apart(p.left), VersionsApart(p.found), Elements(p.left) \cap Versions(p.found) = {},
           Seen(p) = Seen(poll) \cup page,
           \/ More(page) /\ p.pc = "first" /\ p.last = Max(page)
           \/ ~More(page) /\ p.pc \in {"dates", "done"} /\ (p.pc = "done" => p.left = <<>>),
           DatesRight(p, broken)
    PROVE  Faithful(p, broken)
<1>1. PollTyped(poll) /\ OnceEach(poll) /\ Placed(poll) /\ NothingLost(poll) /\ There(up) \subseteq ever /\ RepositoryOK
    BY DEF RegistriesInv, Faithful, HistoryOK
<1>2. poll.last \in Nat
    BY <1>1 DEF PollTyped
<1>3. /\ page \subseteq There(up) /\ \A t \in page : t > poll.last
      /\ page # {} => /\ Max(page) \in Nat /\ Max(page) > poll.last /\ \A t \in page : t <= Max(page)
                      /\ \A t \in There(up) : poll.last < t /\ t <= Max(page) => t \in page
      /\ ~More(page) => \A t \in There(up) : poll.last < t => t \in page
    BY <1>1, <1>2, PageIs
<1>4. \A t \in Seen(poll) : t <= poll.last
    BY <1>1 DEF Placed
<1>5. OnceEach(p)
    BY <1>1, <1>3 DEF OnceEach
<1>6. ASSUME p.pc = "first" PROVE \A t \in Seen(p) : t <= p.last
  <2>1. page # {} /\ p.last = Max(page)
      BY <1>6 DEF More
  <2>2. \A t \in Seen(poll) : t \in Nat
    <3>1. Seen(poll) \subseteq Tags
        BY <1>1, SeenTags
    <3> QED  BY <3>1, RegistriesAssumption
  <2>3. \A t \in Seen(poll) : t <= Max(page)
      BY <1>2, <1>3, <1>4, <2>1, <2>2
  <2> QED  BY <1>3, <2>1, <2>3
<1>7. Placed(p)
    BY <1>6 DEF Placed, Walks
<1>8. \A t \in Steady : t \in There(up) /\ t \in Nat
    BY <1>1, SteadyThere, Subsets
<1>9. \A t \in Steady : t <= poll.last => t \in Seen(p)
    BY <1>1 DEF NothingLost
<1>10. \A t \in Steady : (p.pc = "first" => t <= p.last) => t \in Seen(p)
  <2> SUFFICES ASSUME NEW t \in Steady, p.pc = "first" => t <= p.last, ~(t <= poll.last) PROVE t \in page
      BY <1>9
  <2>1. poll.last < t /\ t \in There(up)
      BY <1>2, <1>8
  <2>2. CASE More(page)
      BY <1>3, <2>1, <2>2 DEF More
  <2>3. CASE ~More(page)
      BY <1>3, <2>1, <2>3
  <2> QED  BY <2>2, <2>3
<1>11. NothingLost(p) /\ KindsRight(p)
    BY <1>10 DEF NothingLost, KindsRight, Walks
<1> QED  BY <1>5, <1>7, <1>11 DEF Faithful

LEMMA TagsPageStep == ASSUME RegistriesInv, fetchTagsPage PROVE Faithful(poll', broken')
<1> DEFINE page == NextOf(There(up), poll.last)
           s == Sorted(page)
           list == poll.left \o s
           p == IF More(page) THEN [poll EXCEPT !.last = Max(page), !.left = list]
                ELSE [poll EXCEPT !.pc = "dates", !.left = list]
<1>1. poll' = p /\ broken' = broken /\ poll.pc = "first" /\ poll.provider = "ghcr"
    BY DEF fetchTagsPage, Continue, Client
<1>2. PollTyped(poll) /\ OnceEach(poll) /\ Placed(poll) /\ DatesRight(poll, broken) /\ RepositoryOK
    BY <1>1 DEF RegistriesInv, Faithful
<1>3. poll.last \in Nat /\ poll.left \in Seq(Tags)
    BY <1>2 DEF PollTyped
<1>4. page \subseteq There(up) /\ page \subseteq Tags /\ (\A t \in page : t > poll.last)
      /\ (page # {} => Max(page) \in Nat) /\ Enumerates(s, page)
    BY <1>2, <1>3, PageIs, Subsets, SortedIs
<1>5. page \cap Seen(poll) = {}
  <2>1. \A t \in Seen(poll) : t <= poll.last
      BY <1>1, <1>2 DEF Placed
  <2>2. \A t \in page : t \in Nat /\ ~(t <= poll.last)
      BY <1>2, <1>3, <1>4, Subsets
  <2> QED  BY <2>1, <2>2
<1> HIDE DEF s
<1>6. s \in Seq(Tags) /\ Elements(s) = page /\ Apart(s)
    BY <1>4, SeqMonotonic DEF Enumerates, Elements, Apart
<1>7. list \in Seq(Tags) /\ Elements(list) = Elements(poll.left) \cup page /\ Apart(list)
    BY <1>2, <1>3, <1>5, <1>6, AppendedIs DEF OnceEach, Seen
<1> HIDE DEF list
<1>8. More(page) => Max(page) \in Nat
    BY <1>4 DEF More
<1> HIDE DEF page
<1>9. /\ p.left = list /\ p.found = poll.found /\ p.provider = poll.provider /\ PollTyped(p)
      /\ \/ More(page) /\ p.pc = "first" /\ p.last = Max(page)
         \/ ~More(page) /\ p.pc = "dates"
    BY <1>1, <1>2, <1>7, <1>8 DEF PollTyped
<1> HIDE DEF p
<1>10. Seen(p) = Seen(poll) \cup page /\ Elements(p.left) \cap Versions(p.found) = {} /\ VersionsApart(p.found)
    BY <1>2, <1>5, <1>7, <1>9 DEF Seen, OnceEach
<1>11. DatesRight(p, broken)
    BY <1>2, <1>9 DEF DatesRight
<1>12. page = NextOf(There(up), poll.last)
    BY DEF page
<1>13. Faithful(p, broken)
    BY <1>1, <1>7, <1>9, <1>10, <1>11, <1>12, WalkFits DEF Walks
<1> QED  BY <1>1, <1>13

LEMMA ImageTagsStep == ASSUME RegistriesInv, fetchImageTags PROVE Faithful(poll', broken')
<1> DEFINE page == NextOf(There(up), poll.last)
           list == AsList(page, "tag")
           now == [i \in DOMAIN list |-> [list[i] EXCEPT !.date = IF @ = "zero" THEN "now" ELSE @]]
           found == poll.found \o now
           p == IF More(page) THEN [poll EXCEPT !.last = Max(page), !.found = found]
                ELSE [poll EXCEPT !.pc = "done", !.found = found]
<1>1. poll' = p /\ broken' = broken /\ poll.pc = "first" /\ poll.provider = "ecr-public"
    BY DEF fetchImageTags, Continue, Client, Done
<1>2. PollTyped(poll) /\ OnceEach(poll) /\ Placed(poll) /\ DatesRight(poll, broken) /\ RepositoryOK /\ poll.left = <<>>
    BY <1>1 DEF RegistriesInv, Faithful, Placed
<1>3. poll.last \in Nat /\ poll.found \in Seq(Results)
    BY <1>2 DEF PollTyped
<1>4. page \subseteq There(up) /\ page \subseteq Tags /\ (\A t \in page : t > poll.last)
      /\ (page # {} => Max(page) \in Nat) /\ ListOf(list, page, "tag")
    BY <1>2, <1>3, PageIs, Subsets, AsListIs
<1>5. page \cap Seen(poll) = {}
  <2>1. \A t \in Seen(poll) : t <= poll.last
      BY <1>1, <1>2 DEF Placed
  <2>2. \A t \in page : t \in Nat /\ ~(t <= poll.last)
      BY <1>2, <1>3, <1>4, Subsets
  <2> QED  BY <2>1, <2>2
<1> HIDE DEF list
<1>6. now \in Seq(Results) /\ Versions(now) = page /\ VersionsApart(now) /\ \A i \in DOMAIN now : now[i].date # "zero"
  <2>1. list \in Seq(Results) /\ Len(list) \in Nat /\ DOMAIN list = 1..Len(list) /\ \A i \in DOMAIN list : list[i] \in Results
      BY <1>4, LenProperties, ElementOfSeq DEF ListOf
  <2>2. \A r \in Results : LET n == [r EXCEPT !.date = IF @ = "zero" THEN "now" ELSE @]
                           IN  n \in Results /\ n.version = r.version /\ n.date # "zero"
      BY DEF Results, RegistryDates
  <2>3. now \in [1..Len(list) -> Results]
      BY <2>1, <2>2
  <2>4. DOMAIN now = DOMAIN list /\ \A i \in DOMAIN list : now[i].version = list[i].version /\ now[i].date # "zero"
      BY <2>1, <2>2
  <2> HIDE DEF now
  <2>5. now \in Seq(Results)
      BY <2>1, <2>3, SeqDef
  <2>6. Versions(now) = page /\ VersionsApart(now)
      BY <1>4, <2>4 DEF ListOf, Versions, VersionsApart
  <2> QED  BY <2>4, <2>5, <2>6
<1> HIDE DEF now
<1>7. Versions(poll.found) \cap page = {} /\ VersionsApart(poll.found)
    BY <1>2, <1>5 DEF Seen, OnceEach
<1>8. found \in Seq(Results) /\ Versions(found) = Versions(poll.found) \cup page /\ VersionsApart(found)
      /\ \A i \in DOMAIN found : found[i] \in Elements(poll.found) \cup Elements(now)
    BY <1>3, <1>6, <1>7, AppendedIs
<1> HIDE DEF found
<1>9. More(page) => Max(page) \in Nat
    BY <1>4 DEF More
<1> HIDE DEF page
<1>10. /\ p.left = <<>> /\ p.found = found /\ p.provider = poll.provider /\ PollTyped(p)
       /\ \/ More(page) /\ p.pc = "first" /\ p.last = Max(page)
          \/ ~More(page) /\ p.pc = "done"
    BY <1>1, <1>2, <1>8, <1>9 DEF PollTyped
<1> HIDE DEF p
<1>11. Elements(p.left) = {} /\ Apart(p.left)
    BY <1>10 DEF Elements, Apart
<1>12. Seen(p) = Seen(poll) \cup page
    BY <1>2, <1>8, <1>10 DEF Seen
<1>13. DatesRight(p, broken)
  <2> SUFFICES ASSUME NEW i \in DOMAIN found, found[i].date = "zero", found[i].version \in Steady
               PROVE  up[found[i].version].dates = {} \/ found[i].version \in broken
      BY <1>10 DEF DatesRight
  <2>1. found[i] \in Elements(poll.found)
      BY <1>6, <1>8 DEF Elements
  <2> QED  BY <1>2, <2>1 DEF DatesRight, Elements
<1>14. page = NextOf(There(up), poll.last)
    BY DEF page
<1>15. Faithful(p, broken)
    BY <1>1, <1>8, <1>10, <1>11, <1>12, <1>13, <1>14, WalkFits DEF Walks
<1> QED  BY <1>1, <1>15

\* The next tag gets a date, which is missing only if it has none or a request failed.
LEMMA DatedFits ==
    ASSUME RegistriesInv, NEW provider, NEW date \in RegistryDates, NEW failed \in BOOLEAN,
           Dated(provider, "tag", date, failed),
           date = "zero" => failed \/ DatesOf(Head(poll.left)) = {}
    PROVE  Faithful(poll', broken')
<1> DEFINE h == Head(poll.left)
           item == Result(h, "tag", date)
           left == Tail(poll.left)
           found == Append(poll.found, item)
           p == [poll EXCEPT !.left = left, !.found = found]
<1>0. date = "zero" => failed \/ DatesOf(h) = {}
    OBVIOUS
<1>1. /\ poll' = p /\ broken' = (IF failed THEN broken \cup {h} ELSE broken)
      /\ poll.pc = "dates" /\ poll.left # <<>>
    BY DEF Dated, Client
<1>2. PollTyped(poll) /\ OnceEach(poll) /\ NothingLost(poll) /\ KindsRight(poll) /\ DatesRight(poll, broken)
    BY <1>1 DEF RegistriesInv, Faithful
<1>3. poll.left \in Seq(Tags) /\ poll.found \in Seq(Results)
    BY <1>2 DEF PollTyped
<1>4. /\ h \in Tags /\ left \in Seq(Tags) /\ Len(left) = Len(poll.left) - 1
      /\ \A i \in 1..Len(left) : left[i] = poll.left[i + 1]
    BY <1>1, <1>3, HeadTailProperties
<1>5. h = poll.left[1] /\ Len(poll.left) \in Nat \ {0} /\ DOMAIN poll.left = 1..Len(poll.left) /\ DOMAIN left = 1..Len(left)
    BY <1>1, <1>3, <1>4, LenProperties, EmptySeq
<1>6. item \in Results /\ item.version = h /\ item.kind = "tag" /\ item.date = date
    BY <1>4 DEF Result, Results
<1> HIDE DEF item, h, left
<1>7. /\ found \in Seq(Results) /\ Len(found) = Len(poll.found) + 1
      /\ \A i \in 1..Len(poll.found) : found[i] = poll.found[i]
      /\ found[Len(poll.found) + 1] = item
    BY <1>3, <1>6, AppendProperties
<1>8. Len(poll.found) \in Nat /\ DOMAIN poll.found = 1..Len(poll.found) /\ DOMAIN found = 1..Len(found)
    BY <1>3, <1>7, LenProperties
<1> DEFINE n == Len(poll.found)
<1>9. /\ DOMAIN found = DOMAIN poll.found \cup {n + 1} /\ n + 1 \notin DOMAIN poll.found
      /\ \A i \in DOMAIN poll.found : found[i] = poll.found[i]
    BY <1>7, <1>8
<1>10. p.pc = "dates" /\ p.left = left /\ p.found = found /\ p.provider = poll.provider /\ PollTyped(p)
    BY <1>1, <1>2, <1>4, <1>7 DEF PollTyped
<1> HIDE DEF p, found, n
<1>11. \A i \in DOMAIN left : i + 1 \in DOMAIN poll.left /\ i + 1 # 1 /\ left[i] = poll.left[i + 1]
    BY <1>4, <1>5
<1>12. \A i \in DOMAIN poll.left : i = 1 \/ (i - 1 \in DOMAIN left /\ left[i - 1] = poll.left[i])
    BY <1>4, <1>5
<1>13. Elements(poll.left) = Elements(left) \cup {h}
    BY <1>5, <1>11, <1>12 DEF Elements
<1>14. h \notin Elements(left)
  <2> SUFFICES ASSUME NEW i \in DOMAIN left PROVE left[i] # h
      BY DEF Elements
  <2>1. 1 \in DOMAIN poll.left /\ i + 1 \in DOMAIN poll.left /\ i + 1 # 1
      BY <1>5, <1>11
  <2> QED  BY <1>2, <1>5, <1>11, <2>1 DEF OnceEach, Apart
<1>15. Apart(left)
  <2> SUFFICES ASSUME NEW i \in DOMAIN left, NEW j \in DOMAIN left, i # j PROVE left[i] # left[j]
      BY DEF Apart
  <2>1. i + 1 # j + 1
      BY <1>4, <1>5
  <2> QED  BY <1>2, <1>11, <2>1 DEF OnceEach, Apart
<1>16. Versions(found) = Versions(poll.found) \cup {h}
    BY <1>6, <1>7, <1>9 DEF Versions, n
<1>17. h \notin Versions(poll.found)
    BY <1>2, <1>13 DEF OnceEach
<1>18. \A i \in DOMAIN found : \/ i \in DOMAIN poll.found /\ found[i] = poll.found[i]
                               \/ i = n + 1 /\ found[i] = item
    BY <1>7, <1>9 DEF n
<1>19. VersionsApart(found)
  <2> SUFFICES ASSUME NEW i \in DOMAIN found, NEW j \in DOMAIN found, i # j PROVE found[i].version # found[j].version
      BY DEF VersionsApart
  <2>1. CASE i \in DOMAIN poll.found /\ j \in DOMAIN poll.found
      BY <1>2, <1>9, <2>1 DEF OnceEach, VersionsApart
  <2>2. CASE i = n + 1 \/ j = n + 1
      BY <1>6, <1>9, <1>17, <1>18, <2>2 DEF Versions
  <2> QED  BY <1>18, <2>1, <2>2
<1>20. OnceEach(p) /\ Seen(p) = Seen(poll)
  <2>1. Seen(p) = Seen(poll)
      BY <1>10, <1>13, <1>16 DEF Seen
  <2> QED  BY <1>2, <1>10, <1>13, <1>14, <1>15, <1>16, <1>17, <1>19, <2>1 DEF OnceEach
<1>21. Placed(p) /\ NothingLost(p)
    BY <1>1, <1>2, <1>10, <1>20 DEF Placed, NothingLost
<1>22. KindsRight(p)
  <2> SUFFICES ASSUME p.provider = "github", ~crowded
               PROVE  /\ \A t \in Steady : up[t].state = "released" => t \in Versions(found)
                      /\ \A i \in DOMAIN found : found[i].version \in Steady =>
                           (found[i].kind = "release" <=> up[found[i].version].state = "released")
      BY <1>10 DEF KindsRight
  <2>1. /\ \A t \in Steady : up[t].state = "released" => t \in Versions(poll.found)
        /\ \A i \in DOMAIN poll.found : poll.found[i].version \in Steady =>
             (poll.found[i].kind = "release" <=> up[poll.found[i].version].state = "released")
      BY <1>1, <1>2, <1>10 DEF KindsRight
  <2>2. h \in Steady => up[h].state # "released"
      BY <1>17, <2>1
  <2> QED  BY <1>6, <1>16, <1>18, <2>1, <2>2
<1>23. DatesRight(p, broken')
  <2> SUFFICES ASSUME NEW i \in DOMAIN found, found[i].date = "zero", found[i].version \in Steady
               PROVE  up[found[i].version].dates = {} \/ found[i].version \in broken'
      BY <1>10 DEF DatesRight
  <2>1. CASE i \in DOMAIN poll.found
      BY <1>1, <1>2, <1>9, <2>1 DEF DatesRight
  <2>2. CASE found[i] = item
    <3>1. h \in There(up)
        BY <1>1, <1>6, <2>2, SteadyThere
    <3>2. DatesOf(h) = up[h].dates
        BY <3>1 DEF DatesOf, There
    <3>3. failed \/ up[h].dates = {}
        BY <1>0, <1>6, <2>2, <3>2
    <3> QED  BY <1>1, <1>6, <2>2, <3>3
  <2> QED  BY <1>18, <2>1, <2>2
<1> QED  BY <1>1, <1>10, <1>20, <1>21, <1>22, <1>23 DEF Faithful

LEMMA MetadataStep == ASSUME RegistriesInv, GhcrMetadata \/ tagCommitDate PROVE Faithful(poll', broken')
<1> DEFINE h == Head(poll.left)
<1>1. CASE GhcrMetadata
  <2>1. PICK manifest \in RegistryAnswers, config \in RegistryAnswers :
          Dated("ghcr", "tag", fetchTagMetadata(DatesOf(h), manifest, config), ~manifest \/ ~config)
      BY <1>1 DEF GhcrMetadata
  <2>2. manifest \in BOOLEAN /\ config \in BOOLEAN
    <3>1. \A first, token, second : doRegistryRequest(first, token, second) \in BOOLEAN
        BY DEF doRegistryRequest
    <3>2. \A r \in RegistryAnswers : \E first, token, second : r = doRegistryRequest(first, token, second)
        BY DEF RegistryAnswers
    <3>3. \A r \in RegistryAnswers : r \in BOOLEAN
      <4> TAKE r \in RegistryAnswers
      <4>1. PICK first, token, second : r = doRegistryRequest(first, token, second)
          BY <3>2
      <4> HIDE DEF doRegistryRequest
      <4> QED  BY <3>1, <4>1, Zenon
    <3>4. manifest \in RegistryAnswers /\ config \in RegistryAnswers
        OBVIOUS
    <3> QED  BY <3>3, <3>4, Zenon
  <2> DEFINE date == fetchTagMetadata(DatesOf(h), manifest, config)
             failed == ~manifest \/ ~config
  <2>3. DatesOf(h) \subseteq Places
    <3>1. PollTyped(poll) /\ poll.left # <<>>
        BY <1>1 DEF RegistriesInv, Faithful, GhcrMetadata
    <3>2. h \in Tags
        BY <3>1, HeadTailProperties DEF PollTyped
    <3> QED  BY <3>2 DEF DatesOf, RegistriesInv, RepositoryOK, TagRows
  <2>4. date \in RegistryDates /\ (date = "zero" => failed \/ DatesOf(h) = {})
      BY <2>2, <2>3 DEF fetchTagMetadata, RegistryDates, Places
  <2>5. failed \in BOOLEAN /\ Dated("ghcr", "tag", date, failed)
      BY <2>1
  <2> HIDE DEF date, failed
  <2> QED  BY <2>4, <2>5, DatedFits
<1>2. CASE tagCommitDate
  <2>1. PICK ok \in BOOLEAN : Dated("github", "tag", IF ok /\ DatesOf(h) # {} THEN "given" ELSE "zero", ~ok)
      BY <1>2 DEF tagCommitDate
  <2> DEFINE date == IF ok /\ DatesOf(h) # {} THEN "given" ELSE "zero"
             failed == ~ok
  <2>2. date \in RegistryDates /\ (date = "zero" => failed \/ DatesOf(h) = {})
      BY DEF RegistryDates
  <2>3. failed \in BOOLEAN /\ Dated("github", "tag", date, failed)
      BY <2>1
  <2> HIDE DEF date, failed
  <2> QED  BY <2>2, <2>3, DatedFits
<1> QED  BY <1>1, <1>2

LEMMA FinishedStep == ASSUME RegistriesInv, Finished PROVE Faithful(poll', broken')
<1> DEFINE p == [poll EXCEPT !.pc = "done"]
<1>1. poll' = p /\ broken' = broken /\ poll.pc = "dates" /\ poll.left = <<>>
    BY DEF Finished, Continue
<1>2. PollTyped(poll) /\ OnceEach(poll) /\ NothingLost(poll) /\ KindsRight(poll) /\ DatesRight(poll, broken)
    BY <1>1 DEF RegistriesInv, Faithful
<1>3. p.pc = "done" /\ p.left = poll.left /\ p.found = poll.found /\ p.provider = poll.provider /\ PollTyped(p)
    BY <1>2 DEF PollTyped
<1> HIDE DEF p
<1>4. Seen(p) = Seen(poll)
    BY <1>3 DEF Seen
<1>5. OnceEach(p) /\ Placed(p) /\ NothingLost(p) /\ KindsRight(p) /\ DatesRight(p, broken)
    BY <1>1, <1>2, <1>3, <1>4 DEF OnceEach, Placed, NothingLost, KindsRight, DatesRight
<1> QED  BY <1>1, <1>3, <1>5 DEF Faithful

\* The poll begins and ends.
LEMMA RestFits == ASSUME NEW b PROVE Faithful(AtRest, b)
BY EmptySeq DEF Faithful, AtRest, PollTyped

LEMMA BeginStep == ASSUME RegistriesInv, NEW provider \in Providers, LoadEnabledSources(provider) PROVE RegistriesInv'
<1> DEFINE p == [AtRest EXCEPT !.pc = "first", !.provider = provider]
<1>1. poll' = p /\ UNCHANGED <<up, changes>> /\ always' = {<<t, up[t].state>> : t \in There(up)} /\ ever' = There(up)
      /\ broken' = {} /\ crowded' = (Cardinality(Released(up) \cup Drafted(up)) > PageSize)
    BY DEF LoadEnabledSources
<1>2. /\ p.pc = "first" /\ p.provider = provider /\ p.last = 0 /\ p.left = <<>> /\ p.found = <<>> /\ PollTyped(p)
    BY EmptySeq DEF AtRest, PollTyped
<1> HIDE DEF p
<1>3. Elements(p.left) = {} /\ Versions(p.found) = {} /\ Apart(p.left) /\ VersionsApart(p.found) /\ DOMAIN p.found = {}
    BY <1>2 DEF Elements, Versions, Apart, VersionsApart
<1>4. \A t \in Tags : t \in Nat /\ ~(t <= 0)
    BY RegistriesAssumption
<1>5. OnceEach(p)' /\ Placed(p)' /\ NothingLost(p)' /\ KindsRight(p)' /\ DatesRight(p, {})'
    BY <1>2, <1>3, <1>4 DEF OnceEach, Placed, NothingLost, KindsRight, DatesRight, Seen, Steady
<1>6. Faithful(poll, broken)'
    BY <1>1, <1>2, <1>5 DEF Faithful, PollTyped
<1>7. RepositoryOK'
    BY <1>1 DEF RegistriesInv, RepositoryOK, There
<1>8. HistoryOK'
  <2>1. Released(up) \cup Drafted(up) \subseteq There(up)
      BY DEF Released, Drafted, There
  <2>2. Cardinality(Released(up) \cup Drafted(up)) \in Nat
      BY <2>1, Subsets DEF RegistriesInv
  <2>3. ~crowded' => Cardinality(Released(up) \cup Drafted(up)) <= PageSize
    <3>1. ~crowded' => ~(Cardinality(Released(up) \cup Drafted(up)) > PageSize)
        BY <1>1, Zenon
    <3> QED  BY <2>2, <3>1, RegistriesAssumption
  <2> QED  BY <1>1, <2>3 DEF HistoryOK, There, Released, Drafted
<1> QED  BY <1>6, <1>7, <1>8 DEF RegistriesInv

\* Upstream a tag changes its state; the steady ones stay as they are.
LEMMA UpstreamStep ==
    ASSUME RegistriesInv, NEW t \in Tags, NEW row \in TagRows, row.state # up[t].state, Upstream(t, row)
    PROVE  RegistriesInv'
<1>1. /\ changes' = changes + 1 /\ up' = [up EXCEPT ![t] = row] /\ poll' = poll /\ broken' = broken
      /\ always' = always \cap {<<x, up'[x].state>> : x \in There(up')}
      /\ ever' = (IF poll = AtRest THEN {} ELSE ever \cup There(up'))
      /\ crowded' = (poll # AtRest /\ (crowded \/ Cardinality(Released(up') \cup Drafted(up')) > PageSize))
    BY DEF Upstream
<1>2. RepositoryOK'
  <2>1. up' \in [Tags -> TagRows] /\ changes' \in Nat
      BY <1>1 DEF RegistriesInv, RepositoryOK
  <2>2. There(up') \subseteq There(up) \cup {t}
      BY <1>1 DEF There, RegistriesInv, RepositoryOK
  <2>3. IsFiniteSet(There(up) \cup {t})
      BY FS_AddElement DEF RegistriesInv, RepositoryOK
  <2>4. IsFiniteSet(There(up'))
      BY <2>2, <2>3, FS_Subset
  <2>5. There(up)' = There(up')
      BY DEF There
  <2> QED  BY <2>1, <2>4, <2>5 DEF RepositoryOK
<1>3. CASE poll.pc = "idle"
  <2>1. HistoryOK'
      BY <1>1, <1>3 DEF HistoryOK
  <2>2. Faithful(poll, broken)'
      BY <1>1, <1>3 DEF RegistriesInv, Faithful, PollTyped
  <2> QED  BY <1>2, <2>1, <2>2 DEF RegistriesInv
<1>4. CASE poll.pc # "idle"
  <2>1. poll # AtRest
      BY <1>4 DEF AtRest
  <2>2. ever \subseteq ever' /\ There(up') \subseteq ever'
      BY <1>1, <2>1
  <2>3. ~crowded' => ~crowded /\ ~(Cardinality(Released(up') \cup Drafted(up')) > PageSize)
      BY <1>1, <2>1, Zenon
  <2>4. Cardinality(Released(up') \cup Drafted(up')) \in Nat
    <3>1. Released(up') \cup Drafted(up') \subseteq There(up') /\ There(up') = There(up)'
        BY DEF Released, Drafted, There
    <3>2. IsFiniteSet(There(up'))
        BY <1>2, <3>1 DEF RepositoryOK
    <3> QED  BY <3>1, <3>2, FS_Subset, FS_CardinalityType
  <2>5. ~crowded' => Cardinality(Released(up') \cup Drafted(up')) <= PageSize
      BY <2>3, <2>4, RegistriesAssumption
  <2>6. HistoryOK'
      BY <1>1, <2>2, <2>5 DEF HistoryOK, There, Released, Drafted
  <2>7. \A x \in Steady' : x \in Steady /\ up'[x] = up[x]
    <3> SUFFICES ASSUME NEW x \in Tags, <<x, up'[x].state>> \in always' PROVE <<x, up[x].state>> \in always /\ up'[x] = up[x]
        BY DEF Steady
    <3>1. <<x, up'[x].state>> \in always
        BY <1>1
    <3>2. up'[x].state = up[x].state
        BY <1>4, <3>1 DEF RegistriesInv, HistoryOK
    <3>3. x # t
        BY <1>1, <3>2 DEF RegistriesInv, RepositoryOK
    <3> QED  BY <1>1, <3>1, <3>2, <3>3 DEF RegistriesInv, RepositoryOK
  <2>8. PollTyped(poll) /\ OnceEach(poll) /\ Placed(poll) /\ NothingLost(poll) /\ KindsRight(poll) /\ DatesRight(poll, broken)
      BY <1>4 DEF RegistriesInv, Faithful
  <2>9. OnceEach(poll)' /\ Placed(poll)'
      BY <1>1, <2>2, <2>8 DEF OnceEach, Placed, Seen
  <2>10. NothingLost(poll)'
      BY <1>1, <2>7, <2>8 DEF NothingLost, Seen
  <2>11. KindsRight(poll)'
      BY <1>1, <2>3, <2>7, <2>8 DEF KindsRight
  <2>12. DatesRight(poll, broken)'
      BY <1>1, <2>7, <2>8 DEF DatesRight
  <2>13. Faithful(poll, broken)'
      BY <1>1, <2>8, <2>9, <2>10, <2>11, <2>12 DEF Faithful, PollTyped
  <2> QED  BY <1>2, <2>6, <2>13 DEF RegistriesInv
<1> QED  BY <1>3, <1>4

LEMMA EditsStep ==
    ASSUME RegistriesInv, NEW t \in Tags,
           \/ \E dates \in DateSets : Push(t, dates)
           \/ \E s \in {"draft", "released"} : Publish(t, s)
           \/ RemoveTag(t)
    PROVE  RegistriesInv'
<1>1. up[t] \in TagRows /\ changes \in Nat
    BY DEF RegistriesInv, RepositoryOK
<1>2. CASE \E dates \in DateSets : Push(t, dates)
  <2>1. PICK dates \in DateSets : Push(t, dates)
      BY <1>2
  <2> DEFINE row == [state |-> "bare", at |-> changes + 1, dates |-> dates]
  <2>2. row \in TagRows /\ row.state = "bare"
      BY <1>1, RegistriesAssumption DEF TagRows
  <2>3. Upstream(t, row) /\ up[t].state = "absent"
      BY <2>1 DEF Push
  <2> HIDE DEF row
  <2> QED  BY <2>2, <2>3, UpstreamStep
<1>3. CASE \E s \in {"draft", "released"} : Publish(t, s)
  <2>1. PICK s \in {"draft", "released"} : Publish(t, s)
      BY <1>3
  <2> DEFINE row == [up[t] EXCEPT !.state = s]
  <2>2. row \in TagRows /\ row.state = s
      BY <1>1 DEF TagRows
  <2>3. Upstream(t, row) /\ up[t].state # s
      BY <2>1 DEF Publish
  <2> HIDE DEF row
  <2> QED  BY <2>2, <2>3, UpstreamStep
<1>4. CASE RemoveTag(t)
  <2>1. Absentee \in TagRows /\ Absentee.state = "absent"
      BY DEF Absentee, TagRows
  <2>2. Upstream(t, Absentee) /\ up[t].state # "absent"
      BY <1>4 DEF RemoveTag
  <2> QED  BY <2>1, <2>2, UpstreamStep
<1> QED  BY <1>2, <1>3, <1>4

LEMMA ClientStep ==
    ASSUME RegistriesInv, UNCHANGED <<up, always, ever, crowded, changes>>, poll.pc # "idle", Faithful(poll', broken')
    PROVE  RegistriesInv'
<1>1. RepositoryOK' /\ HistoryOK'
    BY DEF RegistriesInv, RepositoryOK, HistoryOK, There, Released, Drafted
<1>2. Faithful(poll, broken)'
    BY DEF Faithful, PollTyped, OnceEach, Placed, NothingLost, KindsRight, DatesRight, Seen, Steady
<1> QED  BY <1>1, <1>2 DEF RegistriesInv

LEMMA EndStep == ASSUME RegistriesInv, Over PROVE RegistriesInv'
<1>1. poll' = AtRest /\ UNCHANGED <<up, changes>>
    BY DEF Over
<1>2. RepositoryOK' /\ HistoryOK'
    BY <1>1 DEF RegistriesInv, RepositoryOK, HistoryOK, There, AtRest
<1>3. Faithful(poll, broken)'
    BY <1>1, EmptySeq DEF Faithful, AtRest, PollTyped
<1> QED  BY <1>2, <1>3 DEF RegistriesInv

LEMMA RegistriesBegin == RegistriesInit => RegistriesInv
<1> SUFFICES ASSUME RegistriesInit PROVE RegistriesInv
    OBVIOUS
<1>1. up \in [Tags -> TagRows] /\ There(up) = {} /\ changes \in Nat
    BY DEF RegistriesInit, Absentee, TagRows, There
<1>2. RepositoryOK
    BY <1>1, FS_EmptySet DEF RepositoryOK
<1>3. poll = AtRest /\ poll.pc = "idle"
    BY DEF RegistriesInit, AtRest
<1> QED  BY <1>2, <1>3, RestFits DEF RegistriesInv, HistoryOK

LEMMA RegistriesStep == RegistriesInv /\ [RegistriesNext]_registryVars => RegistriesInv'
<1> SUFFICES ASSUME RegistriesInv, [RegistriesNext]_registryVars PROVE RegistriesInv'
    OBVIOUS
<1>1. CASE \E p \in Providers : LoadEnabledSources(p)
    BY <1>1, BeginStep
<1>2. CASE Fails \/ FetchNewReleases
    BY <1>2, EndStep DEF Fails, FetchNewReleases
<1>3. CASE \/ DockerHubFetch \/ GitLabFetch \/ NpmFetch \/ PyPIFetch \/ fetchReleases \/ fetchTags
           \/ fetchTagsPage \/ fetchImageTags \/ GhcrMetadata \/ tagCommitDate \/ Finished
  <2>1. Faithful(poll', broken')
      BY <1>3, SingleStep, ReleasesStep, TagsStep, TagsPageStep, ImageTagsStep, MetadataStep, FinishedStep
  <2>2. UNCHANGED <<up, always, ever, crowded, changes>> /\ poll.pc # "idle"
      BY <1>3 DEF DockerHubFetch, GitLabFetch, NpmFetch, PyPIFetch, fetchReleases, fetchTags, fetchTagsPage, fetchImageTags,
         GhcrMetadata, tagCommitDate, Finished, Client, Done, Continue, Dated
  <2> QED  BY <2>1, <2>2, ClientStep
<1>4. CASE \E t \in Tags : \/ \E dates \in DateSets : Push(t, dates)
                           \/ \E s \in {"draft", "released"} : Publish(t, s)
                           \/ RemoveTag(t)
    BY <1>4, EditsStep
<1>5. CASE UNCHANGED registryVars
    BY <1>5 DEF registryVars, RegistriesInv, RepositoryOK, HistoryOK, There, Released, Drafted, Faithful, PollTyped, OnceEach,
       Placed, NothingLost, KindsRight, DatesRight, Seen, Steady
<1> QED  BY <1>1, <1>2, <1>3, <1>4, <1>5 DEF RegistriesNext

LEMMA VersionsCount ==
    ASSUME NEW s \in Seq(Results), VersionsApart(s) PROVE Cardinality(Versions(s)) = Len(s)
<1> DEFINE n == Len(s)
           f == [i \in 1..n |-> s[i].version]
<1>1. n \in Nat /\ DOMAIN s = 1..n
    BY LenProperties
<1>2. f \in [1..n -> Versions(s)]
    BY <1>1 DEF Versions
<1>3. \A i, j \in 1..n : f[i] = f[j] => i = j
    BY <1>1 DEF VersionsApart
<1>4. \A v \in Versions(s) : \E i \in 1..n : f[i] = v
    BY <1>1 DEF Versions
<1> HIDE DEF f
<1>5. f \in Bijection(1..n, Versions(s))
    BY <1>2, <1>3, <1>4 DEF Bijection, Injection, Surjection, IsInjective
<1>6. ExistsBijection(1..n, Versions(s))
    BY <1>5 DEF ExistsBijection
<1> QED  BY <1>1, <1>6, FS_CountingElements

\* A poll returns every version once and none that was never there, and leaves out none
\* it should return, with the right kind and date, whatever the repository's owners
\* push, publish and remove between its requests.
THEOREM PollsAreFaithful == RegistriesSpec => []PollFaithful
<1>1. RegistriesInv => PollFaithful
  <2> SUFFICES ASSUME RegistriesInv, poll.pc = "done" PROVE PollFaithful
      BY DEF PollFaithful
  <2> DEFINE found == poll.found
             versions == {r.version : r \in Range(found)}
             Remained(states) == {t \in Tags : \E s \in states : <<t, s>> \in always}
             states == {"bare", "draft", "released"}
  <2>1. /\ PollTyped(poll) /\ OnceEach(poll) /\ Placed(poll) /\ NothingLost(poll) /\ KindsRight(poll) /\ DatesRight(poll, broken)
        /\ always \subseteq {<<t, up[t].state>> : t \in There(up)}
      BY DEF RegistriesInv, Faithful, HistoryOK
  <2>2. versions = Versions(found)
      BY DEF Range, Versions
  <2>3. poll.left = <<>> /\ Elements(poll.left) = {}
      BY <2>1 DEF Placed, Elements
  <2>4. Seen(poll) = versions
      BY <2>2, <2>3 DEF Seen
  <2>5. \A t \in Remained(states) : t \in Steady
      BY <2>1 DEF Steady
  <2>6. \A t \in Remained({"released"}) : t \in Steady /\ up[t].state = "released"
      BY <2>1 DEF Steady
  <2>7. \A t \in Remained({"bare", "draft"}) : t \in Steady /\ up[t].state # "released"
      BY <2>1 DEF Steady
  <2>8. \A r \in Range(found) : \E i \in DOMAIN found : r = found[i]
      BY DEF Range
  <2>9. \A i \in DOMAIN found : found[i].kind \in {"tag", "release"}
    <3>1. found \in Seq(Results)
        BY <2>1 DEF PollTyped
    <3>2. \A i \in DOMAIN found : found[i] \in Results
        BY <3>1, LenProperties, ElementOfSeq
    <3> QED  BY <3>2 DEF Results
  <2>10. Cardinality(versions) = Len(found) /\ versions \subseteq ever
      BY <2>1, <2>2, <2>4, VersionsCount DEF PollTyped, OnceEach
  <2> HIDE DEF versions, Remained
  <2>11. poll.provider \in {"ghcr", "ecr-public", "npm"} => Remained(states) \subseteq versions
      BY <2>1, <2>4, <2>5 DEF NothingLost, Walks
  <2>12. poll.provider = "pypi" => Remained({"released"}) \subseteq versions
      BY <2>1, <2>4, <2>6 DEF NothingLost
  <2>13. ASSUME poll.provider = "github", ~crowded
         PROVE  /\ Remained({"released"}) \subseteq versions
                /\ \A r \in Range(found) : r.version \in Remained({"released"}) => r.kind = "release"
                /\ \A r \in Range(found) : r.version \in Remained({"bare", "draft"}) => r.kind = "tag"
    <3>1. /\ \A t \in Steady : up[t].state = "released" => t \in Versions(found)
          /\ \A i \in DOMAIN found : found[i].version \in Steady =>
               (found[i].kind = "release" <=> up[found[i].version].state = "released")
        BY <2>1, <2>13 DEF KindsRight
    <3> QED  BY <2>2, <2>6, <2>7, <2>8, <2>9, <3>1
  <2>14. \A r \in Range(found) : r.date = "zero" /\ r.version \in Remained(states) =>
           up[r.version].dates = {} \/ r.version \in broken
      BY <2>1, <2>5, <2>8 DEF DatesRight
  <2> QED  BY <2>10, <2>11, <2>12, <2>13, <2>14 DEF PollFaithful, versions, Remained
<1> QED  BY <1>1, RegistriesBegin, RegistriesStep, PTL DEF RegistriesSpec
=============================================================================
