----------------------------- MODULE Migration -----------------------------
(***************************************************************************)
(* The Airtable migration (apps/api/src/migration and its page): the audit *)
(* of a CSV export, the decisions people record on its rows, and imports   *)
(* of what they approved into companies, contacts, outreach and the other  *)
(* tables.  A row is known by its table and its place in it, for the       *)
(* export has no record ids, so a decision outlives the export it was made *)
(* on.  One import runs at a time, and its transaction is one step.        *)
(*                                                                         *)
(* A row is [table, name, key, company, contact, flaw]: key is the domain  *)
(* of a company row, company and contact are the names it links to (None   *)
(* for none) and flaw is what is wrong with it, if anything.  Left out:    *)
(* the other columns, links to several names, evidence links (every import *)
(* inserts their sources anew) and the tables nobody imports (Meetings,    *)
(* Proposals).  Of the receipt the outcome of each imported row is kept.   *)
(***************************************************************************)
EXTENDS Naturals, FiniteSets, Sequences, SequencesExt, Functions

CONSTANTS
    Exports,            \* the exports that may lie in the source directory
    Content,            \* Exports -> sequence of rows
    None,               \* no link, no key
    ReviewBound,        \* bound: single decisions
    ExportBound,        \* bound: exports put in the place of another
    WorkBound,          \* bound: changes people make in the CRM
    ImportBound         \* bound: imports

ASSUME MigrationConstants ==
    /\ DOMAIN Content = Exports
    /\ {ReviewBound, ExportBound, WorkBound, ImportBound} \subseteq Nat

VARIABLES
    source,             \* the export in the directory
    decision,           \* MigrationReview.decision by row id
    crm,                \* what the CRM holds, by the keys an import looks for
    importing,          \* audit and decisions a request has read for its import
    last,               \* the last import's export, decisions and MigrationRunItem.outcome by row, as long
                        \* as nobody has worked in the CRM since (history)
    reviews, exports, works, imports    \* the counters of the bounds

migrationVars == <<source, decision, crm, importing, last, reviews, exports, works, imports>>

\* Mutant of Tables: contacts before their companies.
ContactsFirst == <<"Discovery Briefs", "Contacts", "Companies", "Outreach", "Opportunities",
                   "Interactions", "Tasks", "Lead Sources">>

\* The tables in the order of an import.
Tables == <<"Discovery Briefs", "Companies", "Contacts", "Outreach", "Opportunities",
            "Interactions", "Tasks", "Lead Sources">>

\* legacyId: the table of the i-th row of an export and its place there.
Id(e, i) == <<Content[e][i].table,
              Cardinality({j \in 1 .. i : Content[e][j].table = Content[e][i].table})>>
Rows == [e \in Exports |-> [id \in {Id(e, i) : i \in DOMAIN Content[e]} |->
                              Content[e][CHOOSE i \in DOMAIN Content[e] : Id(e, i) = id]]]
RowAt(e, id) == Rows[e][id]
IdsOf(e) == DOMAIN Rows[e]
Ids == UNION {IdsOf(e) : e \in Exports}

NoImport == [export |-> None]

MigrationInit ==
    /\ source \in Exports
    /\ decision = [id \in Ids |-> "PENDING"]
    /\ crm = [company |-> <<>>, contact |-> {}, outreach |-> {}, record |-> <<>>, brief |-> <<>>]
    /\ importing = NoImport
    /\ last = NoImport
    /\ reviews = 0 /\ exports = 0 /\ works = 0 /\ imports = 0

-----------------------------------------------------------------------------
(* The audit of an export.                                                 *)

RowsOf(e, table) == {id \in IdsOf(e) : id[1] = table}

\* domainsByCompanyName, contactKeysByNameCompany
Domains(e, name) ==
    {RowAt(e, id).key : id \in {c \in RowsOf(e, "Companies") : RowAt(e, c).name = name}} \ {None}
ContactKeys(e, name, company) ==
    {<<k, name>> : k \in {k \in Domains(e, company) :
        /\ Cardinality(Domains(e, company)) = 1
        /\ \E id \in RowsOf(e, "Contacts") :
             RowAt(e, id).name = name /\ RowAt(e, id).company = company}}

\* Rows of one table that derive the same key.
Twins(e, id) ==
    \E other \in RowsOf(e, id[1]) \ {id} :
        LET a == RowAt(e, id)  b == RowAt(e, other) IN
        CASE id[1] = "Companies" -> a.key # None /\ a.key = b.key
          [] id[1] = "Contacts" -> a.name = b.name /\ Cardinality(Domains(e, a.company)) = 1
                                   /\ Domains(e, a.company) = Domains(e, b.company)
          [] OTHER -> FALSE

HasError(e, id) ==
    LET r == RowAt(e, id) IN
    \/ r.flaw = "error"
    \/ id[1] = "Companies" /\ r.key = None
    \/ id[1] \in {"Contacts", "Outreach"} /\ Domains(e, r.company) = {}
    \/ id[1] = "Outreach" /\ ContactKeys(e, r.contact, r.company) = {}

IsAmbiguous(e, id) ==
    LET r == RowAt(e, id) IN
    \/ Twins(e, id)
    \/ r.flaw = "stale"
    \/ id[1] = "Contacts" /\ Cardinality(Domains(e, r.company)) > 1

\* Keys are generated, and search themes of briefs.
HasRepairs(e, id) ==
    /\ RowAt(e, id).flaw \in {"unkeyed", "noTheme"} /\ ~HasError(e, id)
    /\ id[1] = "Contacts" => Cardinality(Domains(e, RowAt(e, id).company)) = 1

IsSupporting(id) == id[1] \in {"Opportunities", "Interactions", "Tasks", "Lead Sources"}

\* classify
Audit ==
    [e \in Exports |-> [id \in IdsOf(e) |->
       CASE RowAt(e, id).flaw = "test" -> "TEST_SUSPECTED"
         [] HasError(e, id) -> "BLOCKED"
         [] IsAmbiguous(e, id) -> "AMBIGUOUS"
         [] HasRepairs(e, id) \/ IsSupporting(id) -> "REPAIRABLE"
         [] OTHER -> "READY"]]
Status(e, id) == Audit[e][id]

-----------------------------------------------------------------------------
(* The review.                                                             *)

\* The page hides the rows that are READY and approved.
Decide(id, to) ==
    /\ reviews < ReviewBound
    /\ id \in IdsOf(source)
    /\ ~(Status(source, id) = "READY" /\ decision[id] = "APPROVE")
    /\ CASE to = "APPROVE" -> Status(source, id) # "BLOCKED"
         [] to = "APPLY_REPAIRS" -> HasRepairs(source, id)
         [] to = "SKIP" -> TRUE
         [] to = "PENDING" -> decision[id] # "PENDING"
    /\ decision' = [decision EXCEPT ![id] = to]
    /\ reviews' = reviews + 1
    /\ UNCHANGED <<source, crm, importing, last, exports, works, imports>>

\* Approve all safe, whatever was decided on those rows.
ApproveSafe ==
    /\ decision' = [id \in Ids |->
         IF id \notin IdsOf(source) THEN decision[id]
         ELSE CASE Status(source, id) = "READY" -> "APPROVE"
                [] Status(source, id) = "REPAIRABLE" -> "APPLY_REPAIRS"
                [] Status(source, id) = "TEST_SUSPECTED" -> "SKIP"
                [] OTHER -> decision[id]]
    /\ UNCHANGED <<source, crm, importing, last, reviews, exports, works, imports>>

-----------------------------------------------------------------------------
(* The import.                                                             *)

Consents == {"APPROVE", "APPLY_REPAIRS"}

\* The rows a preview counts on, without what they link to.
Allowed(e, d, id) == d[id] \in Consents /\ Status(e, id) # "BLOCKED"

AllowedCompanies(e, d) ==
    {RowAt(e, id).name : id \in {c \in RowsOf(e, "Companies") : Allowed(e, d, c)}}
AllowedContacts(e, d) ==
    {<<RowAt(e, id).name, RowAt(e, id).company>> :
        id \in {c \in RowsOf(e, "Contacts") :
                  Allowed(e, d, c) /\ RowAt(e, c).company \in AllowedCompanies(e, d)}}

\* buildImportPreview
Preview(e, d) ==
    {id \in IdsOf(e) :
        LET r == RowAt(e, id) IN
        /\ Allowed(e, d, id)
        /\ id[1] \in {"Contacts", "Outreach"} => r.company \in AllowedCompanies(e, d)
        /\ id[1] \in {"Opportunities", "Interactions", "Tasks"} /\ r.company # None =>
             r.company \in AllowedCompanies(e, d)
        /\ id[1] \in {"Outreach", "Interactions"} /\ r.contact # None =>
             <<r.contact, r.company>> \in AllowedContacts(e, d)}

\* execute, up to the transaction of the import
ReadForImport ==
    /\ importing = NoImport
    /\ Preview(source, decision) # {}
    /\ importing' = [export |-> source, decision |-> decision]
    /\ UNCHANGED <<source, decision, crm, last, reviews, exports, works, imports>>

\* findCompanyByName: a name that two companies bear finds none.
CompanyNamed(c, name) ==
    LET keys == {k \in DOMAIN c.company : c.company[k] = name}
    IN IF Cardinality(keys) = 1 THEN keys ELSE {}

\* What becomes of a row, and the CRM after it; found says whether it was there before.
Blocked(c) == [crm |-> c, outcome |-> "BLOCKED"]
Stored(c, found) == [crm |-> c, outcome |-> IF found THEN "UPDATED" ELSE "CREATED"]

UpsertCompany(c, r) ==
    IF r.flaw = "noWebsite" THEN Blocked(c)
    ELSE Stored([c EXCEPT !.company = [k \in DOMAIN @ \cup {r.key} |-> IF k = r.key THEN r.name ELSE @[k]]],
                r.key \in DOMAIN c.company)

UpsertContact(c, r) ==
    LET whom == {<<k, r.name>> : k \in CompanyNamed(c, r.company)}
    IN IF r.flaw = "error" \/ whom = {} THEN Blocked(c)
       ELSE Stored([c EXCEPT !.contact = @ \cup whom], whom \subseteq c.contact)

UpsertOutreach(c, r) ==
    LET whom == {<<k, r.contact>> : k \in CompanyNamed(c, r.company)} \cap c.contact
    IN IF r.flaw = "error" \/ whom = {} THEN Blocked(c)
       ELSE Stored([c EXCEPT !.outreach = @ \cup whom], whom \subseteq c.outreach)

\* Nothing keeps two briefs of one name apart: an import always inserts one more.
UpsertBrief(c, r, repair) ==
    IF r.flaw = "error" \/ (r.flaw = "noTheme" /\ ~repair) THEN Blocked(c)
    ELSE Stored([c EXCEPT !.brief = Append(@, r.name)], Contains(c.brief, r.name))

\* Opportunities and tasks are found by company and name, the rest by name.
UpsertRecord(c, r) ==
    LET keys == CompanyNamed(c, r.company)
        row == <<r.table, IF r.table \in {"Opportunities", "Tasks"} THEN keys ELSE {}, r.name>>
        linked == r.table = "Lead Sources" \/ (r.company = None /\ r.table # "Opportunities")
        met == r.table # "Interactions" \/ r.contact = None
               \/ \E k \in keys : <<k, r.contact>> \in c.contact
    IN IF ~met \/ (~linked /\ keys = {}) THEN Blocked(c)
       ELSE IF Contains(c.record, row) THEN Stored(c, TRUE)
       ELSE Stored([c EXCEPT !.record = Append(@, row)], FALSE)

Upsert(c, r, repair) ==
    CASE r.table = "Discovery Briefs" -> UpsertBrief(c, r, repair)
      [] r.table = "Companies" -> UpsertCompany(c, r)
      [] r.table = "Contacts" -> UpsertContact(c, r)
      [] r.table = "Outreach" -> UpsertOutreach(c, r)
      [] OTHER -> UpsertRecord(c, r)

\* The places of an export by table and place.
Ordered ==
    [e \in Exports |-> FlattenSeq([t \in DOMAIN Tables |->
       [n \in 1 .. Cardinality(RowsOf(e, Tables[t])) |-> <<Tables[t], n>>]])]

\* Of the export that was audited the places that are approved.
Imported == SelectSeq(Ordered[importing.export], LAMBDA id : importing.decision[id] \in Consents)

\* The row is the one that lies at this place by now, if there is one.
ImportRow(done, id) ==
    LET step == IF id \notin IdsOf(source) THEN Blocked(done.crm)
                ELSE Upsert(done.crm, RowAt(source, id), importing.decision[id] = "APPLY_REPAIRS")
    IN [crm |-> step.crm, outcome |-> done.outcome @@ id :> step.outcome]

\* A company without a usable domain throws and takes the whole import with it.
Poisoned ==
    \E id \in ToSet(Imported) \cap IdsOf(source) : id[1] = "Companies" /\ RowAt(source, id).key = None

\* executeCoreImport
Import ==
    /\ importing # NoImport /\ ~Poisoned /\ imports < ImportBound
    /\ LET done == FoldLeft(ImportRow, [crm |-> crm, outcome |-> <<>>], Imported) IN
         /\ crm' = done.crm
         /\ last' = [export |-> importing.export, source |-> source,
                     decision |-> importing.decision, outcome |-> done.outcome]
    /\ importing' = NoImport
    /\ imports' = imports + 1
    /\ UNCHANGED <<source, decision, reviews, exports, works>>

\* The transaction is rolled back: the import failed, or its process died.
ImportFails ==
    /\ importing # NoImport
    /\ importing' = NoImport
    /\ UNCHANGED <<source, decision, crm, last, reviews, exports, works, imports>>

-----------------------------------------------------------------------------
(* What goes on around it.                                                 *)

Reexport(e) ==
    /\ exports < ExportBound /\ e # source
    /\ source' = e
    /\ exports' = exports + 1
    /\ UNCHANGED <<decision, crm, importing, last, reviews, works, imports>>

\* People add a company, or give it another name.
PersonWorks(k, name) ==
    /\ works < WorkBound
    /\ crm' = [crm EXCEPT !.company =
                 [x \in DOMAIN @ \cup {k} |-> IF x = k THEN name ELSE @[x]]]
    /\ last' = NoImport
    /\ works' = works + 1
    /\ UNCHANGED <<source, decision, importing, reviews, exports, imports>>

Companies == UNION {{Content[e][i] : i \in DOMAIN Content[e]} : e \in Exports}

MigrationNext ==
    \/ \E id \in Ids, to \in {"APPROVE", "APPLY_REPAIRS", "SKIP", "PENDING"} : Decide(id, to)
    \/ ApproveSafe
    \/ ReadForImport
    \/ Import
    \/ ImportFails
    \/ \E e \in Exports : Reexport(e)
    \/ \E a, b \in {r \in Companies : r.table = "Companies" /\ r.key # None} : PersonWorks(a.key, b.name)

-----------------------------------------------------------------------------
RowsIn(c, table) ==
    CASE table = "Companies" -> Cardinality(DOMAIN c.company)
      [] table = "Contacts" -> Cardinality(c.contact)
      [] table = "Outreach" -> Cardinality(c.outreach)
      [] OTHER -> Len(SelectSeq(c.record, LAMBDA row : row[1] = table))

Outcomes(import, table, outcome) ==
    {id \in DOMAIN import.outcome : id[1] = table /\ import.outcome[id] = outcome}

\* The import that is under way repeats the last one: same export, then and now, same decisions.
Repeats ==
    /\ last # NoImport /\ last.source = source /\ last.export = source /\ importing.export = source
    /\ importing.decision = last.decision

\* "A second import created 0 duplicate records and updated the same [...] records.  Blocked and
\* skipped records remained protected" (docs/MIGRATION_IMPORT.md:27).  Whatever the export - the same one, or one that was edited, moved
\* its rows or lost some since it was audited - a row is reported CREATED exactly when the CRM has
\* one more of its kind, and no opportunity, interaction, task or lead source stands there twice.
\* When an import repeats the last one and nobody has worked in the CRM since, it creates nothing,
\* updates every row that the last one let in, and blocks those that it had blocked.  Briefs are
\* excepted from what is added: each import inserts them again and reports the second as UPDATED.
ReimportAddsNothing ==
    [][imports' # imports =>
         /\ IsInjective(crm'.record)
         /\ \A table \in ToSet(Tables) \ {"Discovery Briefs"} :
              RowsIn(crm', table) = RowsIn(crm, table) + Cardinality(Outcomes(last', table, "CREATED"))
         /\ Repeats =>
              /\ [crm' EXCEPT !.brief = <<>>] = [crm EXCEPT !.brief = <<>>]
              /\ \A table \in ToSet(Tables) :
                   /\ Outcomes(last', table, "CREATED") = {}
                   /\ Outcomes(last', table, "BLOCKED") = Outcomes(last, table, "BLOCKED")]_migrationVars

=============================================================================
