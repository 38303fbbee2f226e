----------------------------- MODULE StrategyAdmin -----------------------------
(***************************************************************************)
(* Versions of a strategy dataset: strategy.admin.service.ts and           *)
(* strategy.admin.repository.ts.  A draft is edited, validated, published  *)
(* and retired by editors who work at once.  A request reads the version,  *)
(* and writes it in a later transaction whose statements see what others   *)
(* committed in between (READ COMMITTED); an edit checks the revision in   *)
(* its write, the other writes go by the id of the version.                *)
(***************************************************************************)
EXTENDS Server, Sequences

CONSTANTS
  Contexts,     \* of one dataset: format, street, table size, stacks and blinds
  TooSmall,     \* those of a table for one
  RowSets,      \* the sets of rows an editor may save, each valid by itself
  MaxVersions,  \* bound: versions ever created
  MaxRevision   \* bound: edits of one version

NoKey  == "null"
NoRows == "empty"
Kept   == "kept"     \* an edit without rows

ASSUME StrategyBounds ==
  /\ MaxVersions \in Nat /\ MaxRevision \in Nat
  /\ TooSmall \subseteq Contexts /\ NoKey \notin Contexts /\ {NoRows, Kept} \cap RowSets = {}

VARIABLE versions   \* the rows of strategy_dataset_versions, by their number

StrategyInit == versions = << >>

Published(v) == versions[v].status = "PUBLISHED"
Read(v, op)  == [op |-> op, id |-> v, revision |-> versions[v].revision]
Edit(v, rows, context) ==
  [op |-> "edit", id |-> v, revision |-> versions[v].revision, rows |-> rows,
   context |-> context]

\* The compatibility key is computed of the metadata that the draft begins with.
NewDraft(context) ==
  [status |-> "DRAFT", revision |-> 0, context |-> context, key |-> context,
   active |-> NoKey, rows |-> NoRows, report |-> "none"]

CreateDraft(context) ==
  /\ Len(versions) < MaxVersions
  /\ versions' = Append(versions, NewDraft(context))
  /\ UNCHANGED calls

\* validateStrategyRows: there are rows, for a table of at least two.
Report(rows, context) ==
  IF rows # NoRows /\ context \notin TooSmall THEN "PASSED" ELSE "FAILED"

\* updateDraft: the version read is a draft, and new rows pass with the metadata
\* as they will be; metadata alone are not looked at.  An editor who saw an
\* older revision than the one read is refused by the write in any case.
EditRows(h, v, rows) ==
  /\ versions[v].status = "DRAFT" /\ versions[v].revision < MaxRevision
  /\ \E context \in Contexts :
       /\ Report(rows, context) = "PASSED"
       /\ Begin(h, Edit(v, rows, context))
  /\ UNCHANGED versions

EditMetadata(h, v) ==
  /\ versions[v].status = "DRAFT" /\ versions[v].revision < MaxRevision
  /\ \E context \in Contexts : Begin(h, Edit(v, Kept, context))
  /\ UNCHANGED versions

\* Mutant of MayUpdate: the revision is enough.
MayUpdate_Revision(c) == versions[c.id].revision = c.revision

MayUpdate(c) ==
  versions[c.id].status = "DRAFT" /\ versions[c.id].revision = c.revision

\* The metadata given and the rows given replace what was there; the key stays
\* the one the draft was created with.
EditWrite(h) ==
  LET c == calls[h]
  IN  /\ c.op = "edit"
      /\ versions' = IF ~MayUpdate(c) THEN versions ELSE
           [versions EXCEPT
              ![c.id].revision = @ + 1,
              ![c.id].context = c.context,
              ![c.id].rows = IF c.rows = Kept THEN @ ELSE c.rows]
      /\ Finish(h)

\* validateVersion reads a version, whatever its status, and saves the report.
Validate(h, v) ==
  /\ Begin(h, [op |-> "save", id |-> v,
               report |-> Report(versions[v].rows, versions[v].context)])
  /\ UNCHANGED versions

SaveValidation(h) ==
  LET c == calls[h]
  IN  /\ c.op = "save"
      /\ versions' = [versions EXCEPT ![c.id].report = c.report]
      /\ Finish(h)

\* publishVersion reads the report, then its transaction reads the draft.
Publish(h, v) ==
  /\ versions[v].report = "PASSED"
  /\ Begin(h, Read(v, "publish"))
  /\ UNCHANGED versions

PublishRead(h) ==
  LET c == calls[h]
  IN  /\ c.op = "publish"
      /\ IF MayUpdate(c) THEN Continue(h, [c EXCEPT !.op = "supersede"]) ELSE Finish(h)
      /\ UNCHANGED versions

\* It will retire the versions published by now for the same key.
Supersede(h) ==
  LET c == calls[h]
  IN  /\ c.op = "supersede"
      /\ Continue(h, [op |-> "commit", id |-> c.id, old |->
           {w \in DOMAIN versions : Published(w) /\ versions[w].key = versions[c.id].key}])
      /\ UNCHANGED versions

Superseded(old) ==
  [w \in DOMAIN versions |->
     IF w \in old THEN [versions[w] EXCEPT !.status = "RETIRED", !.active = NoKey]
     ELSE versions[w]]

\* Mutant of MadePublic: the column with the unique index is left alone.
MadePublic_NoKey(version) == [version EXCEPT !.status = "PUBLISHED", !.report = "PASSED"]

MadePublic(version) ==
  [version EXCEPT !.status = "PUBLISHED", !.active = version.key, !.report = "PASSED"]

\* The index on activeCompatibilityKey refuses a second active version, and
\* with it the whole transaction.
PublishCommit(h) ==
  LET c == calls[h]
      after == [Superseded(c.old) EXCEPT ![c.id] = MadePublic(versions[c.id])]
  IN  /\ c.op = "commit"
      /\ versions' = IF \E w \in DOMAIN after \ {c.id} :
                          after[w].active = after[c.id].active /\ after[w].active # NoKey
                       THEN versions ELSE after
      /\ Finish(h)

Retire(h, v) ==
  /\ Published(v)
  /\ Begin(h, Read(v, "retire"))
  /\ UNCHANGED versions

RetireWrite(h) ==
  LET c == calls[h]
  IN  /\ c.op = "retire"
      /\ versions' = Superseded({c.id})
      /\ Finish(h)

StrategyNext ==
  \/ \E context \in Contexts : CreateDraft(context)
  \/ \E h \in Handlers :
       \/ \E v \in DOMAIN versions :
            \/ \E rows \in RowSets : EditRows(h, v, rows)
            \/ EditMetadata(h, v) \/ Validate(h, v) \/ Publish(h, v) \/ Retire(h, v)
       \/ EditWrite(h) \/ SaveValidation(h) \/ PublishRead(h) \/ Supersede(h)
       \/ PublishCommit(h) \/ RetireWrite(h)

-----------------------------------------------------------------------------
(* Properties *)

\* listDatasets: the active versions as the editors see them.
ActiveVersions == {v \in DOMAIN versions : Published(v)}

\* One compatibility key has one published version at most, however many are
\* published and retired at once, and the column with the unique index says the
\* same of a version as its status (publish, listDatasets; data-model.md of spec
\* 012).  The key is not the context of the version: OneActivePerContext.
OneActiveVersion ==
  /\ \A v, w \in ActiveVersions : versions[v].key = versions[w].key => v = w
  /\ \A v \in DOMAIN versions :
       versions[v].active = (IF v \in ActiveVersions THEN versions[v].key ELSE NoKey)

\* One version at most is active for a combination of dataset, street, players
\* and stacks (spec 012, FR-009).  The code breaks it: updateDraft changes what
\* the key was computed of, and publish goes by the key.
OneActivePerContext ==
  \A v, w \in ActiveVersions : versions[v].context = versions[w].context => v = w

\* The content of what is published or retired is never edited again, although
\* an edit may have read it as a draft (updateDraft; spec 012, FR-004).  Its
\* validation report is no part of this: saveValidation writes it at any time.
PublishedIsFrozen ==
  [][\A v \in DOMAIN versions : versions[v].status # "DRAFT" =>
       /\ versions'[v].rows = versions[v].rows
       /\ versions'[v].context = versions[v].context]_versions
=============================================================================
