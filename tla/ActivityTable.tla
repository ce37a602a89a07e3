--------------------------- MODULE ActivityTable ---------------------------
(* Xiaoman and the activity tables people keep in Feishu.  It writes single  *)
(* cells of the plan table after reading the column, its options and the     *)
(* rows, each attempt with an audit row; and once a day it looks for         *)
(* occurrences of the last three days that still lack their material and     *)
(* makes one reminder draft per occurrence and attempt.  People edit the     *)
(* tables meanwhile.                                                         *)
EXTENDS Naturals, FiniteSets

CONSTANTS Asked,   \* calls that write a cell
          Today,   \* bound: days that pass
          Recs     \* occurrences, all held on day 1

VARIABLES column,    \* the column: "missing", "Text", "SingleSelect" or "Other"
          options,   \* its options
          match,     \* rows of that title and date
          cell,      \* what the row shows
          write,     \* call |-> [pc, value, sure]
          shown,     \* history: values the row has shown
          landed,    \* history: calls whose value Xiaoman put there
          day,       \* the day it is
          material,  \* occurrences with material
          drafts,    \* reminder work items: [rec, attempt, late]
          batch,     \* drafts the scan has still to make
          lacking    \* history: [rec, day] an occurrence lacked its material

tvars == <<column, options, match, cell, write, shown, landed, day, material, drafts, batch, lacking>>

NoWrite == [pc |-> "idle", value |-> "none", sure |-> "none"]

TableInit ==
    /\ column \in {"missing", "Text", "SingleSelect", "Other"} /\ options = {"a"}
    /\ match \in 0..1 /\ cell = "old" /\ shown = {"old"} /\ landed = {}
    /\ write = [w \in Asked |-> NoWrite]
    /\ day = 1 /\ material = {} /\ drafts = {} /\ batch = {}
    /\ lacking = {<<r, 1>> : r \in Recs}

-----------------------------------------------------------------------------
(* Writing a cell.                                                           *)

\* Only columns on the list, with a value that passes the text rules.
feishu_write_column(value) == value # "secret"

At_(w, pc) == write' = [write EXCEPT ![w].pc = pc]
Refuse(w, why) == write' = [write EXCEPT ![w].pc = "done", ![w].sure = why]

execute_feishu_field_update(w, value) ==
    /\ write[w].pc = "idle" /\ feishu_write_column(value)
    /\ write' = [write EXCEPT ![w] = [pc |-> "fields", value |-> value, sure |-> "none"]]
    /\ UNCHANGED <<column, options, match, cell, shown, landed, day, material, drafts, batch, lacking>>

\* The column must exist, be writable and, with options, have this one.
list_fields(w) ==
    /\ write[w].pc = "fields"
    /\ CASE column = "missing" -> Refuse(w, "column_missing")
         [] column = "Other" -> Refuse(w, "type_not_writable")
         [] column = "SingleSelect" /\ write[w].value \notin options -> Refuse(w, "option_not_allowed")
         [] OTHER -> At_(w, "rows")
    /\ UNCHANGED <<column, options, match, cell, shown, landed, day, material, drafts, batch, lacking>>

\* Exactly one row of that title and date.
resolve_plan_record(w) ==
    /\ write[w].pc = "rows"
    /\ CASE match = 0 -> Refuse(w, "record_not_found")
         [] match > 1 -> Refuse(w, "record_ambiguous")
         [] cell = write[w].value -> Refuse(w, "already_in_sync")
         [] OTHER -> At_(w, "put")
    /\ UNCHANGED <<column, options, match, cell, shown, landed, day, material, drafts, batch, lacking>>

\* The value is put, or not, and the answer says so or is lost.
update_record_call(w) ==
    /\ write[w].pc = "put"
    /\ \/ /\ cell' = write[w].value /\ shown' = shown \cup {cell'} /\ landed' = landed \cup {w}
          /\ \E sure \in {"updated", "failed"} :
                write' = [write EXCEPT ![w].pc = "audit", ![w].sure = sure]
       \/ /\ write' = [write EXCEPT ![w].pc = "audit", ![w].sure = "failed"]
          /\ UNCHANGED <<cell, shown, landed>>
    /\ UNCHANGED <<column, options, match, day, material, drafts, batch, lacking>>

audit_feishu_field_update(w) ==
    /\ write[w].pc = "audit" /\ At_(w, "done")
    /\ UNCHANGED <<column, options, match, cell, shown, landed, day, material, drafts, batch, lacking>>

CallDies(w) ==
    /\ write[w].pc \notin {"idle", "done", "lost"} /\ At_(w, "lost")
    /\ UNCHANGED <<column, options, match, cell, shown, landed, day, material, drafts, batch, lacking>>

PeopleEdit ==
    /\ \/ options' = {"a", "b"} /\ UNCHANGED <<cell, match, shown>>
       \/ cell' = "b" /\ shown' = shown \cup {"b"} /\ UNCHANGED <<options, match>>
       \/ match < 2 /\ match' = match + 1 /\ UNCHANGED <<options, cell, shown>>
    /\ UNCHANGED <<column, write, landed, day, material, drafts, batch, lacking>>

-----------------------------------------------------------------------------
(* Following up.                                                             *)

MaterialArrives ==
    /\ \E r \in Recs \ material : material' = material \cup {r}
    /\ UNCHANGED <<column, options, match, cell, write, shown, landed, day, drafts, batch, lacking>>

NextDay ==
    /\ day < Today /\ day' = day + 1
    /\ lacking' = lacking \cup {<<r, day'>> : r \in Recs \ material}
    /\ UNCHANGED <<column, options, match, cell, write, shown, landed, material, drafts, batch>>

\* The last three days, one attempt each; by hand one day and any attempt.
material_followup_scan_targets == {[date |-> day - n, attempt |-> n] : n \in {m \in 1..3 : m < day}}
validate_material_followup_attempt == {[date |-> 1, attempt |-> n] : n \in 1..3}

material_followup_work_item_request(r, target, byhand) ==
    [rec |-> r, attempt |-> target.attempt, made |-> IF byhand THEN 0 ELSE day,
     escalated |-> target.attempt = 3]

execute_material_followup_scan(byhand) ==
    /\ batch = {}
    /\ \E targets \in (IF byhand THEN {{t} : t \in validate_material_followup_attempt}
                                 ELSE {material_followup_scan_targets}) :
          batch' = {material_followup_work_item_request(r, t, byhand) :
                       r \in Recs \ material, t \in {u \in targets : u.date = 1}}
    /\ UNCHANGED <<column, options, match, cell, write, shown, landed, day, material, drafts, lacking>>

\* Mutant: the key of the draft leaves the attempt out.
create_followupMutant(d) == {e \in drafts : e.rec = d.rec} = {}

\* The key: occurrence, date and, after the first, the attempt.
create_followup(d) == {e \in drafts : e.rec = d.rec /\ e.attempt = d.attempt} = {}

MakeDraft ==
    /\ \E d \in batch :
          /\ batch' = batch \ {d}
          /\ drafts' = IF create_followup(d) THEN drafts \cup {d} ELSE drafts
    /\ UNCHANGED <<column, options, match, cell, write, shown, landed, day, material, lacking>>

ScanDies ==
    /\ batch # {} /\ batch' = {}
    /\ UNCHANGED <<column, options, match, cell, write, shown, landed, day, material, drafts, lacking>>

CellNext ==
    \/ \E w \in Asked :
          \/ \E value \in {"a", "b", "secret"} : execute_feishu_field_update(w, value)
          \/ list_fields(w) \/ resolve_plan_record(w) \/ update_record_call(w)
          \/ audit_feishu_field_update(w) \/ CallDies(w)
    \/ PeopleEdit
FollowupNext ==
    \/ NextDay \/ \E byhand \in BOOLEAN : execute_material_followup_scan(byhand)
    \/ MakeDraft \/ ScanDies \/ MaterialArrives

-----------------------------------------------------------------------------
\* An audit row that says the cell was updated, or was already in sync, is
\* true of some moment; a call that was refused, or found the cell in sync,
\* wrote nothing; only a lost answer or a dead process hides a write; every
\* occurrence has one draft per attempt at most, the third and only the third
\* escalates, a draft of the daily scan is made no earlier than its attempt,
\* and none for an occurrence that had its material since the day before.
TableTrue ==
    /\ \A w \in Asked : write[w].pc = "done" =>
          /\ write[w].sure \in {"updated", "already_in_sync"} => write[w].value \in shown
          /\ write[w].sure = "updated" => w \in landed
          /\ w \in landed => write[w].sure \in {"updated", "failed"}
    /\ \A d, e \in drafts : d.rec = e.rec /\ d.attempt = e.attempt => d = e
    /\ \A d \in drafts :
          /\ d.escalated = (d.attempt = 3)
          /\ d.made # 0 => d.attempt = d.made - 1 /\ <<d.rec, d.made>> \in lacking
=============================================================================
