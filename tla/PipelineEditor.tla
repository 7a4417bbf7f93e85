--------------------------- MODULE PipelineEditor ---------------------------
(***************************************************************************)
(* Authoring one pipeline: the browser's form and review panel, preview    *)
(* requests that overlap and answer in any order, saving, and reopening,   *)
(* while catalogs, connections, Databricks tables and Foundry branches     *)
(* change.                                                                 *)
(*                                                                         *)
(* An object stands for a namespace and an object of its provider.  A      *)
(* review decision carries the key it is submitted under and, for the      *)
(* properties only, the source its owner was looking at ("of").            *)
(***************************************************************************)
EXTENDS Naturals, Sequences, FiniteSets, FiniteSetsExt

CONSTANTS
    Objects,     \* the names of tables and files, in the catalog's order
    Parquet,     \* the files among them that end in .parquet
    Remotes,     \* remote providers of this instance, in the catalog's order
    Csv,         \* whether files are uploaded
    Requests,    \* preview requests in progress at one time
    Modes,       \* write modes the owner chooses from
    MaxUploads,  \* uploads
    MaxSends,    \* preview requests altogether
    MaxChanges   \* changes outside: catalogs, connections, tables, branches

VARIABLES
    catalog,   \* the objects each remote provider lists
    connected, \* the providers with a validated connection
    version,   \* identity and metadata of each Databricks table
    branch,    \* branch of the Foundry connection
    pinned,    \* branch a Foundry dataset was registered with, or none
    keyed,     \* PostgreSQL tables with a primary or unique key
    changes,
    sends,     \* preview requests sent so far
    form,      \* the selects of the page
    upload,    \* the hidden upload id, 0 for none
    panel,     \* the review panel: its key, what it shows, the decision
    req,       \* preview requests
    saved      \* the pipeline_definitions row

world == <<catalog, connected, version, branch, pinned, keyed>>
vars == <<world, changes, sends, form, upload, panel, req, saved>>

Providers == {Remotes[i] : i \in DOMAIN Remotes}
Create == 0          \* the "create" entry of the destination select
Nothing == 200       \* an empty selection
NoDecision == [key |-> <<>>, of |-> <<>>]
NoDefinition == [sp |-> "none"]
NoRequest == [at |-> "idle"]

\* A new Foundry file gets the writer's suffix; its basename takes it off.
suffixed(o) == o + 100
file_name(o) == IF o \in Parquet \/ o > 100 THEN o ELSE suffixed(o)
basename(p, o) == IF p = "foundry" /\ o > 100 THEN o - 100 ELSE o
Names == Objects \cup {suffixed(o) : o \in Objects}

write_modes(p) ==
    CASE p = "postgres"   -> <<"append", "upsert", "replace">>
      [] p = "databricks" -> <<"append", "replace", "create">>
      [] p = "foundry"    -> <<"replace">>
      [] OTHER            -> <<>>

-----------------------------------------------------------------------------
(* Sources as a reviewer sees them, and the keys decisions are bound to.   *)

default_branch == branch
branch_for_namespace(o) == IF pinned[o] = "none" THEN default_branch ELSE pinned[o]

\* What a preview or scan of a source reads.
Shown(p, o, u) ==
    CASE p = "csv"        -> <<"csv", u>>
      [] p = "databricks" -> <<"databricks", o, version[o]>>
      [] p = "foundry"    -> <<"foundry", o, branch_for_namespace(o)>>
      [] OTHER            -> <<p, o>>

\* guardrail_source_key, databricks_guardrail_source_key
source_key(p, o, u) ==
    CASE p = "csv"        -> <<"csv", u>>
      [] p = "databricks" -> <<"databricks", o, version[o]>>
      [] OTHER            -> <<p, o>>

\* A decision made on what the panel shows now.
Decision(pn) == [key |-> pn.key, of |-> pn.shows]

\* A panel shows a decision kept from before under its own key; for databricks
\* only if it was bound to that key.
visible(p, key, d) ==
    IF d = NoDecision \/ (p = "databricks" /\ d.key # key)
      THEN NoDecision ELSE [d EXCEPT !.key = key]

review_surface(p, o, u, d) ==
    [key |-> source_key(p, o, u), shows |-> Shown(p, o, u),
     decision |-> visible(p, source_key(p, o, u), d)]

-----------------------------------------------------------------------------
(* Selections.                                                             *)

\* connector capabilities: every remote provider reads and writes, csv reads.
route_allowed(s, d) == s \in Providers \cup {"csv"} /\ d \in Providers
configured(p) == p = "csv" \/ p \in connected

first_of(S) == IF S = {} THEN Nothing ELSE Min(S)
first_provider(P) ==
    IF P = {} THEN "none"
    ELSE Remotes[Min({i \in DOMAIN Remotes : Remotes[i] \in P})]

eligible_destinations(s) == {d \in connected : route_allowed(s, d)}

\* Objects a writer can publish over: of Foundry the parquet files only.
destination_entries(p) ==
    IF p = "foundry" THEN {o \in catalog[p] : file_name(o) = o} ELSE catalog[p]

\* _normalized_selection of a source: free text is kept for Foundry.
normalized_source(p, o) ==
    IF p = "csv" THEN Nothing
    ELSE IF o \in catalog[p] \/ (p = "foundry" /\ o # Nothing) THEN o
    ELSE first_of(catalog[p])

normalized_target(p, o) ==
    IF p = "none" THEN Nothing
    ELSE IF o = Create \/ o \in destination_entries(p) THEN o
    ELSE first_of(destination_entries(p))

\* _upsert_keys is empty for a new table, and for one without a key.
upsert_available(p, o) == p = "postgres" /\ o \in keyed /\ o \in catalog[p]

available_write_modes(p, o) ==
    SelectSeq(write_modes(p),
              LAMBDA m : /\ m = "upsert" => upsert_available(p, o)
                         /\ p = "databricks" => ((m = "create") <=> (o = Create)))

resolved_write_mode(p, o, m) ==
    LET supported == available_write_modes(p, o) IN
    IF m \in {supported[i] : i \in DOMAIN supported} THEN m
    ELSE IF supported = <<>> THEN "none" ELSE supported[1]

target_name(f) ==
    LET name == IF f.do = Create THEN f.new ELSE f.do
    IN  IF f.dp = "foundry" THEN file_name(name) ELSE name

\* locators_overlap, for one dataset the branches decide as well.
locators_overlap(sp, so, sb, dp, do, db) ==
    sp = dp /\ so = do /\ (sp = "foundry" => sb = db)

\* _selection_overlaps compares branch master with branch master.
selection_overlaps(f) == locators_overlap(f.sp, f.so, "", f.dp, target_name(f), "")

swap_operand_ok(p, o) ==
    /\ p \in {"postgres", "foundry"}
    /\ o \in catalog[p]
    /\ p = "foundry" => file_name(o) = o

\* _can_swap_direction
can_swap_direction(f) ==
    /\ f.sp # "csv" /\ f.dp # "none" /\ f.do # Create
    /\ f.sp \in eligible_destinations(f.dp)
    /\ ~selection_overlaps(f)
    /\ swap_operand_ok(f.sp, f.so) /\ swap_operand_ok(f.dp, f.do)

swapped(f) == [f EXCEPT !.sp = f.dp, !.so = f.do, !.dp = f.sp, !.do = f.so]

-----------------------------------------------------------------------------
(* The page.                                                               *)

\* The route of a workspace that is opened without a pipeline: the first two
\* different providers that can form one.
default_route ==
    LET pairs == {x \in connected \X connected : route_allowed(x[1], x[2])}
        cross == {x \in pairs : x[1] # x[2]}
        sp == IF pairs = {} THEN "csv"
              ELSE first_provider({x[1] : x \in IF cross = {} THEN pairs ELSE cross})
        dp == first_provider({x[2] : x \in {y \in IF cross = {} THEN pairs ELSE cross : y[1] = sp}})
    IN  <<sp, dp>>

\* The form of a definition: _pipeline_body.
reopened(d) ==
    LET sp0 == IF d.sp # "none" /\ configured(d.sp) THEN d.sp ELSE default_route[1]
        dp0 == IF d.sp # "none" /\ d.dp \in connected THEN d.dp ELSE default_route[2]
        dp == IF dp0 \in eligible_destinations(sp0) THEN dp0
              ELSE first_provider(eligible_destinations(sp0))
        do == IF d.sp = "none" THEN Nothing ELSE IF d.create THEN Create ELSE d.do
        do1 == normalized_target(dp, do)
    IN  [sp |-> sp0, so |-> normalized_source(sp0, IF d.sp = "none" THEN Nothing ELSE d.so),
         dp |-> dp, do |-> do1,
         new |-> IF d.sp # "none" /\ d.create THEN basename(d.dp, d.do) ELSE Nothing,
         mode |-> resolved_write_mode(dp, do1, IF d.sp = "none" THEN "none" ELSE d.mode)]

Readable(p, o) == p = "csv" \/ o \in catalog[p] \/ (p = "foundry" /\ o # Nothing)
EmptyPanel == [key |-> <<>>, shows |-> <<>>, decision |-> NoDecision]

\* pipeline_page: the panel shows the saved decisions.
Open ==
    LET f == reopened(saved)
        u == IF saved.sp = "csv" THEN saved.so ELSE 0
    IN  /\ form' = f
        /\ upload' = IF f.sp = "csv" THEN u ELSE 0
        /\ panel' = IF ~Readable(f.sp, f.so) THEN EmptyPanel
                    ELSE review_surface(f.sp, f.so, u, IF saved.sp = "none" THEN NoDecision ELSE saved.decision)
        /\ req' = [q \in Requests |-> NoRequest]
        /\ UNCHANGED <<world, changes, sends, saved>>

TypeOK ==
    /\ catalog \in [Providers -> SUBSET Names]
    /\ connected \subseteq Providers
    /\ changes \in 0..MaxChanges /\ sends \in 0..MaxSends
    /\ upload \in 0..MaxUploads
    /\ form.so \in Names \cup {Nothing}
    /\ form.do \in Names \cup {Nothing, Create}
    /\ form.mode \in {"none", "append", "upsert", "replace", "create"}
    /\ \A q \in Requests :
          req[q].at \in {"idle", "received", "checked", "normalised", "keyed", "rendered"}

Init ==
    /\ catalog = [p \in Providers |-> Objects]
    /\ connected = Providers
    /\ version = [o \in Names |-> 0]
    /\ branch = "master"
    /\ pinned = [o \in Names |-> "none"]
    /\ keyed = Objects
    /\ changes = 0 /\ sends = 0
    /\ saved = NoDefinition
    /\ form = reopened(NoDefinition)
    /\ upload = 0
    /\ panel = IF Readable(form.sp, form.so) /\ form.sp # "csv"
                 THEN review_surface(form.sp, form.so, 0, NoDecision) ELSE EmptyPanel
    /\ req = [q \in Requests |-> NoRequest]

-----------------------------------------------------------------------------
(* The owner at the page.                                                  *)

Send(q, trigger, f) ==
    /\ req[q].at = "idle" /\ sends < MaxSends
    /\ sends' = sends + 1
    /\ form' = f
    /\ req' = [req EXCEPT ![q] = [at |-> "received", trigger |-> trigger, form |-> f, asked |-> f,
                                  upload |-> upload, decision |-> panel.decision, moved |-> FALSE,
                                  key |-> <<>>, panel |-> EmptyPanel]]
    /\ UNCHANGED <<world, changes, upload, panel, saved>>

PickSource(q, p, o) == Send(q, "source", [form EXCEPT !.sp = p, !.so = o])

PickTarget(q, p, o, n, m) == Send(q, "target", [form EXCEPT !.dp = p, !.do = o, !.new = n, !.mode = m])

Scan(q) == Send(q, "scan", form)

Swap(q) == Send(q, "swap", form)

\* The owner chooses Hash or Remove for what the panel shows.
Decide ==
    /\ panel.key # <<>>
    /\ panel' = [panel EXCEPT !.decision = Decision(panel)]
    /\ UNCHANGED <<world, changes, sends, form, upload, req, saved>>

\* pipeline_csv_inspect: a new upload; the panel is not part of the answer.
UploadCsv ==
    /\ Csv /\ form.sp = "csv" /\ upload < MaxUploads
    /\ upload' = upload + 1
    /\ UNCHANGED <<world, changes, sends, form, panel, req, saved>>

-----------------------------------------------------------------------------
(* The preview request.                                                    *)

Advance(q, r) ==
    /\ req' = [req EXCEPT ![q] = r]
    /\ UNCHANGED <<world, changes, sends, form, upload, panel, saved>>

\* A source change resolves a destination that can take it.
with_destination(f) ==
    IF f.dp \in eligible_destinations(f.sp) THEN f
    ELSE [f EXCEPT !.dp = first_provider(eligible_destinations(f.sp)), !.do = Nothing, !.new = Nothing]

checked_form(r) ==
    LET f == IF r.trigger = "swap" THEN [swapped(r.form) EXCEPT !.new = Nothing] ELSE r.form
    IN  IF r.trigger = "source" \/ f.dp = "none" THEN with_destination(f) ELSE f

accepted(r) ==
    LET f == checked_form(r) IN
    /\ r.trigger = "swap" => can_swap_direction(r.form)
    /\ configured(f.sp)
    /\ f.dp # "none" => f.dp \in connected /\ route_allowed(f.sp, f.dp)

Check(q) ==
    /\ req[q].at = "received" /\ accepted(req[q])
    /\ Advance(q, [req[q] EXCEPT !.at = "checked", !.form = checked_form(req[q])])

\* An error answer leaves the page as it is.
Refuse(q) ==
    /\ req[q].at = "received" /\ ~accepted(req[q])
    /\ Advance(q, NoRequest)

Normalise(q) ==
    LET f == req[q].form IN
    /\ req[q].at = "checked"
    /\ Advance(q, [req[q] EXCEPT !.at = "normalised",
                     !.form.so = normalized_source(f.sp, f.so),
                     !.form.do = normalized_target(f.dp, f.do)])

\* parse_guardrail_action_values: a decision under another key is dropped, and
\* so is every decision when the source select or the direction changed.
parse_actions(r, key) ==
    IF r.decision.key # key \/ r.trigger \in {"source", "swap"} THEN NoDecision ELSE r.decision

\* The key of the selection.  A Databricks table that cannot be inspected has
\* none, and no decision keeps its authority.
ReviewKey(q) ==
    LET r == req[q]
        f == r.form
        key == IF Readable(f.sp, f.so) THEN source_key(f.sp, f.so, r.upload) ELSE <<>>
    IN  /\ r.at = "normalised"
        /\ Advance(q, [r EXCEPT !.at = "keyed", !.key = key,
                         !.decision = IF key = <<>> THEN NoDecision ELSE parse_actions(r, key)])

\* The panel inspects the source again; what was scanned is shown only under
\* the key it was scanned for.
Render(q) ==
    LET r == req[q]
        f == r.form
        do == f.do
    IN  /\ r.at = "keyed"
        /\ Advance(q, [r EXCEPT !.at = "rendered",
                         !.form.mode = resolved_write_mode(f.dp, do, f.mode),
                         !.panel = IF Readable(f.sp, f.so)
                                     THEN review_surface(f.sp, f.so, r.upload, r.decision)
                                     ELSE EmptyPanel])

\* The answer replaces the selects and the panel; leaving csv clears the upload.
Deliver(q) ==
    /\ req[q].at = "rendered"
    /\ form' = req[q].form
    /\ panel' = req[q].panel
    /\ upload' = IF req[q].form.sp = "csv" THEN upload ELSE 0
    /\ req' = [req EXCEPT ![q] = NoRequest]
    /\ UNCHANGED <<world, changes, sends, saved>>

Lose(q) ==
    /\ req[q].at = "rendered"
    /\ Advance(q, NoRequest)

-----------------------------------------------------------------------------
(* Saving.                                                                 *)

\* PipelinePolicy.validate
policy_ok(f) ==
    /\ route_allowed(f.sp, f.dp)
    /\ configured(f.sp) /\ f.dp \in connected
    /\ \E i \in DOMAIN write_modes(f.dp) : write_modes(f.dp)[i] = f.mode

same_saved_target(f) ==
    saved.sp # "none" /\ saved.create /\ saved.dp = f.dp /\ saved.do = target_name(f)

\* The authoring operation's own checks, per destination.
target_ok(f) ==
    IF f.do = Create
      THEN /\ f.new # Nothing
           /\ f.dp = "postgres" => /\ f.mode # "upsert"
                                   /\ f.new \notin catalog["postgres"] \/ same_saved_target(f)
           /\ f.dp = "databricks" => f.mode \in {"create", "replace"}
      ELSE /\ f.do # Nothing
           /\ f.dp = "databricks" => f.mode # "create" /\ f.do \in catalog["databricks"]
           /\ f.mode = "upsert" => upsert_available(f.dp, f.do)

wrong_saved_decision(f) == panel.decision

\* parse_guardrail_action_values at the save: bound to the submitted source.
saved_decision(f) ==
    IF f.sp = "databricks" \/ panel.decision.key = source_key(f.sp, f.so, upload)
      THEN panel.decision ELSE NoDecision

\* A Databricks review must be of the table as it is now.
review_current(f) ==
    f.sp = "databricks" =>
        /\ f.so \in catalog["databricks"]
        /\ panel.decision # NoDecision => panel.decision.key = source_key("databricks", f.so, 0)

saved_object(f) == IF f.sp = "csv" THEN upload ELSE f.so
Source(f) == CASE f.sp = "csv"        -> <<"csv", upload>>
               [] f.sp = "databricks" -> <<"databricks", f.so, version[f.so]>>
               [] f.sp = "foundry"    -> <<"foundry", f.so, default_branch>>
               [] OTHER               -> <<f.sp, f.so>>

can_save(f) ==
    /\ f.sp = "csv" => upload # 0
    /\ f.sp # "csv" => f.so # Nothing
    /\ f.dp # "none"
    /\ policy_ok(f) /\ target_ok(f) /\ review_current(f)
    /\ ~locators_overlap(f.sp, f.so, default_branch, f.dp, target_name(f),
                         IF f.dp = "foundry" THEN branch_for_namespace(target_name(f)) ELSE "")

saved_target(f) == target_name(f)

Save ==
    /\ can_save(form)
    /\ saved' = [sp |-> form.sp, so |-> saved_object(form), dp |-> form.dp, do |-> saved_target(form),
                 create |-> form.do = Create, mode |-> form.mode,
                 decision |-> saved_decision(form), source |-> Source(form)]
    /\ UNCHANGED <<world, changes, sends, form, upload, panel, req>>

-----------------------------------------------------------------------------
(* The world outside.                                                      *)

Moved(rs) == [q \in Requests |-> IF rs[q].at = "idle" THEN rs[q] ELSE [rs[q] EXCEPT !.moved = TRUE]]

Change ==
    /\ changes < MaxChanges
    /\ changes' = changes + 1
    /\ req' = Moved(req)
    /\ UNCHANGED <<sends, form, upload, panel, saved>>

CatalogChanges(p, o) ==
    /\ Change
    /\ catalog' = [catalog EXCEPT ![p] = IF o \in @ THEN @ \ {o} ELSE @ \cup {o}]
    /\ UNCHANGED <<connected, version, branch, pinned, keyed>>

ConnectionChanges(p) ==
    /\ Change
    /\ connected' = IF p \in connected THEN connected \ {p} ELSE connected \cup {p}
    /\ UNCHANGED <<catalog, version, branch, pinned, keyed>>

TableChanges(o) ==
    /\ Change
    /\ "databricks" \in Providers
    /\ version' = [version EXCEPT ![o] = @ + 1]
    /\ UNCHANGED <<catalog, connected, branch, pinned, keyed>>

\* The dataset form registers a dataset with the connection's branch, and a
\* connection may be validated again with another one.
Register(o) ==
    /\ Change
    /\ "foundry" \in Providers /\ pinned[o] = "none"
    /\ pinned' = [pinned EXCEPT ![o] = branch]
    /\ UNCHANGED <<catalog, connected, version, branch, keyed>>

BranchChanges ==
    /\ Change
    /\ "foundry" \in Providers
    /\ branch' = IF branch = "master" THEN "other" ELSE "master"
    /\ UNCHANGED <<catalog, connected, version, pinned, keyed>>

KeyChanges(o) ==
    /\ Change
    /\ "postgres" \in Providers /\ "upsert" \in Modes
    /\ keyed' = IF o \in keyed THEN keyed \ {o} ELSE keyed \cup {o}
    /\ UNCHANGED <<catalog, connected, version, branch, pinned>>

\* The entries of a select, and for a Foundry source free text.
source_choices(p) ==
    IF p = "csv" THEN {Nothing} ELSE IF p = "foundry" THEN Objects ELSE catalog[p]

Next ==
    \/ Open \/ Decide \/ UploadCsv \/ Save
    \/ \E q \in Requests :
          \/ \E p \in connected \cup (IF Csv THEN {"csv"} ELSE {}) :
                \E o \in source_choices(p) : PickSource(q, p, o)
          \/ \E p \in connected, n \in Objects, m \in Modes :
                \E o \in destination_entries(p) \cup {Create} : PickTarget(q, p, o, n, m)
          \/ Scan(q) \/ Swap(q)
          \/ Check(q) \/ Refuse(q) \/ Normalise(q) \/ ReviewKey(q) \/ Render(q)
          \/ Deliver(q) \/ Lose(q)
    \/ \E p \in Providers : ConnectionChanges(p) \/ \E o \in Names : CatalogChanges(p, o)
    \/ \E o \in Objects : TableChanges(o) \/ Register(o) \/ KeyChanges(o)
    \/ BranchChanges

Spec == Init /\ [][Next]_vars

-----------------------------------------------------------------------------
(* Properties.                                                             *)

\* A saved decision about an upload or a Databricks table was made on a review
\* of exactly that upload, or of that table as the saved locator has it, however
\* previews, uploads, other tabs' answers and changes of the table overlap
\* (parse_guardrail_action_values, databricks_guardrail_source_key).
DecisionsBound ==
    saved.sp \in {"csv", "databricks"} /\ saved.decision # NoDecision =>
        saved.decision.of = saved.source

\* A swap that is answered has exchanged exactly the two endpoints that were
\* asked for, unless the world moved under the request (_can_swap_direction).
SwapKeepsEndpoints ==
    \A q \in Requests :
        req[q].at = "rendered" /\ req[q].trigger = "swap" /\ ~req[q].moved =>
            LET f == req[q].asked IN
            /\ req[q].form.sp = f.dp /\ req[q].form.so = f.do
            /\ req[q].form.dp = f.sp /\ req[q].form.do = f.so

\* A saved pipeline whose providers are still connected and whose objects are
\* still there reopens as itself: same endpoints, same new name, and the mode
\* it was saved with, or Create for a new Databricks table (_pipeline_body,
\* _pipeline_form_locations, _new_destination_basename).
SavedReopens ==
    /\ saved.sp # "none"
    /\ configured(saved.sp) /\ saved.dp \in connected
    /\ saved.sp # "csv" => saved.so \in catalog[saved.sp]
    /\ ~saved.create => saved.do \in catalog[saved.dp]
    /\ saved.mode = "upsert" => saved.do \in keyed
    =>
    LET f == reopened(saved) IN
    /\ f.sp = saved.sp /\ (f.sp # "csv" => f.so = saved.so) /\ f.dp = saved.dp
    /\ target_name(f) = saved.do /\ (f.do = Create <=> saved.create)
    /\ f.mode = IF saved.create /\ saved.dp = "databricks" THEN "create" ELSE saved.mode
=============================================================================
