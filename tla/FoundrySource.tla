---------------------------- MODULE FoundrySource ---------------------------
(***************************************************************************)
(* The Foundry source side: paged file listings over two API versions,     *)
(* branch resolution, extraction in bounded batches and the inspection of  *)
(* sensitivity markings, while other clients change the dataset between    *)
(* two requests.  Files and markings are numbers in the server's order; a  *)
(* file's content is the sequence of its rows' sizes.  The server's page   *)
(* tokens name the last item of the page before.                           *)
(***************************************************************************)
EXTENDS Naturals, Sequences, FiniteSets, SequencesExt, FiniteSetsExt

CONSTANTS
    Files, Supported,     \* paths, and the ones ending in .csv or .parquet
    Contents,             \* contents a file may have
    Trees,                \* initial datasets: branch -> file -> content
    Marks, Direct, Named, \* markings; configured by identifier; configured by name
    Ops, Wanted,          \* operations, and saved locators [branch, paths], paths <<>> for all_supported
    Apis,                 \* API versions a deployment may offer
    Faults,               \* "error", "repeat": what a server may do besides answering
    PageSize, MaxPages, MaxFiles,
    BatchRows, BatchBytes, PreviewBytes, MaxBytes,
    MaxChanges            \* bound: changes of the dataset by others

VARIABLES
    tree, marks, apis, changes, \* the server; apis is fixed
    op, want,                   \* the operation and its locator
    pc, todo,                   \* and the branches still to try
    version, trying,            \* _dataset_files_api_version (0 for None); the version tried
    cursor, seen, pages, listed,
    sizes,                      \* sizeBytes of the listed files
    kept, ever,                 \* history: items there throughout, and at some time, in this listing
    asked,                      \* history: the last listing request
    listings,                   \* history: the completed listings, of files and of markings
    queue,                      \* files to download, or markings to look up
    rows,                       \* rows of the current file not yet read
    emitted,                    \* batches [sequence, file, branch, rows]
    fetched,                    \* history: downloads [file, branch, content]
    markers, shown,             \* table markers found; whether columns were shown
    result

listing == <<cursor, seen, pages, listed, kept, ever>>
vars == <<tree, marks, apis, changes, op, want, pc, todo, version, trying, listing, sizes,
          asked, listings, queue, rows, emitted, fetched, markers, shown, result>>

None == [api |-> 0, after |-> 0]
Absent == <<0>>   \* no row has size 0
Default == "default"
DefaultBranches == <<Default, "master", "main">>

present(b) == {f \in Files : tree[b][f] # Absent}

total(s) == FoldSeq(LAMBDA a, c : a + c, 0, s)

-----------------------------------------------------------------------------
Init ==
    /\ tree \in Trees /\ marks \in SUBSET Marks /\ apis \in Apis /\ changes = 0
    /\ op \in Ops /\ want \in Wanted
    /\ todo = CASE op = "test" -> DefaultBranches
                [] op = "browse" -> <<Default>>
                [] OTHER -> <<want.branch>>
    /\ pc = "list" /\ version = 0 /\ trying = 2
    /\ cursor = None /\ seen = {} /\ pages = 0 /\ listed = <<>> /\ kept = {} /\ ever = {}
    /\ sizes = [f \in Files |-> 0] /\ asked = [api |-> 0, cursor |-> None] /\ listings = <<>>
    /\ queue = <<>> /\ rows = <<>> /\ emitted = <<>> /\ fetched = <<>>
    /\ markers = {} /\ shown = FALSE /\ result = "none"

\* Other clients commit to the branch, or mark the resource, at any time.
Change ==
    /\ changes < MaxChanges /\ changes' = changes + 1 /\ pc \notin {"done", "failed"}
    /\ \/ /\ \E b \in DOMAIN tree, f \in Files, c \in Contents \cup {Absent} :
               /\ c # tree[b][f] /\ tree' = [tree EXCEPT ![b][f] = c]
               /\ IF pc = "list" /\ b = Head(todo)
                  THEN /\ kept' = IF c = Absent THEN kept \ {f} ELSE kept
                       /\ ever' = IF c = Absent THEN ever ELSE ever \cup {f}
                  ELSE UNCHANGED <<kept, ever>>
          /\ UNCHANGED marks
       \/ /\ \E m \in Marks :
               /\ marks' = SymDiff(marks, {m})
               /\ IF pc = "markings"
                  THEN kept' = kept \ {m} /\ ever' = ever \cup marks'
                  ELSE UNCHANGED <<kept, ever>>
          /\ UNCHANGED tree
    /\ UNCHANGED <<apis, op, want, pc, todo, version, trying, cursor, seen, pages, listed,
                   sizes, asked, listings, queue, rows, emitted, fetched, markers, shown, result>>

-----------------------------------------------------------------------------
(* Paged listings.                                                         *)

restart == cursor' = None /\ seen' = {} /\ pages' = 0 /\ listed' = <<>> /\ kept' = {} /\ ever' = {}

\* test_connection alone takes a missing dataset for a connection.
fail(reason) ==
    /\ pc' = IF op = "test" /\ reason = "not_found" THEN "done" ELSE "failed"
    /\ result' = reason

\* resolve_branch: a branch that cannot be listed, for whatever reason, gives
\* way to the next; markings have no second try.
give_up(reason) ==
    IF pc = "list"
    THEN /\ todo' = Tail(todo) /\ restart
         /\ IF Len(todo) = 1 THEN fail(reason) ELSE UNCHANGED <<pc, result>>
    ELSE fail(reason) /\ restart /\ UNCHANGED todo

\* The files to read, once the listing is complete.
selected(files) ==
    LET available == SelectSeq(files, LAMBDA f : f \in Supported)
    IN CASE want.paths = <<>> -> available
         [] \A i \in DOMAIN want.paths : want.paths[i] \in ToSet(available) -> want.paths
         [] OTHER -> <<>>

\* What each operation does with a complete listing.
with_listing(files) ==
    CASE pc = "list" /\ op \in {"test", "browse", "preflight"} ->
           pc' = "done" /\ result' = "connected" /\ UNCHANGED <<queue, markers>>
      [] pc = "list" /\ op = "inspect" ->
           pc' = "schema" /\ UNCHANGED <<queue, result, markers>>
      [] pc = "list" /\ op = "extract" ->
           /\ queue' = selected(files) /\ UNCHANGED markers
           /\ IF selected(files) = <<>> THEN fail("not_found") ELSE pc' = "download" /\ UNCHANGED result
      [] pc = "markings" ->
           /\ markers' = markers \cup (ToSet(files) \cap Direct)
           /\ queue' = SelectSeq(files, LAMBDA m : m \notin Direct)
           /\ pc' = "lookup" /\ UNCHANGED result

\* Ascending items after the token, and the token of the next page: none after
\* the last item, or one the server already gave.
page(items, after) ==
    LET later == SetToSortSeq({i \in items : i > after}, <)
    IN SubSeq(later, 1, Min({PageSize, Len(later)}))
tokens(items, v, p) ==
    (IF p = <<>> \/ \A i \in items : i <= Last(p) THEN {None} ELSE {[api |-> v, after |-> Last(p)]})
    \cup (IF "repeat" \in Faults THEN seen ELSE {})

\* One page of list_all_files, or of the resource's markings.
take_page(items, v) ==
    LET p == page(items, cursor.after)
        held == IF cursor = None THEN items ELSE kept
        once == IF cursor = None THEN items ELSE ever
        files == listed \o p
    IN \E next \in tokens(items, v, p) :
         CASE Len(files) > MaxFiles ->
                give_up("limit") /\ UNCHANGED <<listings, queue, markers>>
           [] Len(files) <= MaxFiles /\ next = None ->
                /\ listings' = Append(listings, [items |-> ToSet(files), kept |-> held, ever |-> once])
                /\ with_listing(files) /\ restart /\ UNCHANGED todo
           [] Len(files) <= MaxFiles /\ next # None /\ next \in seen ->
                give_up("unavailable") /\ UNCHANGED <<listings, queue, markers>>
           [] Len(files) <= MaxFiles /\ next \notin seen \cup {None} /\ pages + 1 = MaxPages ->
                give_up("limit") /\ UNCHANGED <<listings, queue, markers>>
           [] OTHER ->
                /\ cursor' = next /\ seen' = seen \cup {next} /\ pages' = pages + 1
                /\ listed' = files /\ kept' = held /\ ever' = once
                /\ UNCHANGED <<pc, todo, result, listings, queue, markers>>

served(v) == v \in apis /\ Head(todo) \in DOMAIN tree

\* list_files: the version that answered first is kept for all later requests.
pinned(v) == version' = v

\* One request of list_files.
ListFiles ==
    /\ pc = "list"
    /\ LET v == IF version = 0 THEN trying ELSE version IN
         /\ asked' = [api |-> v, cursor |-> cursor]
         /\ \/ /\ ~served(v) /\ version = 0 /\ trying = 2 /\ trying' = 1
               /\ UNCHANGED <<pc, todo, version, listing, listings, queue, markers, result, sizes>>
            \/ /\ ~served(v) /\ ~(version = 0 /\ trying = 2) /\ give_up("not_found")
               /\ trying' = 2 /\ UNCHANGED <<version, listings, queue, markers, sizes>>
            \/ /\ "error" \in Faults /\ give_up("unavailable")
               /\ trying' = 2 /\ UNCHANGED <<version, listings, queue, markers, sizes>>
            \/ /\ served(v) /\ pinned(v) /\ trying' = 2
               /\ sizes' = [f \in Files |-> IF f \in present(Head(todo)) THEN total(tree[Head(todo)][f]) ELSE sizes[f]]
               /\ take_page(present(Head(todo)), v)
    /\ UNCHANGED <<tree, marks, apis, changes, op, want, rows, emitted, fetched, shown>>

-----------------------------------------------------------------------------
(* Extraction.                                                             *)

\* bounded_frame_batches: the longest of batch_rows, halved until it fits.
length(frame, start) ==
    LET most == Min({BatchRows, Len(frame) - start + 1})
        tried == {Max({1, most \div (2^k)}) : k \in 0..most}
        fits(n) == total(SubSeq(frame, start, start + n - 1)) <= BatchBytes
    IN IF \E n \in tried : fits(n) THEN Max({n \in tried : fits(n)}) ELSE 0

\* The cuts of one frame; 0 marks a row that fits no batch.
bounded_frame_batches(frame) ==
    LET cut[s \in 1..Len(frame) + 1] ==
          IF s > Len(frame) THEN <<>>
          ELSE LET n == length(frame, s) IN
               IF n = 0 THEN << <<0>> >> ELSE << SubSeq(frame, s, s + n - 1) >> \o cut[s + n]
    IN cut[1]

Download ==
    /\ pc = "download"
    /\ LET f == Head(queue) b == Head(todo) IN
       \/ "error" \in Faults /\ fail("unavailable") /\ UNCHANGED <<queue, rows, fetched>>
       \/ f \notin present(b) /\ fail("not_found") /\ UNCHANGED <<queue, rows, fetched>>
       \/ /\ f \in present(b) /\ total(tree[b][f]) > MaxBytes
          /\ fail("limit") /\ UNCHANGED <<queue, rows, fetched>>
       \/ /\ f \in present(b) /\ total(tree[b][f]) <= MaxBytes
          /\ rows' = tree[b][f] /\ fetched' = Append(fetched, [file |-> f, branch |-> b, content |-> rows'])
          /\ pc' = "read" /\ UNCHANGED <<queue, result>>
    /\ UNCHANGED <<tree, marks, apis, changes, op, want, todo, version, trying, listing, sizes, asked,
                   listings, emitted, markers, shown>>

\* The batches of a frame are numbered on from the ones before.
numbered(batches, f) ==
    [i \in DOMAIN batches |->
       [sequence |-> Len(emitted) + i, file |-> f, branch |-> Head(todo), rows |-> batches[i]]]

\* The scan hands out frames of any size; a frame is cut before its first batch
\* is handed on.
ReadFrame ==
    /\ pc = "read"
    /\ \/ /\ rows # <<>>
          /\ \E n \in 1..Len(rows) :
               LET batches == bounded_frame_batches(SubSeq(rows, 1, n)) IN
               IF <<0>> \in ToSet(batches)
               THEN fail("limit") /\ UNCHANGED <<rows, emitted>>
               ELSE /\ emitted' = emitted \o numbered(batches, Head(queue))
                    /\ rows' = SubSeq(rows, n + 1, Len(rows)) /\ UNCHANGED <<pc, result>>
          /\ UNCHANGED queue
       \/ /\ rows = <<>> /\ queue' = Tail(queue)
          /\ IF Len(queue) = 1 THEN pc' = "done" /\ result' = "extracted"
                               ELSE pc' = "download" /\ UNCHANGED result
          /\ UNCHANGED <<rows, emitted>>
       \/ /\ "error" \in Faults  \* the file cannot be parsed
          /\ fail("unsupported") /\ UNCHANGED <<queue, rows, emitted>>
    /\ UNCHANGED <<tree, marks, apis, changes, op, want, todo, version, trying, listing, sizes, asked,
                   listings, fetched, markers, shown>>

-----------------------------------------------------------------------------
(* Inspection.                                                             *)

\* getSchema, which must be there and well formed.
ReadSchema ==
    /\ pc = "schema"
    /\ \/ pc' = "markings" /\ UNCHANGED result
       \/ "error" \in Faults /\ fail("unavailable")
    /\ UNCHANGED <<tree, marks, apis, changes, op, want, todo, version, trying, listing, sizes, asked,
                   listings, queue, rows, emitted, fetched, markers, shown>>

\* One page of the resource's markings.
ListMarkings ==
    /\ pc = "markings"
    /\ \/ take_page(marks, 2)
       \/ "error" \in Faults /\ give_up("unavailable") /\ UNCHANGED <<listings, queue, markers>>
    /\ UNCHANGED <<tree, marks, apis, changes, op, want, version, trying, sizes, asked, rows, emitted, fetched, shown>>

\* The name of a marking that is not configured by its identifier.
LookUp ==
    /\ pc = "lookup" /\ queue # <<>>
    /\ \/ /\ markers' = markers \cup ({Head(queue)} \cap Named)
          /\ queue' = Tail(queue) /\ UNCHANGED <<pc, result>>
       \/ "error" \in Faults /\ fail("unavailable") /\ UNCHANGED <<queue, markers>>
    /\ UNCHANGED <<tree, marks, apis, changes, op, want, todo, version, trying, listing, sizes, asked,
                   listings, rows, emitted, fetched, shown>>

\* The rest of inspect_object: no columns of a marked dataset, of several
\* files or of a large one; otherwise the columns of the file downloaded now.
Preview ==
    /\ pc = "lookup" /\ queue = <<>>
    /\ LET b == Head(todo)
           f == Head(want.paths)
           hidden == markers # {} \/ Len(want.paths) # 1
       IN \/ hidden /\ pc' = "done" /\ result' = "hidden" /\ UNCHANGED <<shown, fetched>>
          \/ /\ ~hidden /\ f \notin listings[1].items \cap Supported
             /\ fail("not_found") /\ UNCHANGED <<shown, fetched>>
          \/ /\ ~hidden /\ f \in listings[1].items \cap Supported
             /\ \/ /\ sizes[f] > PreviewBytes \/ (f \in present(b) /\ total(tree[b][f]) > PreviewBytes)
                   /\ pc' = "done" /\ result' = "large" /\ UNCHANGED <<shown, fetched>>
                \/ /\ sizes[f] <= PreviewBytes /\ f \notin present(b)
                   /\ fail("not_found") /\ UNCHANGED <<shown, fetched>>
                \/ /\ sizes[f] <= PreviewBytes /\ f \in present(b) /\ total(tree[b][f]) <= PreviewBytes
                   /\ fetched' = Append(fetched, [file |-> f, branch |-> b, content |-> tree[b][f]])
                   /\ shown' = TRUE /\ pc' = "done" /\ result' = "columns"
                \/ ("error" \in Faults /\ fail("unsupported") /\ UNCHANGED <<shown, fetched>>)
    /\ UNCHANGED <<tree, marks, apis, changes, op, want, todo, version, trying, listing, sizes, asked,
                   listings, queue, rows, emitted, markers>>

Ended == pc \in {"done", "failed"} /\ UNCHANGED vars

Next == Change \/ ListFiles \/ Download \/ ReadFrame \/ ReadSchema \/ ListMarkings \/ LookUp
        \/ Preview \/ Ended

Spec == Init /\ [][Next]_vars
-----------------------------------------------------------------------------
(* Properties.                                                             *)

\* The bounds of a listing; its cursor, page count and seen tokens belong to
\* the branch being listed.
TypeOK ==
    /\ version \in 0..2 /\ trying \in 1..2 /\ Len(listed) <= MaxFiles
    /\ pages = Cardinality(seen) /\ pages < MaxPages
    /\ pages > 0 => cursor \in seen
    /\ pages = 0 => cursor = None /\ listed = <<>>
    /\ todo = <<>> => pc \in {"done", "failed"}

\* list_all_files "without silent truncation": a listing that is returned holds
\* every item that was there from its first to its last page, and nothing that
\* was never there.
ListingComplete ==
    \A i \in DOMAIN listings : listings[i].kept \subseteq listings[i].items
                              /\ listings[i].items \subseteq listings[i].ever

\* A page token goes back to the API version that issued it.
OneApi == asked.cursor # None => asked.cursor.api = asked.api

\* "Branch resolution for a saved read locator is strict": nothing is read
\* from, or checked on, another branch than the saved one.
StrictBranch ==
    /\ \A i \in DOMAIN fetched : fetched[i].branch = want.branch
    /\ op \in {"extract", "inspect", "preflight"} /\ todo # <<>> => Head(todo) = want.branch

\* Batches are numbered without a gap across files, none is empty and none is
\* over its limits.
BatchesBounded ==
    \A i \in DOMAIN emitted :
        /\ emitted[i].sequence = i
        /\ Len(emitted[i].rows) \in 1..BatchRows /\ total(emitted[i].rows) <= BatchBytes

\* An extraction that ends well handed on every row it downloaded, in order,
\* of every file that was selected, once; a dataset read whole misses no
\* supported file that was there throughout its listing.
ExtractComplete ==
    result = "extracted" =>
        /\ FlattenSeq([i \in DOMAIN emitted |-> emitted[i].rows])
             = FlattenSeq([i \in DOMAIN fetched |-> fetched[i].content])
        /\ LET names == [i \in DOMAIN fetched |-> fetched[i].file] IN
             IF want.paths # <<>> THEN names = want.paths
             ELSE /\ listings[1].kept \cap Supported \subseteq ToSet(names)
                  /\ ToSet(names) \subseteq Supported /\ IsInjective(names)

\* An inspection that returns knows every configured marking the resource had
\* throughout the lookup, and shows no column of a dataset that has one.
MarkersComplete ==
    result \in {"hidden", "large", "columns"} =>
        /\ listings[2].kept \cap (Direct \cup Named) \subseteq markers
        /\ shown => listings[2].kept \cap (Direct \cup Named) = {}

Safety ==
    TypeOK /\ ListingComplete /\ OneApi /\ StrictBranch /\ BatchesBounded /\ ExtractComplete
    /\ MarkersComplete
=============================================================================
