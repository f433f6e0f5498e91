--------------------------- MODULE TableProvider ----------------------------
(***************************************************************************)
(* Delta tables as DataFusion sees them: a provider (DeltaScan) is built    *)
(* from a log store, a snapshot or an open table, stays on the version it   *)
(* was built for while others commit, may be restricted to a selection of   *)
(* files, may be encoded into a plan and decoded by another process, and    *)
(* takes INSERT INTO and INSERT OVERWRITE (DeltaDataSink).                  *)
(*                                                                         *)
(* The path of a URL is a sequence of tokens; "/" separates its segments,   *)
(* so <<"/", "t">> is a prefix of the sibling <<"/", "t", "2">>.  A file is *)
(* the table and the version that added it.  A row is "ok" or "bad": only   *)
(* "ok" rows satisfy the CHECK constraint that the table may get.           *)
(***************************************************************************)
EXTENDS Integers, Sequences, FiniteSets, SequencesExt

CONSTANTS
  Tables,      \* the tables
  Shared,      \* the tables that are open here and have other writers
  Root,        \* Root[t]: the path of the root of table t
  Names,       \* Names[v]: the name of the file that version v adds
  Providers,   \* the providers a session holds
  Requests,    \* the builds that may be asked for
  Inserts,     \* the sets of rows that may be inserted
  Changes,     \* the metadata and protocol changes of other writers
  MaxVersion,  \* MaxVersion[t]: the most commits of table t
  NONE

VARIABLES
  log,       \* log[t]: the commits of table t; a version is its place
  handle,    \* handle[t]: the version an open DeltaTable has loaded, or NONE
  provider,  \* the providers, NONE or what DeltaScan holds
  seen,      \* seen[p]: the first answer a scan of p, or of its original, gave
  last       \* the last thing a provider did

tpvars == <<log, handle, provider, seen, last>>

Latest(t) == Len(log[t])

FilesOf(commits) ==
  UNION {c.adds : c \in ToSet(commits)} \ UNION {c.removes : c \in ToSet(commits)}

FilesAt(t, v) == FilesOf(SubSeq(log[t], 1, v))

Changed(t, v, what) == \E i \in 1..v : log[t][i].meta = what

\* The columns of the table: "x", and those that were added since.
ColumnsAt(t, v) == {"x"} \cup {c \in {"path", "path_1"} : Changed(t, v, c)}

-----------------------------------------------------------------------------
(* URLs of table roots and of selected files.                              *)

\* Mutant: a root without its trailing slash is also the prefix of a sibling.
ensure_table_root_url_mutant(path) == path

ensure_table_root_url(path) == IF Last(path) = "/" THEN path ELSE Append(path, "/")

\* Mutant: user names in the URL are part of the identity.
canonical_table_root_identity_mutant(url) ==
  [path |-> ensure_table_root_url(url.path), user |-> url.user]

canonical_table_root_identity(url) ==
  [path |-> ensure_table_root_url(url.path), user |-> NONE]

\* Url::join of the root and a path relative to it.
Join(root, path) ==
  IF Head(path) = ".." THEN <<Head(root)>> \o SubSeq(path, 3, Len(path)) ELSE root \o path

normalize_path_as_file_id(path, root) ==
  IF Head(path) = "/" THEN path ELSE Join(ensure_table_root_url(root), path)

\* What is left of the path below the root, or NONE outside of it.
validate_selected_file_url_under_table_root(url, root) ==
  LET base == ensure_table_root_url(root)
  IN IF IsPrefix(base, url) THEN SubSeq(url, Len(base) + 1, Len(url)) ELSE NONE

resolve_input_file_ids(selection, root) ==
  {validate_selected_file_url_under_table_root(normalize_path_as_file_id(p, root), root) :
     p \in selection.paths}

-----------------------------------------------------------------------------
(* Building a provider.                                                    *)

\* The name of the file path column: the one asked for, or the first of "path",
\* "path_1", "path_2" that is no column of the table.
resolve_file_column_name_mutant(columns, given) ==
  IF given # "auto" THEN (IF given \in columns THEN NONE ELSE given)
  ELSE IF "path" \in columns THEN "path_1" ELSE "path"

resolve_file_column_name(columns, given) ==
  IF given # "auto" THEN (IF given \in columns THEN NONE ELSE given)
  ELSE LET names == <<"path", "path_1", "path_2">>
       IN names[CHOOSE i \in DOMAIN names :
                  names[i] \notin columns /\ \A j \in 1..(i - 1) : names[j] \in columns]

\* The snapshot a request brings along: that of the open table, if one is loaded.
BroughtSnapshot(r) == IF r.snapshot = NONE THEN NONE ELSE handle[r.snapshot]

\* The table and the version that the provider shows; a version that is asked for
\* only counts when no snapshot is brought along.
Shown(r) ==
  IF BroughtSnapshot(r) # NONE THEN [table |-> r.snapshot, version |-> BroughtSnapshot(r)]
  ELSE IF r.store = NONE THEN NONE
  ELSE LET v == IF r.version = NONE THEN Latest(r.store) ELSE r.version
       IN IF v > Latest(r.store) THEN NONE ELSE [table |-> r.store, version |-> v]

RootOf(t) == [path |-> ensure_table_root_url(Root[t]), user |-> NONE]
StoreRoot(r) == [path |-> Root[r.store], user |-> r.user]

\* Mutant: the roots of the snapshot and of the log store are not compared.
RootsAgree_mutant(r) == TRUE

RootsAgree(r) ==
  r.store = NONE \/
    canonical_table_root_identity(RootOf(Shown(r).table)) =
    canonical_table_root_identity(StoreRoot(r))

validate_supported_reader_features(s) == ~Changed(s.table, s.version, "feature")

\* TableProviderBuilder takes the name as it is; DeltaScanConfigBuilder resolves it.
FileColumn(r) ==
  IF ~r.resolve THEN r.column
  ELSE resolve_file_column_name(ColumnsAt(Shown(r).table, Shown(r).version), r.column)

BuildError(r) ==
  CASE Shown(r) = NONE -> "snapshot"
    [] Shown(r) # NONE /\ ~RootsAgree(r) -> "root"
    [] Shown(r) # NONE /\ RootsAgree(r) /\ ~validate_supported_reader_features(Shown(r)) ->
         "feature"
    [] Shown(r) # NONE /\ r.resolve /\ FileColumn(r) = NONE -> "column"
    [] OTHER -> NONE

build(p, r) ==
  /\ provider[p] = NONE
  /\ IF BuildError(r) # NONE
     THEN /\ last' = [kind |-> "build", provider |-> p, request |-> r, error |-> BuildError(r)]
          /\ UNCHANGED <<provider, seen>>
     ELSE /\ provider' = [provider EXCEPT ![p] =
                [table |-> Shown(r).table, version |-> Shown(r).version, store |-> r.store,
                 selection |-> r.selection, column |-> FileColumn(r), resolved |-> r.resolve]]
          /\ last' = NONE
          /\ UNCHANGED seen
  /\ UNCHANGED <<log, handle>>

-----------------------------------------------------------------------------
(* Reading.                                                                *)

FileId(f) == <<Names[f.at]>>

\* The answer of a scan: the files read, or an error.
Scanned(d) ==
  LET active == FilesAt(d.table, d.version)
      asked == resolve_input_file_ids(d.selection, Root[d.table])
      missing == asked \ {FileId(f) : f \in active}
  IN IF d.selection = NONE THEN [error |-> FALSE, files |-> active]
     ELSE IF NONE \in asked \/ (missing # {} /\ ~d.selection.ignore)
     THEN [error |-> TRUE, files |-> {}]
     ELSE [error |-> FALSE, files |-> {f \in active : FileId(f) \in asked}]

scan(p) ==
  /\ provider[p] # NONE
  /\ LET answer == Scanned(provider[p])
     IN /\ last' = [kind |-> "scan", provider |-> p, answer |-> answer]
        /\ seen' = [seen EXCEPT ![p] = IF @ = NONE THEN answer ELSE @]
  /\ UNCHANGED <<log, handle, provider>>

\* Mutant: the selection is left out of the encoded form too.
Encoded_mutant(d) == [d EXCEPT !.store = NONE, !.selection = NONE]

\* What serde keeps of a provider: everything but the log store.
Encoded(d) == [d EXCEPT !.store = NONE]

\* A plan is encoded here and decoded where it is executed.
try_decode_table_provider(p) ==
  /\ provider[p] # NONE
  /\ provider' = [provider EXCEPT ![p] = Encoded(@)]
  /\ provider' # provider /\ last' = NONE
  /\ UNCHANGED <<log, handle, seen>>

-----------------------------------------------------------------------------
(* Writing.                                                                *)

File(t, rows) == [table |-> t, at |-> Latest(t) + 1, rows |-> rows]
Commit(adds, removes, meta) == [adds |-> adds, removes |-> removes, meta |-> meta]

\* Mutant: INSERT OVERWRITE removes the files that the provider's selection shows.
Removed_mutant(d, op) == IF op = "Overwrite" THEN Scanned(d).files ELSE {}

\* INSERT OVERWRITE removes every file of the provider's snapshot.
Removed(d, op) == IF op = "Overwrite" THEN FilesAt(d.table, d.version) ELSE {}

\* What fails the commit: a metadata or protocol change, or a file removed twice.
Conflicts(d, op) ==
  \E i \in (d.version + 1)..Latest(d.store) :
    \/ log[d.store][i].meta # NONE
    \/ log[d.store][i].removes \cap Removed(d, op) # {}

\* A provider without a log store, as a decoded one, and REPLACE INTO are refused.
Refused(d, op) == op = "Replace" \/ d.store = NONE

insert_into(p, op, rows) ==
  LET d == provider[p]
      t == d.store
      failed == Refused(d, op) \/ Conflicts(d, op)
  IN /\ d # NONE
     /\ t # NONE => Latest(t) < MaxVersion[t]
     /\ last' = [kind |-> "insert", provider |-> p, op |-> op, rows |-> rows, failed |-> failed]
     /\ IF failed THEN UNCHANGED log
        ELSE log' = [log EXCEPT ![t] =
               Append(@, Commit({File(t, rows)}, Removed(d, op), NONE))]
     /\ UNCHANGED <<handle, provider, seen>>

\* Other writers: a WRITE, whose rows are validated, and a DELETE of one file.
OtherWrite(t, rows) ==
  /\ Latest(t) < MaxVersion[t]
  /\ Changed(t, Latest(t), "check") => "bad" \notin rows
  /\ log' = [log EXCEPT ![t] = Append(@, Commit({File(t, rows)}, {}, NONE))]
  /\ last' = NONE
  /\ UNCHANGED <<handle, provider, seen>>

OtherDelete(t) ==
  /\ Latest(t) < MaxVersion[t]
  /\ \E f \in FilesAt(t, Latest(t)) :
       log' = [log EXCEPT ![t] = Append(@, Commit({}, {f}, NONE))]
  /\ last' = NONE
  /\ UNCHANGED <<handle, provider, seen>>

\* Changes of metadata or protocol; ADD CONSTRAINT validates the rows of the table.
OtherChange(t, what) ==
  /\ Latest(t) < MaxVersion[t]
  /\ what = "check" => \A f \in FilesAt(t, Latest(t)) : "bad" \notin f.rows
  /\ log' = [log EXCEPT ![t] = Append(@, Commit({}, {}, what))]
  /\ last' = NONE
  /\ UNCHANGED <<handle, provider, seen>>

\* DeltaTable::load and update_state of the open table.
Load(t) ==
  /\ handle' = [handle EXCEPT ![t] = Latest(t)]
  /\ handle' # handle /\ last' = NONE
  /\ UNCHANGED <<log, provider, seen>>

Init ==
  /\ log = [t \in Tables |-> <<Commit({[table |-> t, at |-> 1, rows |-> {"ok"}]}, {}, NONE)>>]
  /\ handle = [t \in Tables |-> NONE]
  /\ provider = [p \in Providers |-> NONE]
  /\ seen = [p \in Providers |-> NONE] /\ last = NONE

Next ==
  \/ \E p \in Providers :
       \/ \E r \in Requests : build(p, r)
       \/ scan(p) \/ try_decode_table_provider(p)
       \/ \E op \in {"Append", "Overwrite", "Replace"}, rows \in Inserts : insert_into(p, op, rows)
  \/ \E t \in Shared :
       \/ \E rows \in Inserts : OtherWrite(t, rows)
       \/ OtherDelete(t) \/ Load(t)
       \/ \E what \in Changes : OtherChange(t, what)

-----------------------------------------------------------------------------
\* Scanning a provider is repeatable: whatever was committed in between, and also
\* after it was encoded and decoded elsewhere, a provider gives the answer of its
\* first scan.
ScansRepeat ==
  last # NONE /\ last.kind = "scan" => last.answer = seen[last.provider]

\* A selected path that leads out of the table is an error even when missing files
\* are to be ignored, also if the other table's root begins with this one's name.
OutsideRefused ==
  (last # NONE /\ last.kind = "scan" /\ provider[last.provider].selection # NONE
     /\ \E path \in provider[last.provider].selection.paths :
          \E t \in Tables \ {provider[last.provider].table} :
            Head(path) = "/" /\ IsPrefix(Root[t] \o <<"/">>, path)) => last.answer.error

\* Two spellings of the same root are one table: a provider is never refused for its
\* root when snapshot and log store belong to the same table.
SameTableAccepted ==
  (last # NONE /\ last.kind = "build" /\ last.error = "root") =>
    last.request.snapshot # last.request.store

\* A commit removes only files of its own table, so a snapshot of one table is never
\* used to insert into another.
RemovesOwnFiles ==
  \A t \in Tables : \A i \in 1..Latest(t) : \A f \in log[t][i].removes : f.table = t

\* A file path column whose name DeltaScanConfigBuilder resolved never hides a column
\* of the snapshot.
FileColumnNew ==
  \A p \in Providers :
    (provider[p] # NONE /\ provider[p].resolved) =>
      provider[p].column \notin ColumnsAt(provider[p].table, provider[p].version)

\* An INSERT takes effect on the table as the provider shows it, whether or not the
\* provider is stale and whatever files it selects: an append keeps every row, an
\* overwrite leaves none of the rows of the provider's version and all that were
\* written after it; a decoded provider writes nothing.
InsertExact ==
  (last' # NONE /\ last'.kind = "insert" /\ last' # last /\ ~last'.failed) =>
    LET d == provider[last'.provider]
        t == d.store
    IN /\ t # NONE
       /\ LET before == FilesAt(t, Latest(t))
              after == FilesOf(log'[t])
              kept == IF last'.op = "Append" THEN before
                      ELSE {f \in before : f.at > d.version}
          IN after = kept \cup {File(t, last'.rows)}

\* "Check constraints are a way to enforce that only data that meets the constraint is
\* allowed to be added to the table": the rows of a table with a constraint satisfy it.
InsertedRowsChecked ==
  \A t \in Tables : Changed(t, Latest(t), "check") =>
    \A f \in FilesAt(t, Latest(t)) : "bad" \notin f.rows
=============================================================================
