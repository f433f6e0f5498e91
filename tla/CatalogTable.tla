---------------------------- MODULE CatalogTable ----------------------------
(***************************************************************************)
(* A managed table's life in the Unity Catalog: its creation through a     *)
(* staging allocation, the opening of it with vended credentials, and the  *)
(* catalog's own copy of its metadata, kept by the updates that go with    *)
(* every ratified commit.  Creators race for one name, answers get lost,   *)
(* and the table is dropped and created again under open handles.  How a   *)
(* commit is staged, ratified and published is in CatalogManaged; here a   *)
(* commit is one update of the catalog.                                    *)
(*                                                                         *)
(* Metadata is [columns, props, comment, domains, features]; props maps    *)
(* keys to values, with Absent for the keys that are not set.              *)
(***************************************************************************)
EXTENDS Naturals

CONSTANTS
    Clients,      \* processes that create or open the table
    Requests,     \* what a creator asks for: [props, features]
    Required,     \* required properties: key -> value, or Any for any value
    RequiredFeatures,
    Supported,    \* features this writer supports
    Changes,      \* changes of metadata a commit may make: [props, comment, domain]
    Absent, Any, NONE,
    MaxTables,    \* bound: allocations
    MaxCommits    \* bound: commits

VARIABLES
    entry,      \* the catalog's entry for the name: [uuid, etag, version, meta] or NONE
    storage,    \* of each allocation, the metadata in its log; NONE: nothing is written
    allocated,  \* allocations so far; an allocation is its uuid and its location
    entered,    \* the allocations that were ever entered under the name
    client,     \* of each client: [pc, req, uuid, creds, etag, seen, access]
    commits     \* commits so far

cvars == <<entry, storage, allocated, entered, client, commits>>

Idle == [pc |-> "idle", req |-> NONE, uuid |-> NONE, creds |-> NONE, etag |-> 0, seen |-> NONE, access |-> NONE]

Init ==
    /\ entry = NONE
    /\ storage = [u \in 1..MaxTables |-> NONE]
    /\ allocated = 0
    /\ entered = {}
    /\ client = [c \in Clients |-> Idle]
    /\ commits = 0

Set(c, rec) == client' = [client EXCEPT ![c] = rec]
Fail(c) == Set(c, [client[c] EXCEPT !.pc = "failed"])

-----------------------------------------------------------------------------
(* Vended credentials: [op, prefix, expired]; a prefix is the location of  *)
(* one allocation or the root, 0, of all of them.                          *)

Vended(uuid, op) ==
    {[op |-> op, prefix |-> uuid, expired |-> FALSE], [op |-> op, prefix |-> 0, expired |-> FALSE],
     [op |-> "READ", prefix |-> uuid, expired |-> FALSE], [op |-> op, prefix |-> uuid, expired |-> TRUE]}

Covers(credential, uuid) == credential.prefix \in {0, uuid}

(* storage_options_for: of the credentials for exactly this operation that *)
(* have not expired and cover the location, the one with the longest       *)
(* prefix; NONE when there is none.                                        *)
storage_options_for_mutant(offered, uuid, op) ==
    LET fit == {k \in offered : k.op = op /\ ~k.expired}
        exact == {k \in fit : k.prefix # 0}
    IN  IF fit = {} THEN NONE ELSE IF exact # {} THEN CHOOSE k \in exact : TRUE ELSE CHOOSE k \in fit : TRUE
storage_options_for(offered, uuid, op) ==
    LET fit == {k \in offered : k.op = op /\ ~k.expired /\ Covers(k, uuid)}
        exact == {k \in fit : k.prefix # 0}
    IN  IF fit = {} THEN NONE ELSE IF exact # {} THEN CHOOSE k \in exact : TRUE ELSE CHOOSE k \in fit : TRUE

-----------------------------------------------------------------------------
(* create_managed_delta_table                                              *)

(* merge_required_properties: NONE on a conflict, or when neither side has *)
(* a value.                                                                *)
merge_required_properties_mutant(supplied) ==
    [k \in DOMAIN supplied |-> IF supplied[k] # Absent THEN supplied[k]
                               ELSE IF k \in DOMAIN Required THEN Required[k] ELSE Absent]
merge_required_properties(supplied) ==
    IF \E k \in DOMAIN Required :
          \/ Required[k] = Any /\ supplied[k] = Absent
          \/ Required[k] # Any /\ supplied[k] \notin {Absent, Required[k]}
    THEN NONE
    ELSE [k \in DOMAIN supplied |->
            IF k \in DOMAIN Required /\ Required[k] # Any THEN Required[k] ELSE supplied[k]]

(* create_delta_staging_table, and the checks of what it answers.          *)
Stage(c, req) ==
    /\ client[c].pc \in {"idle", "failed"}
    /\ allocated < MaxTables
    /\ allocated' = allocated + 1
    /\ LET props == merge_required_properties(req.props)
           features == RequiredFeatures \cup req.features
       IN  Set(c, IF props = NONE \/ ~(features \subseteq Supported)
                  THEN [Idle EXCEPT !.pc = "failed"]
                  ELSE [Idle EXCEPT !.pc = "staged", !.uuid = allocated + 1, !.access = "READ_WRITE",
                            !.seen = [columns |-> "c0", props |-> props, comment |-> Absent,
                                      domains |-> {}, features |-> features]])
    /\ UNCHANGED <<entry, storage, entered, commits>>

(* The credentials of the allocation, or new ones when none of them fits,  *)
(* and version 0 in its location; another attempt has another location.    *)
WriteVersionZero(c) ==
    /\ client[c].pc = "staged"
    /\ \E offered \in SUBSET Vended(client[c].uuid, "READ_WRITE") :
          LET first == storage_options_for(offered, client[c].uuid, "READ_WRITE")
              again == storage_options_for(Vended(client[c].uuid, "READ_WRITE"), client[c].uuid, "READ_WRITE")
              vended == IF first = NONE THEN again ELSE first
          IN  Set(c, [client[c] EXCEPT !.pc = "written", !.creds = vended])
    /\ storage' = [storage EXCEPT ![client[c].uuid] = client[c].seen]
    /\ UNCHANGED <<entry, allocated, entered, commits>>

(* The catalog's side of create_delta_table: it takes the metadata of the  *)
(* request, once for a name.  The answer may get lost.                     *)
CreateTable(c) ==
    /\ client[c].pc = "written"
    /\ entry' = IF entry = NONE
                THEN [uuid |-> client[c].uuid, etag |-> client[c].uuid * 10, version |-> 0, meta |-> client[c].seen]
                ELSE entry
    /\ \/ entry = NONE /\ Set(c, [client[c] EXCEPT !.pc = "validate", !.etag = client[c].uuid * 10])
       \/ Set(c, [client[c] EXCEPT !.pc = "reconcile"])
    /\ entered' = entered \cup {entry'.uuid}
    /\ UNCHANGED <<storage, allocated, commits>>

(* The request never got there.                                            *)
CreateLost(c) ==
    /\ client[c].pc = "written"
    /\ Set(c, [client[c] EXCEPT !.pc = "reconcile"])
    /\ UNCHANGED <<entry, storage, allocated, entered, commits>>

(* validate_finalized_table                                                *)
validate_finalized_table_mutant(uuid, load) == TRUE
validate_finalized_table(uuid, load) == load.uuid = uuid

Reconcile(c) ==
    /\ client[c].pc = "reconcile"
    /\ IF entry = NONE \/ ~validate_finalized_table(client[c].uuid, entry) THEN Fail(c)
       ELSE Set(c, [client[c] EXCEPT !.pc = "open", !.etag = entry.etag, !.seen = storage[client[c].uuid]])
    /\ UNCHANGED <<entry, storage, allocated, entered, commits>>

Validate(c) ==
    /\ client[c].pc = "validate"
    /\ Set(c, [client[c] EXCEPT !.pc = "open"])
    /\ UNCHANGED <<entry, storage, allocated, entered, commits>>

-----------------------------------------------------------------------------
(* build_catalog_managed_log_store: the state, then the credentials.       *)

OpenTable(c, access) ==
    /\ client[c].pc \in {"idle", "failed"}
    /\ IF entry = NONE THEN Set(c, [Idle EXCEPT !.pc = "failed"])
       ELSE Set(c, [Idle EXCEPT !.pc = "loaded", !.uuid = entry.uuid, !.etag = entry.etag,
                                !.seen = storage[entry.uuid], !.access = access])
    /\ UNCHANGED <<entry, storage, allocated, entered, commits>>

OpenCredentials(c) ==
    /\ client[c].pc = "loaded"
    /\ LET offered == IF entry = NONE THEN {} ELSE {k \in Vended(entry.uuid, client[c].access) : k.prefix # 0}
           vended == storage_options_for(offered, client[c].uuid, client[c].access)
       IN  IF vended = NONE THEN Fail(c)
           ELSE Set(c, [client[c] EXCEPT !.pc = "open", !.creds = vended])
    /\ UNCHANGED <<entry, storage, allocated, entered, commits>>

(* refresh_catalog_state, with or without a new snapshot of the table; an  *)
(* entry of another table is an error.                                     *)
Refresh(c) ==
    /\ client[c].pc = "open"
    /\ entry # NONE
    /\ entry.uuid = client[c].uuid
    /\ \E seen \in {client[c].seen, storage[entry.uuid]} :
          Set(c, [client[c] EXCEPT !.etag = entry.etag, !.seen = seen])
    /\ UNCHANGED <<entry, storage, allocated, entered, commits>>

Close(c) ==
    /\ client[c].pc = "open"
    /\ Set(c, Idle)
    /\ UNCHANGED <<entry, storage, allocated, entered, commits>>

-----------------------------------------------------------------------------
(* Commits.                                                                *)

Changed(meta, k) ==
    [meta EXCEPT !.props = [p \in DOMAIN meta.props |-> IF p \in DOMAIN k.props THEN k.props[p] ELSE meta.props[p]],
                 !.comment = k.comment,
                 !.domains = IF k.domain = NONE THEN @ ELSE IF k.removed THEN @ \ {k.domain} ELSE @ \cup {k.domain}]

(* append_metadata_updates: the properties that differ from the previous   *)
(* ones and those that are gone; a comment cannot be taken away.           *)
append_metadata_updates_mutant(previous, meta) ==
    {[set |-> k, value |-> meta.props[k]] :
        k \in {p \in DOMAIN meta.props : meta.props[p] # Absent /\ meta.props[p] # previous.props[p]}}
append_metadata_updates(previous, meta) ==
    {[set |-> k, value |-> meta.props[k]] :
        k \in {p \in DOMAIN meta.props : meta.props[p] # Absent /\ meta.props[p] # previous.props[p]}}
    \cup {[set |-> k, value |-> Absent] :
        k \in {p \in DOMAIN meta.props : meta.props[p] = Absent /\ previous.props[p] # Absent}}
CommentRemoved(previous, meta) == previous.comment # Absent /\ meta.comment = Absent

(* append_domain_updates: the catalog keeps the domains it knows; other    *)
(* "delta." domains are refused, and those of users are not its business.  *)
CatalogDomains == {"delta.clustering", "delta.rowTracking"}
SystemDomains == CatalogDomains \cup {"delta.other"}
append_domain_updates(k) == IF k.domain \in CatalogDomains THEN {k} ELSE {}
DomainRefused(k) == k.domain \in SystemDomains \ CatalogDomains

(* The catalog's copy after the updates of one request.                    *)
Apply(meta, new, props, domains) ==
    [meta EXCEPT !.columns = new.columns, !.comment = new.comment,
                 !.props = [p \in DOMAIN meta.props |->
                    IF \E u \in props : u.set = p THEN (CHOOSE u \in props : u.set = p).value ELSE meta.props[p]],
                 !.domains = (@ \ {k.domain : k \in {d \in domains : d.removed}})
                                \cup {k.domain : k \in {d \in domains : ~d.removed}}]

(* update_request: the uuid is always required, the etag when metadata     *)
(* changes.                                                                *)
Requirements(c, changes) ==
    /\ entry.uuid = client[c].uuid
    /\ changes => entry.etag = client[c].etag

Commit(c, k) ==
    /\ client[c].pc = "open"
    /\ client[c].access = "READ_WRITE"    \* a READ open cannot commit
    /\ commits < MaxCommits
    /\ entry # NONE
    /\ LET old == client[c].seen
           new == IF k = NONE THEN old ELSE Changed(old, k)
           props == append_metadata_updates(old, new)
           domains == IF k = NONE THEN {} ELSE append_domain_updates(k)
       IN  IF \/ ~Requirements(c, k # NONE)
              \/ k # NONE /\ old # storage[client[c].uuid]    \* the conflict check of the commit loop
              \/ k # NONE /\ (CommentRemoved(old, new) \/ DomainRefused(k))
           THEN Fail(c) /\ UNCHANGED <<entry, storage, commits>>
           ELSE /\ commits' = commits + 1
                /\ storage' = IF k = NONE THEN storage ELSE [storage EXCEPT ![client[c].uuid] = new]
                /\ entry' = [entry EXCEPT !.version = @ + 1,
                                          !.etag = IF k = NONE THEN @ ELSE @ + 1,
                                          !.meta = IF k = NONE THEN @ ELSE Apply(@, new, props, domains)]
                /\ Set(c, [client[c] EXCEPT !.etag = entry'.etag, !.seen = storage'[client[c].uuid]])
    /\ UNCHANGED <<allocated, entered>>

-----------------------------------------------------------------------------
DropTable ==
    /\ entry # NONE
    /\ entry' = NONE
    /\ UNCHANGED <<storage, allocated, entered, client, commits>>

Next ==
    \/ \E c \in Clients :
          \/ \E req \in Requests : Stage(c, req)
          \/ WriteVersionZero(c) \/ CreateTable(c) \/ CreateLost(c) \/ Reconcile(c) \/ Validate(c)
          \/ \E access \in {"READ", "READ_WRITE"} : OpenTable(c, access)
          \/ OpenCredentials(c) \/ Refresh(c) \/ Close(c)
          \/ \E k \in Changes \cup {NONE} : Commit(c, k)
    \/ DropTable

-----------------------------------------------------------------------------
(* The catalog's copy of the metadata of a table is the metadata in its    *)
(* log, as far as the catalog keeps it, whoever changed it, in whatever    *)
(* order commits, drops and new tables come.                               *)
CatalogMetadataCurrent ==
    entry # NONE =>
        LET meta == storage[entry.uuid]
        IN  /\ meta # NONE
            /\ entry.meta.props = meta.props
            /\ entry.meta.comment = meta.comment
            /\ entry.meta.domains = meta.domains \cap CatalogDomains

(* As long as no commit has changed its metadata, a table in the catalog   *)
(* has the properties and features the catalog requires, in its log and in *)
(* its entry, whatever its creator asked for and whoever created the name  *)
(* before.  A later commit may take a required property away:              *)
(* append_metadata_updates sends the removal, and nothing on this side     *)
(* compares it with what was required.                                     *)
Meets(meta) ==
    /\ RequiredFeatures \subseteq meta.features
    /\ \A k \in DOMAIN Required : meta.props[k] # Absent /\ Required[k] \in {Any, meta.props[k]}
RequiredAsCreated ==
    entry # NONE /\ entry.etag = entry.uuid * 10 => Meets(entry.meta) /\ Meets(storage[entry.uuid])

(* An open handle has a log to read where it thinks the table is, and its  *)
(* credentials are for that location and for no more than was asked.       *)
OpenedWhatWasAsked ==
    \A c \in Clients : client[c].pc = "open" =>
        /\ storage[client[c].uuid] # NONE
        /\ Covers(client[c].creds, client[c].uuid)
        /\ client[c].creds.op = client[c].access

(* A client only ever has a table open that was in the catalog under the   *)
(* name: a creator that lost the race, or whose request never arrived,     *)
(* does not come away with its own staged table.                           *)
OpenedWasCatalogued == \A c \in Clients : client[c].pc = "open" => client[c].uuid \in entered

=============================================================================
