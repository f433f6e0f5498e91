---------------------------- MODULE UnityClient ----------------------------
(***************************************************************************)
(* A Unity Catalog client.  How it authenticates: which credential its     *)
(* settings choose, and the cache of expiring tokens that its concurrent   *)
(* requests share behind an asynchronous lock.  Time is counted in units   *)
(* of which Margin stands for the 300 seconds a cached token must still be *)
(* good for; a caller reads the clock before it waits for the lock.        *)
(*                                                                         *)
(* What it reads: paginated listings, the client's cache of tables, the    *)
(* storage location of a table with credentials for it, and the DataFusion *)
(* schema provider with its caches of credentials and of opened tables.    *)
(* Requests of several tasks share one client; the catalog drops and       *)
(* re-creates the table, with a new id and location, meanwhile.            *)
(***************************************************************************)
EXTENDS Integers, FiniteSets, Sequences, SequencesExt

CONSTANTS
    Settings,    \* sets of keys that are set by the environment or the options
    Callers,     \* tasks that send requests through one client
    Margin,      \* how long a cached token must still be valid
    Lifetimes,   \* lifetimes of the tokens the servers issue
    MaxClock,    \* bound: time
    Tasks,       \* tasks that use the client
    Listings,    \* listings a server may give: token -> [items, next]
    First,       \* what asks for the first page
    NONE,
    MaxTables,   \* bound: incarnations of the table
    MaxCalls     \* bound: calls of a task

VARIABLES
    settings,   \* the keys that are set
    clock,
    cached,     \* TokenCache::cache: the expiry of the cached token or NONE
    holder,     \* who holds the cache's lock
    caller,     \* of each caller: [st, now, token, at]
    listing,    \* the listing of the server
    list,       \* list_catalogs, list_schemas: [st, token, seen, items]
    current,    \* the table in the catalog: its incarnation or NONE
    made,       \* incarnations so far
    cache,      \* UnityCatalog::table_cache: incarnation, Error or NONE
    creds,      \* UnitySchemaProvider::token_cache: incarnation or NONE
    provider,   \* UnitySchemaProvider::table_cache: [location, creds] or NONE
    task,       \* of each task: [op, pc, answer, location, creds]
    calls

tvars == <<settings, clock, cached, holder, caller>>
uvars == <<listing, list, current, made, cache, creds, provider, task, calls>>

Keys == {"token_credential", "token", "client", "workspace_url", "authority_id", "use_azure_cli"}
Asleep == [st |-> "idle", now |-> 0, token |-> NONE, at |-> 0]

(* get_credential_provider: the first credential the settings are complete *)
(* for; "client" is a client id with its secret.                           *)
get_credential_provider(keys) ==
    IF "token_credential" \in keys THEN "token_credential"
    ELSE IF "token" \in keys THEN "bearer"
    ELSE IF {"client", "workspace_url"} \subseteq keys THEN "workspace_oauth"
    ELSE IF {"client", "authority_id"} \subseteq keys THEN "client_secret_oauth"
    ELSE IF "use_azure_cli" \in keys THEN "azure_cli"
    ELSE NONE

(* build fails without a credential or without the workspace.              *)
Builds(keys) == get_credential_provider(keys) # NONE /\ "workspace_url" \in keys

Error == 0    \* an answer that reports an error
Idle == [op |-> NONE, pc |-> "idle", answer |-> NONE, location |-> NONE, creds |-> NONE]

(* try_with_options and from_env: the settings a client was built from.    *)
Configured == {keys \in Settings \cap SUBSET Keys : Builds(keys)}

Init ==
    /\ settings \in Configured
    /\ clock = 0
    /\ cached = NONE
    /\ holder = NONE
    /\ caller = [c \in Callers |-> Asleep]
    /\ listing \in Listings
    /\ list = [st |-> "more", token |-> First, seen |-> {}, items |-> <<>>]
    /\ current \in {NONE, 1}
    /\ made = IF current = NONE THEN 0 ELSE 1
    /\ cache = NONE
    /\ creds = NONE
    /\ provider = NONE
    /\ task = [t \in Tasks |-> Idle]
    /\ calls = [t \in Tasks |-> 0]

-----------------------------------------------------------------------------
(* Credentials.                                                            *)

Provider == get_credential_provider(settings)

(* get_credential: a bearer token needs no cache.                          *)
get_credential(c) ==
    /\ caller[c].st \in {"idle", "done"}
    /\ caller' = [caller EXCEPT ![c] =
            [Asleep EXCEPT !.st = IF Provider = "bearer" THEN "done" ELSE "waiting", !.now = clock, !.at = clock]]
    /\ UNCHANGED <<settings, clock, cached, holder>>

Reusable_mutant(now) == cached # NONE /\ cached - now > 0
Reusable(now) == cached # NONE /\ cached - now > Margin

Return(c, token) == caller' = [caller EXCEPT ![c].st = "done", ![c].token = token, ![c].at = clock]

(* get_or_insert_with, once it has the lock.                               *)
get_or_insert_with(c) ==
    /\ caller[c].st = "waiting"
    /\ holder = NONE
    /\ IF Reusable(caller[c].now)
       THEN Return(c, cached) /\ UNCHANGED holder
       ELSE /\ holder' = c
            /\ caller' = [caller EXCEPT ![c].st = "fetching"]
    /\ UNCHANGED <<settings, clock, cached>>

(* fetch_token of the OAuth providers: the token's lifetime counts from    *)
(* the answer.                                                             *)
OAuthExpiry(life) == clock + life
(* fetch_token of the Azure CLI: the token may be an older one, and is     *)
(* refused when its lifetime is over.                                      *)
AzureCliExpiry(life, age) == IF life > age THEN clock + (life - age) ELSE NONE

Issued ==
    IF Provider = "azure_cli" THEN {AzureCliExpiry(l, a) : l \in Lifetimes, a \in 0..1}
    ELSE {OAuthExpiry(l) : l \in Lifetimes}

Fetched(c) ==
    /\ holder = c
    /\ \E token \in Issued \cup {NONE} :    \* NONE: the request failed
          /\ cached' = IF token = NONE THEN cached ELSE token
          /\ Return(c, token)
    /\ holder' = NONE
    /\ UNCHANGED <<settings, clock>>

(* A caller that is dropped gives the lock back.                           *)
Cancel(c) ==
    /\ caller[c].st \in {"waiting", "fetching"}
    /\ caller' = [caller EXCEPT ![c] = Asleep]
    /\ holder' = IF holder = c THEN NONE ELSE holder
    /\ UNCHANGED <<settings, clock, cached>>

Tick ==
    /\ clock < MaxClock
    /\ clock' = clock + 1
    /\ UNCHANGED <<settings, cached, holder, caller>>

-----------------------------------------------------------------------------
(* list_catalogs and list_schemas: one page after the other.               *)

Continue_mutant(page) ==
    IF page.next = NONE THEN [list EXCEPT !.st = "done", !.items = @ \o page.items]
    ELSE IF page.next = list.token THEN [list EXCEPT !.st = "cycle"]
    ELSE [list EXCEPT !.token = page.next, !.items = @ \o page.items]
Continue(page) ==
    IF page.next = NONE THEN [list EXCEPT !.st = "done", !.items = @ \o page.items]
    ELSE IF page.next \in list.seen THEN [list EXCEPT !.st = "cycle", !.items = @ \o page.items]
    ELSE [list EXCEPT !.token = page.next, !.seen = @ \cup {page.next}, !.items = @ \o page.items]

ListPage ==
    /\ list.st = "more"
    /\ \/ list' = Continue(listing[list.token])
       \/ list' = [list EXCEPT !.st = "error", !.items = <<>>]
    /\ UNCHANGED <<listing, current, made, cache, creds, provider, task, calls>>

-----------------------------------------------------------------------------
(* The catalog.                                                            *)

DropTable ==
    /\ current # NONE
    /\ current' = NONE
    /\ UNCHANGED <<listing, list, made, cache, creds, provider, task, calls>>

CreateTable ==
    /\ current = NONE
    /\ made < MaxTables
    /\ made' = made + 1
    /\ current' = made + 1
    /\ UNCHANGED <<listing, list, cache, creds, provider, task, calls>>

-----------------------------------------------------------------------------
(* get_uc_location_and_token has a client of its own, whose cache is the   *)
(* task's answer; the schema provider's tasks share the client's.          *)

Begin(t, op) ==
    /\ task[t].pc \in {"idle", "done", "failed"}
    /\ calls[t] < MaxCalls
    /\ calls' = [calls EXCEPT ![t] = @ + 1]
    /\ task' = [task EXCEPT ![t] =
            IF op = "provider" /\ provider # NONE
            THEN [Idle EXCEPT !.op = op, !.pc = "done", !.location = provider.location, !.creds = provider.creds]
            ELSE [Idle EXCEPT !.op = op, !.pc = "get_table"]]
    /\ UNCHANGED <<listing, list, current, made, cache, creds, provider>>

Cached(t) == IF task[t].op = "provider" THEN cache ELSE task[t].answer
Lookup == IF current = NONE THEN Error ELSE current

(* get_table, the request: answered from the cache or by the catalog.      *)
get_table_mutant(t) ==
    /\ task[t].pc = "get_table"
    /\ task' = [task EXCEPT ![t].pc = "table", ![t].answer = Lookup]
    /\ UNCHANGED <<listing, list, current, made, cache, creds, provider, calls>>
get_table(t) ==
    /\ task[t].pc = "get_table"
    /\ task' = [task EXCEPT ![t].pc = "table", ![t].answer = IF Cached(t) # NONE THEN Cached(t) ELSE Lookup]
    /\ UNCHANGED <<listing, list, current, made, cache, creds, provider, calls>>

(* get_table, the answer: cached, be it a table or an error, and used for  *)
(* the location first, then for the credentials.                           *)
TableAnswered(t) ==
    /\ task[t].pc = "table"
    /\ cache' = IF task[t].op = "provider" THEN task[t].answer ELSE cache
    /\ LET a == task[t].answer
       IN  task' = [task EXCEPT ![t] =
                IF a = Error THEN [@ EXCEPT !.pc = "failed"]
                ELSE IF @.location = NONE
                THEN [@ EXCEPT !.location = a,
                        !.pc = IF task[t].op = "provider" THEN "get_creds" ELSE "get_table"]
                ELSE [@ EXCEPT !.pc = "post"]]
    /\ UNCHANGED <<listing, list, current, made, creds, provider, calls>>

(* UnitySchemaProvider::get_creds through the cache of tokens: a task that *)
(* finds credentials being fetched waits for them.                         *)
get_creds(t) ==
    /\ task[t].pc = "get_creds"
    /\ \A u \in Tasks \ {t} : ~(task[u].op = "provider" /\ task[u].location # NONE
                                /\ task[u].pc \in {"get_table", "table", "post"})
    /\ task' = [task EXCEPT ![t] =
            IF creds # NONE THEN [@ EXCEPT !.creds = creds, !.pc = "open"] ELSE [@ EXCEPT !.pc = "get_table"]]
    /\ UNCHANGED <<listing, list, current, made, cache, creds, provider, calls>>

(* get_temp_table_credentials_with_permission: READ_WRITE, else READ; the  *)
(* catalog vends credentials by the table's id, if it is still there.      *)
PostCredentials(t) ==
    /\ task[t].pc = "post"
    /\ LET granted == task[t].answer = current
       IN  /\ task' = [task EXCEPT ![t] =
                IF ~granted THEN [@ EXCEPT !.pc = "failed"]
                ELSE [@ EXCEPT !.creds = task[t].answer,
                        !.pc = IF task[t].op = "provider" THEN "open" ELSE "done"]]
           /\ creds' = IF granted /\ task[t].op = "provider" THEN task[t].answer ELSE creds
    /\ UNCHANGED <<listing, list, current, made, cache, provider, calls>>

(* SchemaProvider::table, once it has credentials: the table is loaded     *)
(* from its location and kept.                                             *)
OpenProvider(t) ==
    /\ task[t].pc = "open"
    /\ IF task[t].creds = task[t].location /\ task[t].location = current
       THEN /\ provider' = [location |-> task[t].location, creds |-> task[t].creds]
            /\ task' = [task EXCEPT ![t].pc = "done"]
       ELSE /\ task' = [task EXCEPT ![t].pc = "failed"]
            /\ UNCHANGED provider
    /\ UNCHANGED <<listing, list, current, made, cache, creds, calls>>

Next ==
    \/ /\ \/ Tick
          \/ \E c \in Callers : get_credential(c) \/ get_or_insert_with(c) \/ Fetched(c) \/ Cancel(c)
       /\ UNCHANGED uvars
    \/ /\ \/ ListPage \/ DropTable \/ CreateTable
          \/ \E t \in Tasks :
                \/ \E op \in {"location", "provider"} : Begin(t, op)
                \/ get_table(t) \/ TableAnswered(t) \/ get_creds(t) \/ PostCredentials(t) \/ OpenProvider(t)
       /\ UNCHANGED tvars

-----------------------------------------------------------------------------
(* A token is still valid when its caller gets it, although the caller     *)
(* compared its expiry with a clock read before it waited for the lock, as *)
(* long as it did not wait for more than the margin.                       *)
TokenUsable ==
    \A c \in Callers :
        caller[c].st = "done" /\ caller[c].token # NONE /\ caller[c].at - caller[c].now <= Margin =>
            caller[c].token > caller[c].at

(* A listing that ends has the items of every page, each once, and no      *)
(* listing asks for a page twice: a server whose tokens go round in a      *)
(* cycle is reported instead of being asked for ever.                      *)
ListedOnce ==
    /\ Len(list.items) <= Cardinality(UNION {ToSet(listing[k].items) : k \in DOMAIN listing})
    /\ list.st = "done" => ToSet(list.items) = UNION {ToSet(listing[k].items) : k \in list.seen \cup {First}}

(* The credentials get_uc_location_and_token returns are for the table at  *)
(* the location it returns, whatever the catalog does in between.          *)
LocationHasItsCredentials ==
    \A t \in Tasks : task[t].op = "location" /\ task[t].pc = "done" => task[t].creds = task[t].location

=============================================================================
