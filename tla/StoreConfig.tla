---- MODULE StoreConfig ----
(***************************************************************************)
(* How a table URL, the caller's storage options and the environment       *)
(* become an object store.  The storage crates enter their factories in    *)
(* two process-wide registries, from constructors that run in an           *)
(* unspecified order.  DeltaTableBuilder::build_storage then parses the    *)
(* options, finds the factory of the URL's scheme, and the factory merges  *)
(* options and environment and decides on a credential.  An S3 store       *)
(* keeps the credential it resolved and resolves it again once it expired. *)
(*                                                                         *)
(* A scheme is a sequence of names: <<"s3">> is s3://, <<"opendal","s3">>  *)
(* is opendal+s3://.  Options and environment map the canonical key to a   *)
(* value; what matters of a merged value is where it came from.            *)
(***************************************************************************)
EXTENDS Integers, Sequences, SequencesExt, TLC

CONSTANTS
    Crates,      \* the storage crates linked into the program
    Services,    \* OpenDAL services enabled by feature flags
    Requests,    \* [scheme, options, env, backend] a caller may open with
    Managed,     \* [options, routes, location, vended, env] a catalog-managed table may be opened with;
                 \* a route is [root, endpoint], roots and locations are sequences of URL components
    Lifetimes,   \* lifetimes the AWS provider chain gives its credentials
    MaxClock,    \* bound on the clock
    NONE

VARIABLES
    objects, logs, \* object_store_factories() and logstore_factories(): scheme -> crate
    registered,    \* crates whose constructor has run
    request,       \* the request being opened, or NONE
    store,         \* the opened store, "failed", or NONE
    clock,
    cache,         \* AWSForObjectStore.cache: [expiry] or NONE
    used           \* the credential the last S3 request was signed with, or NONE

scvars == <<objects, logs, registered, request, store, clock, cache, used>>

---------------------------------------------------------------------------
\* The registries.

NativeSchemes == {<<s>> : s \in {"file", "memory", "s3", "s3a", "gs", "az", "azure", "adl",
                    "abfs", "abfss", "hdfs", "viewfs", "lakefs", "dbfs", "uc"}}

SpecialSchemes == {<<s>> : s \in {"ftp", "http", "https", "ws", "wss"}}

BareSchemes_mutant(services) == {<<s>> : s \in services} \ SpecialSchemes

\* A service's bare scheme is taken only where no native backend owns it and the URL parses.
BareSchemes(services) == {<<s>> : s \in services} \ (NativeSchemes \cup SpecialSchemes)

AwsSchemes == {<<"s3">>, <<"s3a">>}

AzureSchemes == {<<"az">>, <<"adl">>, <<"azure">>, <<"abfs">>, <<"abfss">>}

GcpSchemes == {<<"gs">>}

HdfsSchemes == {<<"hdfs">>, <<"viewfs">>}

MountSchemes == {<<"dbfs">>, <<"file">>}

OpendalSchemes == {<<"opendal", s>> : s \in Services} \cup BareSchemes(Services)

Schemes(crate) ==
    CASE crate = "aws"     -> AwsSchemes
      [] crate = "azure"   -> AzureSchemes
      [] crate = "gcp"     -> GcpSchemes
      [] crate = "hdfs"    -> HdfsSchemes
      [] crate = "mount"   -> MountSchemes
      [] crate = "opendal" -> OpendalSchemes

\* What the registries hold when they are first used.
ObjectFactories == [s \in {<<"memory">>, <<"file">>} |-> "core"]

LogFactories == [s \in {<<"memory">>, <<"file">>} |-> "core"]

\* register_handlers of a crate: one insert per scheme into each registry, the last one wins.
RegisterHandlers(crate) ==
    LET mine == [s \in Schemes(crate) |-> crate]
    IN  /\ crate \notin registered
        /\ registered' = registered \cup {crate}
        /\ objects' = mine @@ objects
        /\ logs' = mine @@ logs
        /\ UNCHANGED <<request, store, clock, cache, used>>

---------------------------------------------------------------------------
\* StorageConfig::parse_options.

Sections == <<"runtime", "limit", "certificate", "retry">>

\* TryUpdateKey: a section knows the key and its parser refuses the value.
Refuses(section, options) == section \in DOMAIN options /\ options[section] = "bad"

\* Each section takes its keys out of what the one before left, and raises what it refused.
ParseOptions(options) == \A i \in DOMAIN Sections : ~Refuses(Sections[i], options)

---------------------------------------------------------------------------
\* Options augmented by the environment: key -> [from, value].

\* The options as the builder hands them on.
Given(options) == [k \in DOMAIN options |-> [from |-> "options", value |-> options[k]]]

Filled_mutant(config, keys, env) ==
    [k \in keys \cap DOMAIN env |-> [from |-> "env", value |-> env[k]]] @@ config

\* Entry::Vacant / or_insert: a key of the environment only where the options have none.
Filled(config, keys, env) ==
    config @@ [k \in keys \cap DOMAIN env |-> [from |-> "env", value |-> env[k]]]

\* CREDENTIAL_KEYS: what is not taken from the environment once there is a credential.
CredentialKeys(provider) ==
    IF provider = "azure"
    THEN {"client_id", "client_secret", "federated_token_file", "sas_key", "token",
          "msi_endpoint", "object_id", "msi_resource_id"}
    ELSE {"service_account_key", "application_credentials"}

AzurePriority ==
    <<{"access_key"}, {"sas_key"}, {"token"}, {"client_id", "client_secret", "authority_id"},
      {"authority_id", "client_id", "federated_token_file"}>>

GcpPriority == <<{"service_account_key"}, {"application_credentials"}>>

\* The credentials a provider knows, the preferred ones first.
Priority(provider) == IF provider = "azure" THEN AzurePriority ELSE GcpPriority

\* The first credential of the priority list that is among the good ones, {} if none is.
FirstOf(provider, good) ==
    LET creds == SelectSeq(Priority(provider), LAMBDA c : c \in good)
    IN  IF creds = <<>> THEN {} ELSE Head(creds)

\* The credential completed from the environment: one the options hold a part of is preferred.
Completed_mutant(provider, config, env) ==
    FirstOf(provider, SUBSET (DOMAIN config \cup DOMAIN env))

Completed(provider, config, env) ==
    LET full    == SUBSET (DOMAIN config \cup DOMAIN env)
        partial == {c \in ToSet(Priority(provider)) : c \in full /\ c \cap DOMAIN config # {}}
    IN  FirstOf(provider, IF partial # {} THEN partial ELSE full)

\* AzureConfigHelper::build and GcpConfigHelper::build.
ConfigHelper(provider, options, env) ==
    LET config   == Given(options)
        complete == \/ provider = "azure" /\ "use_azure_cli" \in DOMAIN options
                    \/ FirstOf(provider, SUBSET DOMAIN config) # {}
        cred     == IF complete THEN {} ELSE Completed(provider, config, env)
        omit     == IF complete \/ cred # {} THEN CredentialKeys(provider) ELSE {}
    IN  Filled(Filled(config, cred, env), DOMAIN env \ omit, env)

\* Keys delta-rs defines itself: with_env_s3 does not take them from the environment.
DeltaKeys == {"aws_s3_locking_provider", "aws_force_credential_load", "aws_iam_role_arn"}

\* with_env_s3.
WithEnvS3(options, env) ==
    LET merged == Filled(Given(options), DOMAIN env \ DeltaKeys, env)
    IN  Filled(merged, {"copy_if_not_exists"}, [k \in {"copy_if_not_exists"} |-> "multipart"])

\* str_option: the options first, then the environment itself.
StrOption(config, env, key) == key \in DOMAIN config \cup DOMAIN env

IsAws_mutant(config, env) == TRUE

IsAws(config, env) ==
    \/ StrOption(config, env, "aws_force_credential_load")
    \/ StrOption(config, env, "aws_s3_locking_provider")
    \/ "aws_endpoint" \notin DOMAIN config

\* OptionsCredentialsProvider.
StaticKeys(config) == {"access_key_id", "secret_access_key"} \subseteq DOMAIN config

\* resolve_credentials: the first provider of the chain that is configured.
ResolveCredentials(config, env) ==
    IF StrOption(config, env, "aws_iam_role_arn") THEN "assume_role"
    ELSE IF StaticKeys(config) THEN "storage_options"
    ELSE "default_chain"

\* MountConfigHelper::build.
MountConfig(options, env) == Filled(Given(options), DOMAIN env, env)

Allowed_mutant(options, env) == "allow_unsafe_rename" \in DOMAIN MountConfig(options, env)

\* allow_unsafe_rename, as the options or else the environment say.
Allowed(options, env) ==
    LET config == MountConfig(options, env)
    IN  "allow_unsafe_rename" \in DOMAIN config /\ config["allow_unsafe_rename"].value = "true"

---------------------------------------------------------------------------
\* ObjectStoreFactory::parse_url_opts of each crate.

Store(crate, backend, credentials, config) ==
    [crate |-> crate, backend |-> backend, credentials |-> credentials, config |-> config]

AzureStore(options, env) == Store("azure", "azure", "config", ConfigHelper("azure", options, env))

GcpStore(options, env) == Store("gcp", "gcp", "config", ConfigHelper("gcp", options, env))

S3Store(options, env) ==
    LET config == WithEnvS3(options, env)
    IN  Store("aws", "aws", IF IsAws(config, env) THEN ResolveCredentials(config, env) ELSE "config", config)

\* The backend whose creates are not atomic is only for those who ask for it.
MountStore(scheme, options, env) ==
    Store("mount",
          IF Allowed(options, env) THEN "mount" ELSE IF scheme = <<"dbfs">> THEN "refused" ELSE "local",
          "none", MountConfig(options, env))

OpendalStore(options) == Store("opendal", "opendal", "none", Given(options))

HdfsStore(options) == Store("hdfs", "hdfs", "none", Given(options))

DefaultStore(options) == Store("core", "local", "none", Given(options))

ParseUrlOpts(crate, r) ==
    CASE crate = "azure"   -> AzureStore(r.options, r.env)
      [] crate = "gcp"     -> GcpStore(r.options, r.env)
      [] crate = "aws"     -> S3Store(r.options, r.env)
      [] crate = "mount"   -> MountStore(r.scheme, r.options, r.env)
      [] crate = "opendal" -> OpendalStore(r.options)
      [] crate = "hdfs"    -> HdfsStore(r.options)
      [] crate = "core"    -> DefaultStore(r.options)

Failed == [backend |-> "failed"]

LogstoreWith(root, r) == IF r.scheme \in DOMAIN logs THEN root @@ [logs |-> logs[r.scheme]] ELSE Failed

LogstoreFor(r) ==
    IF r.scheme \notin DOMAIN objects THEN Failed
    ELSE LET root == ParseUrlOpts(objects[r.scheme], r)
         IN  IF root.backend = "refused" THEN Failed ELSE LogstoreWith(root, r)

\* build_storage: a caller's own backend only needs the log store.
BuildStorage(r) ==
    /\ registered = Crates
    /\ request = NONE
    /\ request' = r
    /\ store' = IF ~ParseOptions(r.options) THEN Failed
                ELSE IF r.backend THEN LogstoreWith(Store("caller", "caller", "none", Given(r.options)), r)
                ELSE LogstoreFor(r)
    /\ UNCHANGED <<objects, logs, registered, clock, cache, used>>

---------------------------------------------------------------------------
\* The store of a catalog-managed table: the transport the caller configured,
\* with the route of the location and the credentials that the catalog vended.

IdentityOptions == {"access_key_id", "secret_access_key", "session_token", "aws_iam_role_arn"}

\* transport_storage_options: the caller brings no storage identity.
TransportRefused(options) == DOMAIN options \cap IdentityOptions # {}

\* contains: a root and what is below it, component by component.
RootContains(root, location) == IsPrefix(root, location)

\* validate_root: an S3 URL that names a bucket.
ValidRoot(root) == root # << >>

\* S3StorageRoute::validate: the endpoint is the root of an HTTPS server.
ValidRoute(route) == ValidRoot(route.root) /\ route.endpoint # "insecure"

\* CatalogStorageRoutes::new, at construction and at decoding.
RoutesRefused(routes) ==
    \/ \E i \in DOMAIN routes : ~ValidRoute(routes[i])
    \/ \E i, j \in DOMAIN routes : i # j /\ RootContains(routes[i].root, routes[j].root)

\* for_location: the first route whose root contains the location.
ForLocation(routes, location) ==
    LET fit == {i \in DOMAIN routes : RootContains(routes[i].root, location)}
    IN  IF ~ValidRoot(location) \/ fit = {} THEN NONE ELSE routes[CHOOSE i \in fit : \A j \in fit : i <= j]

\* S3StorageRoute::options.
RouteOptions(route) == [k \in {"aws_endpoint", "aws_region"} |-> route.endpoint]

\* native_log_store: what comes later replaces what came before it.
NativeLogStore(t) ==
    LET route == IF t.routes = NONE THEN NONE ELSE ForLocation(t.routes, t.location)
        routed == IF t.routes = NONE THEN t.options ELSE RouteOptions(route) @@ t.options
        r == [scheme |-> <<"s3">>, options |-> t.vended @@ routed, env |-> t.env, backend |-> FALSE, table |-> t]
    IN  /\ registered = Crates
        /\ request = NONE
        /\ IF \/ TransportRefused(t.options)
              \/ t.routes # NONE /\ (RoutesRefused(t.routes) \/ route = NONE)
           THEN request' = t /\ store' = Failed
           ELSE request' = r /\ store' = IF ParseOptions(r.options) THEN LogstoreFor(r) ELSE Failed
        /\ UNCHANGED <<objects, logs, registered, clock, cache, used>>

---------------------------------------------------------------------------
\* AWSForObjectStore::get_credential.

UsesChain ==
    /\ store # NONE
    /\ store.backend # "failed"
    /\ store.credentials \in {"assume_role", "storage_options", "default_chain"}

StillValid_mutant(cached) == TRUE

\* Credentials without an expiry are kept for good.
StillValid(cached) == cached.expiry = NONE \/ cached.expiry >= clock

\* Keys of the options have no expiry; a role that cannot be assumed falls back to what follows.
Expiries ==
    {NONE} \cup IF store.credentials = "storage_options" THEN {} ELSE {clock + l : l \in Lifetimes}

\* One caller at a time holds the cache's lock, across the call to the provider.
GetCredential ==
    /\ UsesChain
    /\ IF cache # NONE /\ StillValid(cache)
       THEN used' = cache /\ UNCHANGED cache
       ELSE \/ \E e \in Expiries : cache' = [expiry |-> e] /\ used' = cache'
            \/ used' = NONE /\ UNCHANGED cache       \* the provider fails
    /\ UNCHANGED <<objects, logs, registered, request, store, clock>>

Tick ==
    /\ UsesChain
    /\ clock < MaxClock
    /\ clock' = clock + 1
    /\ used' = NONE
    /\ UNCHANGED <<objects, logs, registered, request, store, cache>>

Init ==
    /\ objects = ObjectFactories
    /\ logs = LogFactories
    /\ registered = {}
    /\ request = NONE
    /\ store = NONE
    /\ clock = 0
    /\ cache = NONE
    /\ used = NONE

Next ==
    \/ \E c \in Crates : RegisterHandlers(c)
    \/ \E r \in Requests : BuildStorage(r)
    \/ \E t \in Managed : NativeLogStore(t)
    \/ GetCredential
    \/ Tick

---------------------------------------------------------------------------
Opened == store # NONE /\ store.backend # "failed"

\* Whatever order the constructors run in, an OpenDAL service never takes over a scheme of a
\* native backend, and a scheme's object store and log store come from the same crate
\* (register_handlers of crates/opendal, last-writer-wins insert).
NativeBackendServes ==
    /\ \A s \in DOMAIN objects : objects[s] = "opendal" => s \notin NativeSchemes
    /\ objects = logs

\* A value the caller passes is never replaced by one of the environment, and no table is
\* opened past a value that does not parse (Entry::Vacant, or_insert, raise_errors).
OptionsRespected ==
    Opened =>
        /\ \A k \in DOMAIN request.options : store.config[k] = [from |-> "options", value |-> request.options[k]]
        /\ \A i \in DOMAIN Sections : Sections[i] \in DOMAIN request.options => request.options[Sections[i]] = "good"

\* When the options hold a whole credential, no other credential key of the environment is
\* mixed into the configuration; when they hold a part that the environment can complete, a
\* credential with a key of theirs is complete in the result (ConfigHelper::build).
CredentialOfTheCaller ==
    Opened /\ store.credentials = "config" /\ store.crate \in {"azure", "gcp"} =>
        LET creds == {Priority(store.crate)[i] : i \in DOMAIN Priority(store.crate)}
            mine  == DOMAIN request.options
            all   == mine \cup DOMAIN request.env
        IN  /\ (\E c \in creds : c \subseteq mine) =>
                  \A k \in CredentialKeys(store.crate) \cap DOMAIN store.config : store.config[k].from = "options"
            /\ (\E c \in creds : c \cap mine # {} /\ c \subseteq all) =>
                  \E c \in creds : c \cap mine # {} /\ c \subseteq DOMAIN store.config

\* The file backend whose creates are not atomic serves only tables whose options say so, or
\* whose options are silent and whose environment says so (MountFactory, MountConfigHelper).
UnsafeOnlyWhenAllowed ==
    Opened /\ store.backend = "mount" =>
        LET says == request.options @@ request.env
        IN  says["allow_unsafe_rename"] = "true"

\* A store with an endpoint of its own is not given credentials of the AWS provider chain
\* unless the caller or the environment insists on it (is_aws).
ChainOnlyForAws ==
    UsesChain => \/ "aws_endpoint" \notin DOMAIN request.options \cup DOMAIN request.env
                 \/ {"aws_force_credential_load", "aws_s3_locking_provider"}
                        \cap (DOMAIN request.options \cup DOMAIN request.env) # {}

\* A catalog-managed table is opened with the keys the catalog vended and nobody else's, and,
\* where routes are configured, at the endpoint of the one route that its location is under
\* (native_log_store, CatalogStorageRoutes).
ManagedAsVended ==
    Opened /\ "table" \in DOMAIN request =>
        LET t == request.table
        IN  /\ \A k \in IdentityOptions \cap DOMAIN t.vended :
                  store.config[k] = [from |-> "options", value |-> t.vended[k]]
            /\ t.routes # NONE =>
                  LET under == {i \in DOMAIN t.routes : RootContains(t.routes[i].root, t.location)}
                  IN  \E i \in under : /\ under = {i}
                                       /\ ValidRoute(t.routes[i])
                                       /\ store.config["aws_endpoint"].value = t.routes[i].endpoint

\* No request is signed with a cached credential that has expired (get_credential).
CredentialLive == used # NONE => used.expiry = NONE \/ used.expiry >= clock
====
