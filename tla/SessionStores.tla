---- MODULE SessionStores ----
(***************************************************************************)
(* The object stores of a DataFusion session.  Tables of one origin have   *)
(* credentials of their own, so a session delta-rs creates routes every    *)
(* request by path to the store of the innermost registered table          *)
(* (ScopedObjectStoreRegistry); a session of the caller's has DataFusion's *)
(* registry, one store per origin.  An operation resolves the session it   *)
(* was given, registers its table's store and then reads and writes        *)
(* through the session, other operations doing the same meanwhile.         *)
(*                                                                         *)
(* A location is a sequence of path segments, a segment a sequence of      *)
(* words joined by dashes.  A store is [table, gen]: whose credentials it  *)
(* has, and of which generation.                                           *)
(***************************************************************************)
EXTENDS Integers, Sequences, SequencesExt, FiniteSetsExt

CONSTANTS
    Tables,      \* table locations of one origin, some nested in others
    File,        \* the last segment of a file's path
    MaxRenewals, \* bound on how often tables are opened again with new credentials
    Policies,    \* subset of {"InternalDefaults", "DeriveFromTrait", "RequireSessionState"}
    NONE

VARIABLES
    kind,        \* what the caller shares: "delta", "plain" or "foreign" (not a SessionState)
    creds,       \* [Tables -> generation of the credentials in the table's log store]
    stores,      \* the shared session's registry: location -> store
    legacy,      \* stores registered under delta-rs:// names: name -> store
    task,        \* [Tables -> the operation running on the table, or NONE]
    last         \* the last request: [op, table, from, to, store], store NONE if refused

ssvars == <<kind, creds, stores, legacy, task, last>>

Root == << >>

Within(root, path) == IsPrefix(root, path)

StoreOf(t) == [table |-> t, gen |-> creds[t]]

---------------------------------------------------------------------------
\* resolve_session_state: the session an operation runs in, "own" being a new one.
ResolveSession(policy) ==
    IF kind \in {"delta", "plain"} THEN "shared"
    ELSE CASE policy = "InternalDefaults"    -> "own"
           [] policy = "DeriveFromTrait"     -> "shared"
           [] policy = "RequireSessionState" -> "refused"

\* A foreign session shares its runtime, whose registry is DataFusion's own.
Scoped == kind = "delta"

Key_mutant(t) == Root

\* register_store: under the table's path, or under the origin.
Key(t) == IF Scoped THEN t ELSE Root

Registered(t, registry) == (Key(t) :> StoreOf(t)) @@ registry

\* The path registry's longest registered prefix of a path, NONE if there is none.
Scope(path) ==
    LET roots == {r \in DOMAIN stores : Within(r, path)}
    IN  IF roots = {} THEN NONE ELSE CHOOSE r \in roots : \A s \in roots : Len(s) <= Len(r)

\* TableScopedObjectStore::resolve; a path of no table is refused.
Resolve(path) == IF Scope(path) = NONE THEN NONE ELSE stores[Scope(path)]

ResolvePair_mutant(from, to) == Resolve(from)

\* resolve_pair: both ends in one table's scope.
ResolvePair(from, to) ==
    IF Scope(from) # NONE /\ Scope(from) = Scope(to) THEN Resolve(from) ELSE NONE

ObjectStoreUrl_mutant(t) == Root

\* object_store_url: separators and dashes look the same.
ObjectStoreUrl(t) == FlattenSeq(t)

---------------------------------------------------------------------------
\* The application opens the table again with renewed credentials.
Renew(t) ==
    /\ MapThenSumSet(LAMBDA u : creds[u], Tables) < MaxRenewals
    /\ creds' = [creds EXCEPT ![t] = @ + 1]
    /\ UNCHANGED <<kind, stores, legacy, task, last>>

\* An operation starts: resolve_session_state, update_datafusion_session and
\* ensure_log_store_registered, which keeps a store already there.
Begin(t, policy) ==
    /\ task[t] = NONE
    /\ ResolveSession(policy) # "refused"
    /\ task' = [task EXCEPT ![t] = [session |-> ResolveSession(policy), store |-> StoreOf(t)]]
    /\ IF ResolveSession(policy) = "own"
       THEN UNCHANGED <<stores, legacy>>
       ELSE /\ stores' = Registered(t, stores)
            /\ legacy' = legacy @@ (ObjectStoreUrl(t) :> StoreOf(t))
    /\ UNCHANGED <<kind, creds, last>>

Serve(t, store) == IF task[t].session = "own" THEN task[t].store ELSE store

\* put, get, delete or list of a path in the operation's table.
Request(t) ==
    /\ task[t] # NONE
    /\ LET path == Append(t, File)
       IN  last' = [op |-> "request", table |-> t, from |-> path, to |-> path,
                    store |-> Serve(t, Resolve(path))]
    /\ UNCHANGED <<kind, creds, stores, legacy, task>>

\* copy or rename, possibly to another table's path.
Copy(t, u) ==
    /\ task[t] # NONE
    /\ task[t].session = "shared"
    /\ LET from == Append(t, File)
           to   == Append(u, File)
       IN  last' = [op |-> "copy", table |-> t, from |-> from, to |-> to,
                    store |-> ResolvePair(from, to)]
    /\ UNCHANGED <<kind, creds, stores, legacy, task>>

\* CDF's file scan goes through the delta-rs:// name.
ReadChanges(t) ==
    /\ task[t] # NONE
    /\ LET path == Append(t, File)
       IN  last' = [op |-> "changes", table |-> t, from |-> path, to |-> path,
                    store |-> Serve(t, legacy[ObjectStoreUrl(t)])]
    /\ UNCHANGED <<kind, creds, stores, legacy, task>>

Finish(t) ==
    /\ task[t] # NONE
    /\ task' = [task EXCEPT ![t] = NONE]
    /\ UNCHANGED <<kind, creds, stores, legacy, last>>

Init ==
    /\ kind \in {"delta", "plain", "foreign"}
    /\ creds = [t \in Tables |-> 0]
    /\ stores = [r \in {} |-> NONE]
    /\ legacy = [n \in {} |-> NONE]
    /\ task = [t \in Tables |-> NONE]
    /\ last = NONE

Next ==
    \E t \in Tables :
        \/ Renew(t)
        \/ \E p \in Policies : Begin(t, p)
        \/ Request(t)
        \/ \E u \in Tables : Copy(t, u)
        \/ ReadChanges(t)
        \/ Finish(t)

---------------------------------------------------------------------------
\* In a session of delta-rs an operation's requests carry its own table's credentials, at
\* least as new as when it began, whatever other tables are registered around or inside it
\* (TableScopedObjectStore::resolve, ensure_object_store_registered).
OwnCredentials ==
    Scoped /\ last' # last /\ last'.op = "request" =>
        /\ last'.store.table = last'.table
        /\ last'.store.gen >= task[last'.table].store.gen

\* A copy or rename is only carried out inside one table's scope: no store is ever asked to
\* reach into a table whose credentials it does not have (resolve_pair).
NoCopyAcrossTables ==
    Scoped /\ last' # last /\ last'.op = "copy" /\ last'.store # NONE =>
        /\ Within(last'.store.table, last'.from)
        /\ \A r \in DOMAIN stores : Within(r, last'.to) => Within(r, last'.store.table)

\* The change feed of a table is read through another table's store only if the two
\* locations become equal once their separators are read as dashes (object_store_url).
ChangesOfTheTable ==
    last # NONE /\ last.op = "changes" /\ last.store.table # last.table =>
        FlattenSeq(last.store.table) = FlattenSeq(last.table)
====
