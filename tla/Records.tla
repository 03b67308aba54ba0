------------------------------ MODULE Records ------------------------------
(***************************************************************************)
(* The generated record layer (models/) as the program uses it.  A session *)
(* holds a struct: a copy of a row, or a row to be.  Insert and Update     *)
(* build a statement from the columns the call site names, keep it in a    *)
(* cache shared by all sessions and run it; between the look-up in the     *)
(* cache and the statement's effect any other session may run.  The five   *)
(* tables differ in their columns, in what the database fills in by        *)
(* itself, in the times the layer stamps and in the calls the program      *)
(* makes; `unit' picks the tables a behaviour is about.                    *)
(*                                                                         *)
(* A value is a number: 0 is the zero value (NULL, FALSE, the empty        *)
(* string), a time is a reading of `clock'.                                *)
(***************************************************************************)
EXTENDS Naturals, Sequences, FiniteSets

CONSTANTS
    Sessions,   \* goroutines that use the database
    RecordKeys,  \* primary keys a caller may choose
    MaxClock,   \* bound on the clock
    MaxLog,     \* bound on the rows of query_log
    Nil         \* no row, no struct, no statement, nobody

ASSUME RecordsConstants ==
    /\ RecordKeys \subseteq Nat \ {0}
    /\ MaxClock \in Nat \ {0}
    /\ MaxLog \in Nat \ {0}

VARIABLES
    unit,    \* the tables this behaviour is about
    tableRows,  \* the rows of every table, by primary key
    obj,     \* the struct a session holds
    rel,     \* the related struct SetPublishQuery is given
    stmt,    \* the statement a session is about to run
    ran,     \* the session whose statement has just taken effect
    stmtCache,  \* the statements built so far
    lockedBy,   \* the session whose transaction selected the row FOR UPDATE
    recordClock

recordsVars == <<unit, tableRows, obj, rel, stmt, ran, stmtCache, lockedBy, recordClock>>

-----------------------------------------------------------------------------
(* The tables: all columns, the ones with a default, the primary key, and  *)
(* the columns Insert stamps when they are zero.                           *)

UserTable ==
    [all |-> {"id", "created_at", "updated_at", "sdk_account_id",
              "lbrynet_server_id", "last_seen_at", "idp_id"},
     withDefault |-> <<"created_at", "updated_at">>,
     pk |-> "id"]

UploadTable ==
    [all |-> {"id", "user_id", "path", "created_at", "updated_at", "status",
              "error", "size", "received"},
     withDefault |-> <<"created_at", "received">>,
     pk |-> "id"]

PublishQueryTable ==
    [all |-> {"upload_id", "created_at", "updated_at", "status", "error",
              "query", "response"},
     withDefault |-> <<"created_at">>,
     pk |-> "upload_id"]

AsynqueryTable ==
    [all |-> {"id", "user_id", "created_at", "updated_at", "status", "error",
              "upload_id", "body", "response", "ready_to_run", "file_ready",
              "file_meta"},
     withDefault |-> <<"created_at", "ready_to_run", "file_ready">>,
     pk |-> "id"]

QueryLogTable ==
    [all |-> {"id", "method", "timestamp", "user_id", "remote_ip", "body"},
     withDefault |-> <<"id", "timestamp">>,
     pk |-> "id"]

Tables == {"users", "uploads", "publish_queries", "asynqueries", "query_log"}

TableOf == [users |-> UserTable, uploads |-> UploadTable,
            publish_queries |-> PublishQueryTable,
            asynqueries |-> AsynqueryTable, query_log |-> QueryLogTable]

Ids(t) == IF t = "query_log" THEN 1 .. MaxLog ELSE RecordKeys

Elems(seq) == {seq[i] : i \in DOMAIN seq}

(* What the schema puts in a column the INSERT does not name.              *)
Default(t, c) ==
    CASE c \in {"created_at", "updated_at", "timestamp"} -> recordClock
      [] c = "ready_to_run" -> 1
      [] t = "query_log" /\ c = "id" ->
            Cardinality({k \in Ids(t) : tableRows[t][k] # Nil}) + 1
      [] OTHER -> 0

-----------------------------------------------------------------------------
(* The columns a call site names: boil.Infer, Whitelist and Greylist.      *)

Infer == [kind |-> "infer", cols |-> <<>>]
Whitelist(cs) == [kind |-> "whitelist", cols |-> cs]
Greylist(cs) == [kind |-> "greylist", cols |-> cs]

(* queries.NonZeroDefaultSet: columns with a default that the struct sets. *)
NonZeroDefaultSet(t, o) ==
    SelectSeq(TableOf[t].withDefault, LAMBDA c : o[c] # 0)

(* boil.Columns.InsertColumnSet, the columns written; the other columns    *)
(* with a default are returned by the statement.                           *)
InsertColumnSet(t, columns, nz) ==
    IF columns.kind = "whitelist"
    THEN Elems(columns.cols)
    ELSE (TableOf[t].all \ Elems(TableOf[t].withDefault))
            \cup Elems(nz) \cup Elems(columns.cols)

(* boil.Columns.UpdateColumnSet.                                           *)
UpdateColumnSet(t, columns) ==
    IF columns.kind = "whitelist"
    THEN Elems(columns.cols)
    ELSE (TableOf[t].all \ {TableOf[t].pk}) \cup Elems(columns.cols)

\* Mutant of makeCacheKey: the names of the columns are left out of the key.
makeCacheKeyKind(columns, nz) ==
    <<columns.kind>> \o (IF nz = <<>> THEN <<>> ELSE <<".">>) \o nz

(* The key of a statement: the kind, the names of the columns and, after a *)
(* dot, the non-zero defaults.  The code runs the names together; none of  *)
(* the lists the program uses spells another one.                          *)
makeCacheKey(columns, nz) ==
    <<columns.kind>> \o columns.cols
        \o (IF nz = <<>> THEN <<>> ELSE <<".">>) \o nz

-----------------------------------------------------------------------------
(* The calls the program makes.                                            *)

(* createUser inserts what getOrCreate* put in the struct.                 *)
createUserCalls ==
    {[columns |-> Infer, given |-> [id |-> k, idp_id |-> i]] :
        k \in RecordKeys, i \in {0, 1}}

(* getDBUser by remote id, then the identity is added; bumping an SDK.     *)
UserUpdates ==
    {[columns |-> Infer, given |-> [idp_id |-> 1]],
     [columns |-> Infer, given |-> [lbrynet_server_id |-> 2]]}

(* markUploadCreated.                                                      *)
UploadInserts ==
    {[columns |-> Infer,
      given |-> [id |-> k, user_id |-> 1, size |-> 1, status |-> 1]] :
        k \in RecordKeys}

(* markUploadProgress, processUpload, markUploadTerminated or -Finished,   *)
(* markUploadFailed; one value stands for the statuses after `created'.    *)
UploadUpdates ==
    {[columns |-> Whitelist(<<"status", "received", "updated_at">>),
      given |-> [status |-> 2, received |-> 1]],
     [columns |-> Whitelist(<<"status", "path", "updated_at">>),
      given |-> [status |-> 2, path |-> 1]],
     [columns |-> Whitelist(<<"status", "updated_at">>),
      given |-> [status |-> 2]],
     [columns |-> Whitelist(<<"status", "error", "updated_at">>),
      given |-> [status |-> 2, error |-> 1]]}

(* processUpload's record of the query, with its own updated_at.           *)
PublishQueryInsert(k) ==
    [columns |-> Infer,
     given |-> [upload_id |-> k, updated_at |-> recordClock, status |-> 1,
                query |-> 1]]

(* saveUploadProcessingResult.                                             *)
PublishQueryUpdates ==
    {[columns |-> Infer, given |-> [status |-> 2, response |-> 1]]}

(* createQueryRecord.                                                      *)
createQueryRecordCalls ==
    {[columns |-> Greylist(<<"ready_to_run">>),
      given |-> [id |-> k, user_id |-> 1, status |-> 1, upload_id |-> 1,
                 body |-> 1, ready_to_run |-> r]] :
        k \in RecordKeys, r \in {0, 1}}

(* The query is ready (under the lock), the file is ready (under the lock),*)
(* finalizeQueryRecord.                                                    *)
AsynqueryUpdates ==
    {[columns |-> Whitelist(<<"body", "ready_to_run", "updated_at">>),
      given |-> [body |-> 2, ready_to_run |-> 1]],
     [columns |-> Whitelist(<<"file_ready", "file_meta", "updated_at">>),
      given |-> [file_ready |-> 1, file_meta |-> 1]],
     [columns |-> Infer, given |-> [status |-> 2, response |-> 1]]}

(* LogQuery.                                                               *)
LogQueryCalls ==
    {[columns |-> Infer,
      given |-> [method |-> 1, user_id |-> 1, remote_ip |-> 1, body |-> 1]]}

-----------------------------------------------------------------------------
RecordsInit ==
    /\ unit \in Tables \ {"publish_queries"}
    /\ tableRows = [t \in Tables |-> [k \in Ids(t) |-> Nil]]
    /\ obj = [s \in Sessions |-> Nil]
    /\ rel = [s \in Sessions |-> Nil]
    /\ stmt = [s \in Sessions |-> Nil]
    /\ ran = Nil
    /\ stmtCache = {}
    /\ lockedBy = Nil
    /\ recordClock = 1

(* Every field of the struct that the caller does not give is zero.        *)
NewStruct(t, given) ==
    [c \in TableOf[t].all |-> IF c \in DOMAIN given THEN given[c] ELSE 0]

Assign(v, given) ==
    [c \in DOMAIN v |-> IF c \in DOMAIN given THEN given[c] ELSE v[c]]

(* Insert stamps the times that are zero; query_log has none to stamp.     *)
InsertStamp(t, v) ==
    [c \in DOMAIN v |->
        IF c \in {"created_at", "updated_at"} /\ v[c] = 0 THEN recordClock ELSE v[c]]

(* Update always stamps updated_at in the struct.                          *)
UpdateStamp(v) == [v EXCEPT !["updated_at"] = recordClock]

Cached(op, t, key) ==
    {e \in stmtCache : e.op = op /\ e.table = t /\ e.key = key}

(* The first half of Insert: times, the cache, and the statement to run.   *)
PrepareInsert(t, columns, v, given, on) ==
    LET nz  == NonZeroDefaultSet(t, v)
        key == makeCacheKey(columns, nz)
        hit == Cached("insert", t, key)
    IN  [op |-> "insert", table |-> t, key |-> key, on |-> on,
         columns |-> columns, given |-> given, cached |-> hit # {},
         wl |-> IF hit # {} THEN (CHOOSE e \in hit : TRUE).wl
                ELSE InsertColumnSet(t, columns, nz)]

(* The first half of Update; created_at is left out of an inferred list.   *)
PrepareUpdate(t, columns, given) ==
    LET key == makeCacheKey(columns, <<>>)
        hit == Cached("update", t, key)
        set == UpdateColumnSet(t, columns)
    IN  [op |-> "update", table |-> t, key |-> key, on |-> "obj",
         columns |-> columns, given |-> given, cached |-> hit # {},
         wl |-> IF hit # {} THEN (CHOOSE e \in hit : TRUE).wl
                ELSE IF columns.kind = "whitelist" THEN set
                ELSE set \ {"created_at"}]

BetweenCalls(s) == stmt[s] = Nil

Held(s) == IF stmt[s].on = "rel" THEN rel[s] ELSE obj[s]

(* The struct of the running statement becomes o.                          *)
Put(s, o) ==
    IF stmt[s].on = "rel"
    THEN rel' = [rel EXCEPT ![s] = o] /\ obj' = obj
    ELSE obj' = [obj EXCEPT ![s] = o] /\ rel' = rel

(* The transaction that locked the row ends with the session's statement.  *)
Release(s) == lockedBy' = IF lockedBy = s THEN Nil ELSE lockedBy

(* A statement is kept once it has run without an error.                   *)
Keep(st) ==
    stmtCache' = IF st.cached THEN stmtCache
             ELSE stmtCache \cup {[op |-> st.op, table |-> st.table,
                               key |-> st.key, wl |-> st.wl]}

(* The statement fails: the connection, a timeout, a duplicate key.  The   *)
(* caller gives its structs up.                                            *)
Fail(s) ==
    /\ stmt[s] # Nil
    /\ stmt' = [stmt EXCEPT ![s] = Nil]
    /\ obj' = [obj EXCEPT ![s] = Nil]
    /\ rel' = [rel EXCEPT ![s] = Nil]
    /\ ran' = Nil
    /\ Release(s)
    /\ UNCHANGED <<unit, tableRows, stmtCache, recordClock>>

BeginInsert(s, t, call) ==
    LET v == InsertStamp(t, NewStruct(t, call.given))
    IN  /\ BetweenCalls(s) /\ obj[s] = Nil
        /\ obj' = [obj EXCEPT ![s] = [table |-> t, from |-> "insert", vals |-> v]]
        /\ stmt' = [stmt EXCEPT ![s] =
                        PrepareInsert(t, call.columns, v, call.given, "obj")]
        /\ ran' = Nil
        /\ UNCHANGED <<unit, tableRows, rel, stmtCache, lockedBy, recordClock>>

(* The INSERT and its RETURNING: the columns it names are written from the *)
(* struct, the others are filled in by the database and read back.         *)
RunInsert(s, t) ==
    LET st  == stmt[s]
        o   == Held(s)
        row == [c \in TableOf[t].all |->
                    IF c \in st.wl THEN o.vals[c] ELSE Default(t, c)]
        id  == row[TableOf[t].pk]
    IN  /\ stmt[s] # Nil /\ st.op = "insert" /\ st.table = t
        /\ id \in Ids(t) /\ tableRows[t][id] = Nil
        /\ tableRows' = [tableRows EXCEPT ![t][id] = row]
        /\ Put(s, [o EXCEPT !.vals =
                    [c \in DOMAIN o.vals |->
                        IF c \in Elems(TableOf[t].withDefault) \ st.wl
                        THEN row[c] ELSE o.vals[c]]])
        /\ Keep(st)
        /\ stmt' = [stmt EXCEPT ![s] = Nil]
        /\ ran' = s
        /\ UNCHANGED <<unit, lockedBy, recordClock>>

BeginUpdate(s, t, call) ==
    /\ BetweenCalls(s) /\ obj[s] # Nil
    /\ obj[s].table = t /\ obj[s].from = "one"
    /\ obj' = [obj EXCEPT ![s].vals = UpdateStamp(Assign(@, call.given))]
    /\ stmt' = [stmt EXCEPT ![s] = PrepareUpdate(t, call.columns, call.given)]
    /\ ran' = Nil
    /\ UNCHANGED <<unit, tableRows, rel, stmtCache, lockedBy, recordClock>>

(* The UPDATE, by primary key; a row that is gone counts as no row.  Only  *)
(* the caller of an upload's update goes on with the struct.               *)
RunUpdate(s, t) ==
    LET st == stmt[s]
        v  == obj[s].vals
        id == v[TableOf[t].pk]
    IN  /\ stmt[s] # Nil /\ st.op = "update" /\ st.table = t
        /\ lockedBy \in {Nil, s}
        /\ tableRows' = IF tableRows[t][id] = Nil THEN tableRows
                   ELSE [tableRows EXCEPT ![t][id] =
                            [c \in DOMAIN @ |-> IF c \in st.wl THEN v[c] ELSE @[c]]]
        /\ Keep(st)
        /\ stmt' = [stmt EXCEPT ![s] = Nil]
        /\ ran' = s
        /\ Release(s)
        /\ obj' = IF t = "uploads" THEN obj ELSE [obj EXCEPT ![s] = Nil]
        /\ UNCHANGED <<unit, rel, recordClock>>

(* A select by primary key; sql.ErrNoRows leaves the caller with nothing.  *)
One(s, t, k) ==
    /\ BetweenCalls(s) /\ obj[s] = Nil
    /\ tableRows[t][k] # Nil
    /\ obj' = [obj EXCEPT ![s] =
                    [table |-> t, from |-> "one", vals |-> tableRows[t][k]]]
    /\ ran' = Nil
    /\ UNCHANGED <<unit, tableRows, rel, stmt, stmtCache, lockedBy, recordClock>>

(* The caller returns; an open transaction is rolled back.                 *)
Drop(s) ==
    /\ BetweenCalls(s) /\ obj[s] # Nil
    /\ obj' = [obj EXCEPT ![s] = Nil]
    /\ rel' = [rel EXCEPT ![s] = Nil]
    /\ ran' = Nil
    /\ Release(s)
    /\ UNCHANGED <<unit, tableRows, stmt, stmtCache, recordClock>>

-----------------------------------------------------------------------------
(* users                                                                   *)

UserInsert(s) ==
    \/ \E call \in createUserCalls : BeginInsert(s, "users", call)
    \/ RunInsert(s, "users")

UserUpdate(s) ==
    \/ \E call \in UserUpdates : BeginUpdate(s, "users", call)
    \/ RunUpdate(s, "users")

UserOne(s) == \E k \in RecordKeys : One(s, "users", k)

(* deleteDBUser reads the user and deletes it.                             *)
UserDelete(s) ==
    LET id == obj[s].vals["id"]
    IN  /\ BetweenCalls(s) /\ obj[s] # Nil /\ obj[s].from = "one"
        /\ tableRows' = [tableRows EXCEPT !["users"][id] = Nil]
        /\ obj' = [obj EXCEPT ![s] = Nil]
        /\ ran' = Nil
        /\ UNCHANGED <<unit, rel, stmt, stmtCache, lockedBy, recordClock>>

FindUser(id) == tableRows["users"][id]

(* The conditional UPDATE of assignSDKServerToUser found no row to change; *)
(* the struct is replaced by the row, relations and all.                   *)
UserReload(s) ==
    LET id == obj[s].vals["id"]
    IN  /\ BetweenCalls(s) /\ obj[s] # Nil
        /\ obj[s].vals["lbrynet_server_id"] = 0
        /\ FindUser(id) # Nil => FindUser(id)["lbrynet_server_id"] # 0
        /\ obj' = [obj EXCEPT ![s] =
                    IF FindUser(id) = Nil THEN Nil
                    ELSE [table |-> "users", from |-> "one",
                          vals |-> FindUser(id)]]
        /\ ran' = Nil
        /\ UNCHANGED <<unit, tableRows, rel, stmt, stmtCache, lockedBy, recordClock>>

(* The conditional UPDATE itself, outside the record layer.                *)
recordAssignSDKServer(s) ==
    LET id == obj[s].vals["id"]
    IN  /\ BetweenCalls(s) /\ obj[s] # Nil
        /\ obj[s].vals["lbrynet_server_id"] = 0
        /\ tableRows["users"][id] # Nil
        /\ tableRows["users"][id]["lbrynet_server_id"] = 0
        /\ tableRows' = [tableRows EXCEPT !["users"][id]["lbrynet_server_id"] = 1]
        /\ obj' = [obj EXCEPT ![s].vals["lbrynet_server_id"] = 1]
        /\ ran' = Nil
        /\ UNCHANGED <<unit, rel, stmt, stmtCache, lockedBy, recordClock>>

-----------------------------------------------------------------------------
(* uploads and publish_queries                                             *)

UploadInsert(s) ==
    \/ \E call \in UploadInserts : BeginInsert(s, "uploads", call)
    \/ RunInsert(s, "uploads")

UploadUpdate(s) ==
    \/ \E call \in UploadUpdates : BeginUpdate(s, "uploads", call)
    \/ RunUpdate(s, "uploads")

UploadOne(s) == \E k \in RecordKeys : One(s, "uploads", k)

(* The related struct gets the upload's key and is inserted; the upload's  *)
(* struct is kept beside it.                                               *)
SetPublishQuery(s) ==
    LET call == PublishQueryInsert(obj[s].vals["id"])
        v    == InsertStamp("publish_queries",
                            NewStruct("publish_queries", call.given))
    IN  /\ BetweenCalls(s) /\ obj[s] # Nil /\ rel[s] = Nil
        /\ obj[s].table = "uploads" /\ obj[s].from = "one"
        /\ rel' = [rel EXCEPT ![s] =
                    [table |-> "publish_queries", from |-> "insert", vals |-> v]]
        /\ stmt' = [stmt EXCEPT ![s] =
                    PrepareInsert("publish_queries", call.columns, v,
                                  call.given, "rel")]
        /\ ran' = Nil
        /\ UNCHANGED <<unit, tableRows, obj, stmtCache, lockedBy, recordClock>>

PublishQueryInserted(s) == RunInsert(s, "publish_queries")

PublishQueryUpdate(s) ==
    \/ \E call \in PublishQueryUpdates : BeginUpdate(s, "publish_queries", call)
    \/ RunUpdate(s, "publish_queries")

PublishQueryOne(s) == \E k \in RecordKeys : One(s, "publish_queries", k)

-----------------------------------------------------------------------------
(* asynqueries                                                             *)

AsynqueryInsert(s) ==
    \/ \E call \in createQueryRecordCalls : BeginInsert(s, "asynqueries", call)
    \/ RunInsert(s, "asynqueries")

(* Whitelisted updates are made under the row's lock, the final one is not.*)
AsynqueryUpdate(s) ==
    \/ \E call \in AsynqueryUpdates :
        /\ (call.columns.kind = "whitelist") <=> (lockedBy = s)
        /\ BeginUpdate(s, "asynqueries", call)
    \/ RunUpdate(s, "asynqueries")

AsynqueryOne(s) == \E k \in RecordKeys : One(s, "asynqueries", k)

(* Select ... for update, in a transaction.                                *)
AsynqueryOneForUpdate(s) ==
    /\ BetweenCalls(s) /\ obj[s] = Nil /\ lockedBy = Nil
    /\ \E k \in RecordKeys :
        /\ tableRows["asynqueries"][k] # Nil
        /\ obj' = [obj EXCEPT ![s] = [table |-> "asynqueries", from |-> "one",
                                      vals |-> tableRows["asynqueries"][k]]]
    /\ lockedBy' = s
    /\ ran' = Nil
    /\ UNCHANGED <<unit, tableRows, rel, stmt, stmtCache, recordClock>>

-----------------------------------------------------------------------------
(* query_log                                                               *)

QueryLogInsert(s) ==
    \/ /\ \E k \in Ids("query_log") : tableRows["query_log"][k] = Nil
       /\ \E call \in LogQueryCalls : BeginInsert(s, "query_log", call)
    \/ RunInsert(s, "query_log")

-----------------------------------------------------------------------------
RecordTick ==
    /\ recordClock < MaxClock
    /\ recordClock' = recordClock + 1
    /\ ran' = Nil
    /\ UNCHANGED <<unit, tableRows, obj, rel, stmt, stmtCache, lockedBy>>

UserNext(s) ==
    /\ unit = "users"
    /\ \/ UserInsert(s) \/ UserUpdate(s) \/ UserOne(s) \/ UserDelete(s)
       \/ UserReload(s) \/ recordAssignSDKServer(s)

UploadNext(s) ==
    /\ unit = "uploads"
    /\ \/ UploadInsert(s) \/ UploadUpdate(s) \/ UploadOne(s)
       \/ SetPublishQuery(s) \/ PublishQueryInserted(s)
       \/ PublishQueryUpdate(s) \/ PublishQueryOne(s)

AsynqueryNext(s) ==
    /\ unit = "asynqueries"
    /\ \/ AsynqueryInsert(s) \/ AsynqueryUpdate(s) \/ AsynqueryOne(s)
       \/ AsynqueryOneForUpdate(s)

QueryLogNext(s) == unit = "query_log" /\ QueryLogInsert(s)

RecordsNext ==
    \/ \E s \in Sessions :
        \/ UserNext(s) \/ UploadNext(s) \/ AsynqueryNext(s) \/ QueryLogNext(s)
        \/ Fail(s) \/ Drop(s)
    \/ RecordTick

RecordsSpec == RecordsInit /\ [][RecordsNext]_recordsVars

-----------------------------------------------------------------------------
(* Type correctness.  Rows and structs have exactly their table's columns, *)
(* a related struct appears only beside an upload, and a lock has a holder *)
(* with a struct in hand.                                                  *)
RecordsTypeOK ==
    /\ unit \in Tables \ {"publish_queries"}
    /\ \A t \in Tables : \A k \in DOMAIN tableRows[t] :
        tableRows[t][k] # Nil => tableRows[t][k] \in [TableOf[t].all -> Nat]
    /\ \A s \in Sessions :
        /\ obj[s] # Nil => obj[s].vals \in [TableOf[obj[s].table].all -> Nat]
        /\ rel[s] # Nil => obj[s] # Nil /\ obj[s].table = "uploads"
        /\ stmt[s] # Nil => /\ Held(s) # Nil
                            /\ Held(s).table = stmt[s].table
                            /\ stmt[s].wl \subseteq TableOf[stmt[s].table].all
    /\ lockedBy # Nil => obj[lockedBy] # Nil
    /\ ran \in Sessions \cup {Nil}
    /\ recordClock \in 1 .. MaxClock

(* Ran(s, op): the step is the effect of the session's statement.          *)
Ran(s, op) ==
    /\ stmt[s] # Nil /\ stmt[s].op = op
    /\ stmt'[s] = Nil /\ ran' = s

(* A row keeps its creation time for as long as it exists, even when the   *)
(* row was deleted and created anew while another session held a struct    *)
(* of the old one and writes all of it back: Update with boil.Infer leaves *)
(* created_at out of the columns (UpdateColumnSet less created_at).        *)
CreatedOnce ==
    \A t \in Tables : \A k \in DOMAIN tableRows[t] :
        ( /\ "created_at" \in TableOf[t].all
          /\ tableRows[t][k] # Nil /\ tableRows'[t][k] # Nil )
        => tableRows'[t][k]["created_at"] = tableRows[t][k]["created_at"]

(* An Insert that returns without an error has stored every value the call *)
(* site put in the struct, zero or not, and leaves the struct equal to the *)
(* row, the columns the database filled in included.  The case at stake is *)
(* ready_to_run: its default is TRUE, and createQueryRecord inserts FALSE. *)
InsertAsAsked ==
    \A s \in Sessions : Ran(s, "insert") =>
        LET st == stmt[s]
            v  == (IF st.on = "rel" THEN rel'[s] ELSE obj'[s]).vals
            t  == st.table
        IN  /\ tableRows'[t][v[TableOf[t].pk]] = v
            /\ \A c \in DOMAIN st.given : v[c] = st.given[c]

(* An Update that returns without an error has written exactly the columns *)
(* its call site names and left every other column as it is in the row,    *)
(* not as it was when the struct was read: the hooks of an upload write    *)
(* status with received, path or error and must not undo each other.  The  *)
(* statement may come from the cache, built by another session.            *)
UpdateAsListed ==
    \A s \in Sessions : Ran(s, "update") =>
        LET st  == stmt[s]
            t   == st.table
            v   == obj[s].vals
            id  == v[TableOf[t].pk]
            set == IF st.columns.kind = "whitelist" THEN Elems(st.columns.cols)
                   ELSE TableOf[t].all \ {TableOf[t].pk, "created_at"}
        IN  tableRows[t][id] # Nil =>
                tableRows'[t][id] = [c \in TableOf[t].all |->
                    IF c \in set THEN v[c] ELSE tableRows[t][id][c]]

\* What the generated code writes to a table: each line is stated above.
RecordsSafe == RecordsTypeOK' /\ CreatedOnce /\ InsertAsAsked /\ UpdateAsListed

=============================================================================
