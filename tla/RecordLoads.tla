---------------------------- MODULE RecordLoads ----------------------------
(***************************************************************************)
(* Eager loading in the generated record layer: qm.Load(...) makes One or  *)
(* All run a second statement for the related rows and hang them on the    *)
(* structs of the first.  Users point to their server by a foreign key,    *)
(* and the tracker loads many users at once; a publish query points to its *)
(* upload and is loaded for one upload.  The two statements are not in a   *)
(* transaction: between them users are bumped to other servers, servers    *)
(* are removed and publish queries are inserted.                           *)
(***************************************************************************)
EXTENDS Naturals, Sequences, FiniteSets

CONSTANTS
    Readers,    \* sessions that read with qm.Load
    LoadUsers,
    LoadServers,  \* ids of lbrynet_servers
    LoadUploads

ASSUME LoadsConstants == LoadServers \subseteq Nat \ {0}

VARIABLES
    fk,         \* users.lbrynet_server_id, 0 for NULL
    loadServers,  \* the rows of lbrynet_servers
    loadQuery,  \* the uploads that have a row in publish_queries
    reader      \* phase, kind of read and the structs read so far

loadsVars == <<fk, loadServers, loadQuery, reader>>

NotLoading == [ph |-> "idle", kind |-> "none", slice |-> <<>>]

LoadsInit ==
    /\ fk \in [LoadUsers -> LoadServers \cup {0}]
    /\ loadServers = LoadServers
    /\ loadQuery = {}
    /\ reader = [r \in Readers |-> NotLoading]

(* The rows a query may return, in any order, each of them once.           *)
Orders(S) ==
    UNION {{q \in [1 .. n -> S] : \A i, j \in 1 .. n : q[i] = q[j] => i = j} :
              n \in 0 .. Cardinality(S)}

OrdersRepeated(S) == UNION {[1 .. n -> S] : n \in 0 .. Cardinality(S)}

(* A struct as the first statement fills it: no relation yet.              *)
Struct(u) == [id |-> u, fk |-> fk[u], rel |-> 0]

(* All: Unload of the tracker reads the users not seen for a while.        *)
All(r) ==
    /\ reader[r].ph = "idle"
    /\ \E q \in Orders(LoadUsers) :
        reader' = [reader EXCEPT ![r] =
            [ph |-> "bound", kind |-> "slice",
             slice |-> [i \in DOMAIN q |-> Struct(q[i])]]]
    /\ UNCHANGED <<fk, loadServers, loadQuery>>

(* One: a user by id or identity.                                          *)
OneUser(r) ==
    /\ reader[r].ph = "idle"
    /\ \E u \in LoadUsers :
        reader' = [reader EXCEPT ![r] =
            [ph |-> "bound", kind |-> "single", slice |-> <<Struct(u)>>]]
    /\ UNCHANGED <<fk, loadServers, loadQuery>>

(* One: an upload by id; its key is what the relation points to.           *)
OneUpload(r) ==
    /\ reader[r].ph = "idle"
    /\ \E u \in LoadUploads :
        reader' = [reader EXCEPT ![r] =
            [ph |-> "bound", kind |-> "upload",
             slice |-> <<[id |-> u, fk |-> u, rel |-> 0]>>]]
    /\ UNCHANGED <<fk, loadServers, loadQuery>>

(* The arguments of the second statement: each key that is not NULL, once. *)
Args(slice) == {slice[i].fk : i \in DOMAIN slice} \ {0}

(* Each struct gets the first row found with its key.                      *)
Matched(slice, found) ==
    [i \in DOMAIN slice |->
        IF \E j \in DOMAIN found : found[j] = slice[i].fk
        THEN [slice[i] EXCEPT !.rel = slice[i].fk]
        ELSE slice[i]]

Loaded(r, slice) ==
    /\ reader' = [reader EXCEPT ![r].ph = "loaded", ![r].slice = slice]
    /\ UNCHANGED <<fk, loadServers, loadQuery>>

(* The second statement for users.  Without keys it is not run; one user   *)
(* takes the first row found, many are matched by their keys.              *)
LoadLbrynetServer(r) ==
    LET slice == reader[r].slice
        rows  == Args(slice) \cap loadServers
    IN  /\ reader[r].ph = "bound" /\ reader[r].kind \in {"single", "slice"}
        /\ \E found \in {q \in Orders(rows) : Len(q) = Cardinality(rows)} :
            Loaded(r, IF found = <<>> THEN slice
                      ELSE IF reader[r].kind = "single"
                      THEN <<[slice[1] EXCEPT !.rel = found[1]]>>
                      ELSE Matched(slice, found))

(* The second statement for an upload.                                     *)
LoadPublishQuery(r) ==
    LET up == reader[r].slice[1]
    IN  /\ reader[r].ph = "bound" /\ reader[r].kind = "upload"
        /\ Loaded(r, <<IF up.id \in loadQuery THEN [up EXCEPT !.rel = up.id] ELSE up>>)

(* The caller is done with the structs.                                    *)
LoadReturn(r) ==
    /\ reader[r].ph = "loaded"
    /\ reader' = [reader EXCEPT ![r] = NotLoading]
    /\ UNCHANGED <<fk, loadServers, loadQuery>>

(* A user is given a server, or bumped to another one.                     *)
SetServer(u) ==
    /\ \E v \in loadServers : fk' = [fk EXCEPT ![u] = v]
    /\ UNCHANGED <<loadServers, loadQuery, reader>>

(* An operator removes a server: ON DELETE SET NULL.                       *)
RemoveServer(v) ==
    /\ v \in loadServers
    /\ loadServers' = loadServers \ {v}
    /\ fk' = [u \in LoadUsers |-> IF fk[u] = v THEN 0 ELSE fk[u]]
    /\ UNCHANGED <<loadQuery, reader>>

InsertPublishQuery(u) ==
    /\ u \notin loadQuery
    /\ loadQuery' = loadQuery \cup {u}
    /\ UNCHANGED <<fk, loadServers, reader>>

LoadsNext ==
    \/ \E r \in Readers :
        \/ All(r) \/ OneUser(r) \/ OneUpload(r)
        \/ LoadLbrynetServer(r) \/ LoadPublishQuery(r) \/ LoadReturn(r)
    \/ \E u \in LoadUsers : SetServer(u)
    \/ \E v \in LoadServers : RemoveServer(v)
    \/ \E u \in LoadUploads : InsertPublishQuery(u)

LoadsSpec == LoadsInit /\ [][LoadsNext]_loadsVars

-----------------------------------------------------------------------------
(* Type correctness; a slice read by All holds no user twice.              *)
LoadsTypeOK ==
    /\ fk \in [LoadUsers -> loadServers \cup {0}]
    /\ loadServers \subseteq LoadServers
    /\ loadQuery \subseteq LoadUploads
    /\ \A r \in Readers : \A i, j \in DOMAIN reader[r].slice :
        reader[r].slice[i].id = reader[r].slice[j].id => i = j

(* LoadLbrynetServer hangs on every user the server its own key names,     *)
(* however many users share a server, whatever order the servers come in   *)
(* and wherever the user has been moved since; a user is left without a    *)
(* server only when it had none, or the server was removed.  The tracker   *)
(* unloads a wallet at the address found this way.                         *)
LoadedIsOwn ==
    \A r \in Readers :
        (reader[r].ph = "bound" /\ reader'[r].ph = "loaded") =>
            \A i \in DOMAIN reader[r].slice :
                LET o == reader'[r].slice[i]
                IN  /\ o.fk = reader[r].slice[i].fk
                    /\ o.rel = IF o.fk \in loadServers \cup loadQuery THEN o.fk ELSE 0

=============================================================================
