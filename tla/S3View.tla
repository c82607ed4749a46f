-------------------------------- MODULE S3View --------------------------------
(***************************************************************************)
(* crates/protocol-s3: the key map and the request handlers, with requests *)
(* of several clients in progress at once.  A PUT writes a capsule and     *)
(* then maps its key to it; a GET looks the key up, reads the capsule and  *)
(* looks the key up again for its content type.  Overwriting or deleting   *)
(* an object leaves its capsule alone.  The write pipeline is seen as a    *)
(* store of immutable capsules.                                            *)
(***************************************************************************)
EXTENDS Integers, Sequences, FiniteSets, SequencesExt, Maps

CONSTANTS
    Clients,
    ObjectNames,    \* <<bucket, key>>, each a sequence of the parts between slashes
    Bodies,
    Types,          \* content types
    Extension,      \* the content type the extension of a name's key says
    DefaultType,    \* application/octet-stream
    MaxBodies,      \* bound: capsules written
    MaxFails,       \* bound: failing calls of the pipeline
    MaxRestarts,    \* bound: restarts of the server
    Absent, Refused, Nothing

ASSUME S3Assumption ==
    /\ Extension \in [ObjectNames -> Types] /\ DefaultType \in Types
    /\ {MaxBodies, MaxFails, MaxRestarts} \subseteq Nat

Requests ==
    [op : {"put"}, name : ObjectNames, body : Bodies]
        \cup [op : {"get", "head", "list", "delete"}, name : ObjectNames]

(* Nothing is neither a request nor an answer.                             *)
ASSUME NothingAssumption ==
    /\ Absent \notin Bodies /\ Nothing \notin Types
    /\ Nothing \notin Requests /\ Nothing \notin Bodies \cup {Absent, Refused}
    /\ Nothing \notin [body : Bodies \cup {Absent}, type : Types \cup {Nothing}]
    /\ \A listed \in SUBSET (ObjectNames \X Bodies) : Nothing # listed

VARIABLES
    key_map,        \* full key to [capsule, content_type]
    bodies,         \* the capsules: id to body
    request,        \* the request of each client's handler, or Nothing
    local,          \* the handler's capsule, once it has one, or Nothing
    answer,         \* the response, as far as it is made up
    failures, restarts

s3_vars == <<key_map, bodies, request, local, answer, failures, restarts>>

S3Init ==
    /\ key_map = Empty /\ bodies = Empty
    /\ request = [c \in Clients |-> Nothing] /\ local = request /\ answer = request
    /\ failures = MaxFails /\ restarts = MaxRestarts

(* Mutant: the bucket is not part of the key.                              *)
FullKeyNoBucket(name) == name[2]

(* format!("{}/{}", bucket, key)                                           *)
FullKey(name) == name[1] \o name[2]

Mapped(name) == FullKey(name) \in DOMAIN key_map
BodyOf(name) == IF Mapped(name) THEN bodies[key_map[FullKey(name)].capsule] ELSE Absent
DetectContentType(name) == Extension[name]

Handles(c, op) == request[c] # Nothing /\ request[c].op = op
Respond(c, what) == answer' = [answer EXCEPT ![c] = what] /\ UNCHANGED request
CallFails == failures > 0 /\ failures' = failures - 1

-----------------------------------------------------------------------------
Arrive(c, r) ==
    /\ request[c] = Nothing
    /\ request' = [request EXCEPT ![c] = r]
    /\ UNCHANGED <<key_map, bodies, local, answer, failures, restarts>>

(* put_object: write_capsule on a blocking thread, then the mapping.       *)
WriteCapsule(c) ==
    /\ Handles(c, "put") /\ answer[c] = Nothing /\ local[c] = Nothing
    /\ \/ /\ Cardinality(DOMAIN bodies) < MaxBodies
          /\ LET id == Cardinality(DOMAIN bodies) + 1
             IN  /\ bodies' = Put(bodies, id, request[c].body)
                 /\ local' = [local EXCEPT ![c] = id]
          /\ UNCHANGED <<request, answer, failures>>
       \/ CallFails /\ Respond(c, Refused) /\ UNCHANGED <<bodies, local>>
    /\ UNCHANGED <<key_map, restarts>>

InsertMapping(c) ==
    /\ Handles(c, "put") /\ answer[c] = Nothing /\ local[c] # Nothing
    /\ LET full == FullKey(request[c].name)
           mapping == [capsule |-> local[c], content_type |-> DetectContentType(request[c].name)]
       IN  key_map' = Put(key_map, full, mapping)
    /\ Respond(c, request[c].body)
    /\ UNCHANGED <<bodies, local, failures, restarts>>

(* get_object: the mapping, the capsule, the mapping again.                *)
GetMapping(c) ==
    /\ Handles(c, "get") /\ answer[c] = Nothing
    /\ IF Mapped(request[c].name)
       THEN local' = [local EXCEPT ![c] = key_map[FullKey(request[c].name)].capsule]
       ELSE UNCHANGED local
    /\ Respond(c, [body |-> BodyOf(request[c].name), type |-> Nothing])
    /\ UNCHANGED <<key_map, bodies, failures, restarts>>

(* The answer holds the body already: capsules do not change, so that      *)
(* reading it later makes no difference, unless it fails.                  *)
ReadFails(c) ==
    /\ Handles(c, "get") /\ local[c] # Nothing /\ answer[c].type = Nothing
    /\ CallFails
    /\ Respond(c, [body |-> Absent, type |-> Nothing])
    /\ local' = [local EXCEPT ![c] = Nothing]
    /\ UNCHANGED <<key_map, bodies, restarts>>

TypeServed(name) == IF Mapped(name) THEN key_map[FullKey(name)].content_type ELSE DefaultType

ReadCapsule(c) ==
    /\ Handles(c, "get") /\ local[c] # Nothing /\ answer[c].type = Nothing
    /\ Respond(c, [body |-> bodies[local[c]], type |-> TypeServed(request[c].name)])
    /\ UNCHANGED <<key_map, bodies, local, failures, restarts>>

HeadObject(c) ==
    /\ Handles(c, "head") /\ answer[c] = Nothing
    /\ Respond(c, BodyOf(request[c].name))
    /\ UNCHANGED <<key_map, bodies, local, failures, restarts>>

(* list_objects: every full key that starts with the bucket.               *)
ListObjects(c) ==
    /\ Handles(c, "list") /\ answer[c] = Nothing
    /\ LET bucket == request[c].name[1]
           found == {full \in DOMAIN key_map : IsStrictPrefix(bucket, full)}
       IN  Respond(c, {<<<<bucket, SubSeq(full, Len(bucket) + 1, Len(full))>>,
                         bodies[key_map[full].capsule]>> : full \in found})
    /\ UNCHANGED <<key_map, bodies, local, failures, restarts>>

DeleteObject(c) ==
    /\ Handles(c, "delete") /\ answer[c] = Nothing
    /\ key_map' = [k \in DOMAIN key_map \ {FullKey(request[c].name)} |-> key_map[k]]
    /\ Respond(c, BodyOf(request[c].name))
    /\ UNCHANGED <<bodies, local, failures, restarts>>

Finished(c) == answer[c] # Nothing /\ (Handles(c, "get") => answer[c].body = Absent \/ answer[c].type # Nothing)

FinishRequest(c) ==
    /\ Finished(c)
    /\ request' = [request EXCEPT ![c] = Nothing] /\ answer' = [answer EXCEPT ![c] = Nothing]
    /\ local' = [local EXCEPT ![c] = Nothing]
    /\ UNCHANGED <<key_map, bodies, failures, restarts>>

(* The server starts again: S3View::new has an empty key map, the capsules *)
(* are still there.                                                        *)
RestartServer ==
    /\ restarts > 0 /\ restarts' = restarts - 1
    /\ key_map' = Empty
    /\ request' = [c \in Clients |-> Nothing] /\ local' = request' /\ answer' = request'
    /\ UNCHANGED <<bodies, failures>>

S3Next ==
    \/ \E c \in Clients :
        \/ \E r \in Requests : Arrive(c, r)
        \/ WriteCapsule(c) \/ InsertMapping(c) \/ GetMapping(c) \/ ReadFails(c) \/ ReadCapsule(c)
        \/ HeadObject(c) \/ ListObjects(c) \/ DeleteObject(c) \/ FinishRequest(c)
    \/ RestartServer

S3Spec == S3Init /\ [][S3Next]_s3_vars

-----------------------------------------------------------------------------
(* The handlers implement ObjectStore: each request takes effect on the    *)
(* key map in one step while it is in progress, names of different buckets *)
(* do not meet although they share one map of strings, a GET that is       *)
(* overtaken by a PUT or a DELETE still serves one whole body of its key,  *)
(* and only its content type tells that the key has gone.                  *)
Objects == INSTANCE ObjectStore WITH
    Names <- ObjectNames, None <- Nothing, objects <- [n \in ObjectNames |-> BodyOf(n)],
    TypeOf <- DetectContentType

ImplementsObjects == Objects!Spec
=============================================================================
