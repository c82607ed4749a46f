----------------------------- MODULE ObjectStore -----------------------------
(***************************************************************************)
(* What the object protocol promises its clients, without capsules and key *)
(* maps: each request takes effect in one step between its arrival and its *)
(* answer, on the objects of that moment.  The one exception is the        *)
(* content type of a GET, looked up in a step of its own after the body.   *)
(***************************************************************************)
CONSTANTS
    Clients,
    Names,          \* <<bucket, key>>
    Bodies,
    TypeOf(_),      \* the content type a key's name stands for
    DefaultType,    \* the content type of a key that is gone
    Absent,         \* no such object, also the answer NOT_FOUND
    Refused,        \* the answer INTERNAL_SERVER_ERROR
    None

VARIABLES
    objects,        \* the body of each name, or Absent
    request,        \* what each client has asked for, or None
    answer          \* what it will be told, None before the request took effect

vars == <<objects, request, answer>>

Requests ==
    [op : {"put"}, name : Names, body : Bodies]
        \cup [op : {"get", "head", "list", "delete"}, name : Names]

Init ==
    /\ objects = [n \in Names |-> Absent]
    /\ request = [c \in Clients |-> None] /\ answer = request

Arrive(c, r) ==
    /\ request[c] = None
    /\ request' = [request EXCEPT ![c] = r]
    /\ UNCHANGED <<objects, answer>>

Asked(c, op) == request[c] # None /\ request[c].op = op /\ answer[c] = None
Tell(c, what) == answer' = [answer EXCEPT ![c] = what] /\ UNCHANGED request
Named(c) == request[c].name

Put(c) ==
    /\ Asked(c, "put")
    /\ objects' = [objects EXCEPT ![Named(c)] = request[c].body]
    /\ Tell(c, request[c].body)

(* A body is never that of another name or one that was never stored here. *)
Get(c) == Asked(c, "get") /\ Tell(c, [body |-> objects[Named(c)], type |-> None]) /\ UNCHANGED objects

Describe(c) ==
    /\ request[c] # None /\ request[c].op = "get" /\ answer[c] # None
    /\ answer[c].body # Absent /\ answer[c].type = None
    /\ Tell(c, [answer[c] EXCEPT !.type =
                    IF objects[Named(c)] = Absent THEN DefaultType ELSE TypeOf(Named(c))])
    /\ UNCHANGED objects

Head(c) == Asked(c, "head") /\ Tell(c, objects[Named(c)]) /\ UNCHANGED objects

(* Exactly the objects of the bucket.                                      *)
List(c) ==
    /\ Asked(c, "list")
    /\ Tell(c, {<<n, objects[n]>> : n \in {m \in Names : m[1] = Named(c)[1] /\ objects[m] # Absent}})
    /\ UNCHANGED objects

Delete(c) ==
    /\ Asked(c, "delete")
    /\ Tell(c, objects[Named(c)])
    /\ objects' = [objects EXCEPT ![Named(c)] = Absent]

(* The pipeline fails: a PUT changes nothing, a GET answers NOT_FOUND.     *)
Fail(c) ==
    /\ \/ Asked(c, "put") /\ Tell(c, Refused)
       \/ /\ request[c] # None /\ request[c].op = "get"
          /\ answer[c] # None /\ answer[c].type = None
          /\ Tell(c, [body |-> Absent, type |-> None])
    /\ UNCHANGED objects

Leave(c) ==
    /\ answer[c] # None
    /\ request' = [request EXCEPT ![c] = None] /\ answer' = [answer EXCEPT ![c] = None]
    /\ UNCHANGED objects

(* The server keeps its names in memory only.                              *)
Restart ==
    /\ objects' = [n \in Names |-> Absent]
    /\ request' = [c \in Clients |-> None] /\ answer' = request'

Next ==
    \/ \E c \in Clients :
        \/ \E r \in Requests : Arrive(c, r)
        \/ Put(c) \/ Get(c) \/ Describe(c) \/ Head(c) \/ List(c) \/ Delete(c)
        \/ Fail(c) \/ Leave(c)
    \/ Restart

Spec == Init /\ [][Next]_vars
=============================================================================
