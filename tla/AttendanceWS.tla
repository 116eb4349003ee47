----------------------------- MODULE AttendanceWS -----------------------------
(***************************************************************************)
(* The live attendance feed (app/core/websocket.py AttendanceWSManager and *)
(* the /ws/attendance endpoint of app/server.py) on one asyncio event      *)
(* loop: code runs without interruption from one await to the next, and    *)
(* only there do connections come and go.                                  *)
(*                                                                         *)
(* _connections maps a session to a Python set of sockets. A broadcast     *)
(* iterates over that set object itself while it awaits each send. Python  *)
(* raises in the loop when the set has another size than when the          *)
(* iteration began, and compares nothing else: the iterator walks the      *)
(* slots of the set's table, and an add may lay the table out anew. The    *)
(* object dies with its key; `epoch` tells it from a later set of the same *)
(* session.                                                                *)
(***************************************************************************)
EXTENDS Integers, FiniteSets

CONSTANTS
    Channels,    \* the session ids watched
    Sockets,     \* WebSocket objects, each for one connection
    Watches,     \* the session each of them is opened for
    Casts        \* broadcasts: the ids of what they announce

ASSUME WSAssumption == Watches \in [Sockets -> Channels]

VARIABLES
    sock,    \* state of each connection
    keys,    \* sessions with an entry in _connections
    conns,   \* the set of that entry, {} without one
    epoch,   \* how many sets the session has had
    cast,    \* the broadcasts
    got      \* history: the broadcasts each socket received

wsVars == <<sock, keys, conns, epoch, cast, got>>

NoCast == [stage |-> "none"]

WSInit ==
    /\ sock = [c \in Sockets |-> "new"]
    /\ keys = {}
    /\ conns = [s \in Channels |-> {}]
    /\ epoch = [s \in Channels |-> 0]
    /\ cast = [i \in Casts |-> NoCast]
    /\ got = [c \in Sockets |-> {}]

-----------------------------------------------------------------------------
(* Connections.                                                            *)

(* connect() awaits accept() ...                                           *)
Connect(c) ==
    /\ sock[c] = "new"
    /\ sock' = [sock EXCEPT ![c] = "accepting"]
    /\ UNCHANGED <<keys, conns, epoch, cast, got>>

(* ... and registers the socket.                                           *)
Accepted(c) ==
    /\ sock[c] = "accepting"
    /\ sock' = [sock EXCEPT ![c] = "open"]
    /\ LET s == Watches[c]
       IN  /\ keys' = keys \cup {s}
           /\ epoch' = IF s \in keys THEN epoch ELSE [epoch EXCEPT ![s] = @ + 1]
           /\ conns' = [conns EXCEPT ![s] = @ \cup {c}]
    /\ UNCHANGED <<cast, got>>

(* The peer is gone; the endpoint has not noticed yet.                     *)
Close(c) ==
    /\ sock[c] = "open"
    /\ sock' = [sock EXCEPT ![c] = "closed"]
    /\ UNCHANGED <<keys, conns, epoch, cast, got>>

(* Mutant: the entry goes with any socket.                                 *)
Disconnect_DropsEntry(c) ==
    /\ sock[c] = "closed"
    /\ sock' = [sock EXCEPT ![c] = "gone"]
    /\ conns' = [conns EXCEPT ![Watches[c]] = @ \ {c}]
    /\ keys' = keys \ {Watches[c]}
    /\ UNCHANGED <<epoch, cast, got>>

(* WebSocketDisconnect: the entry goes with its last socket.               *)
Disconnect(c) ==
    /\ sock[c] = "closed"
    /\ sock' = [sock EXCEPT ![c] = "gone"]
    /\ LET s == Watches[c]
       IN  /\ conns' = [conns EXCEPT ![s] = @ \ {c}]
           /\ keys' = IF conns[s] \ {c} = {} THEN keys \ {s} ELSE keys
    /\ UNCHANGED <<epoch, cast, got>>

(* Any other exception of receive_text ends the endpoint, and the socket   *)
(* stays registered.                                                       *)
EndpointFails(c) ==
    /\ sock[c] \in {"open", "closed"}
    /\ sock' = [sock EXCEPT ![c] = "gone"]
    /\ UNCHANGED <<keys, conns, epoch, cast, got>>

-----------------------------------------------------------------------------
(* Broadcasts.                                                             *)

(* Mutant: sizes are not compared (the loop runs over the live set).       *)
SizeChanged_Ignored(b) == FALSE

(* The set object a broadcast iterates over, as it is now.                 *)
Iterated(b) == IF b.channel \in keys /\ epoch[b.channel] = b.epoch
               THEN conns[b.channel] ELSE {}

SizeChanged(b) == Cardinality(Iterated(b)) # b.size

(* The sockets ever added to a set of session s.                           *)
Registered(s) == {c \in Sockets : Watches[c] = s /\ sock[c] \notin {"new", "accepting"}}

(* A socket was added since the broadcast began.                           *)
Joined(b) == Registered(b.channel) # b.known

(* Somebody it began with is no longer in the set.                         *)
Left(b) == b.first \ Iterated(b) # {}

(* Mutant: the loop stops at the first dead socket.                        *)
Ahead_NotAfterDead(b) ==
    IF b.dead # {} THEN {{}}
    ELSE IF Joined(b) THEN SUBSET Iterated(b) ELSE {Iterated(b) \ b.seen}

(* What may lie ahead of the iterator: what it has not visited, but        *)
(* anything once the table may have been laid out anew, when a socket can  *)
(* have moved behind the iterator or, already visited, ahead of it.        *)
Ahead(b) == IF Joined(b) THEN SUBSET Iterated(b) ELSE {Iterated(b) \ b.seen}

(* From one await to the next: the iterator raises, the loop ends and the  *)
(* dead sockets are discarded (through the key), or the next send begins.  *)
Advance(i, b) ==
    \/ /\ SizeChanged(b)
       /\ cast' = [cast EXCEPT ![i] = [stage |-> "failed", joined |-> Joined(b), left |-> Left(b)]]
       /\ UNCHANGED conns
    \/ /\ ~SizeChanged(b) /\ {} \in Ahead(b)
       /\ IF b.dead # {} /\ b.channel \notin keys
          THEN cast' = [cast EXCEPT ![i] = [stage |-> "KeyError"]] /\ UNCHANGED conns
          ELSE /\ cast' = [cast EXCEPT ![i] = [stage |-> "done", first |-> b.first, joined |-> Joined(b)]]
               /\ conns' = [conns EXCEPT ![b.channel] = @ \ b.dead]
    \/ /\ ~SizeChanged(b)
       /\ \E c \in UNION Ahead(b) :
            cast' = [cast EXCEPT ![i] = [b EXCEPT !.to = {c}, !.seen = @ \cup {c}]]
       /\ UNCHANGED conns

(* The background task of an attendance mark is queued.                    *)
Schedule(i, s) ==
    /\ cast[i].stage = "none"
    /\ cast' = [cast EXCEPT ![i] = [stage |-> "ready", channel |-> s]]
    /\ UNCHANGED <<sock, keys, conns, epoch, got>>

(* broadcast() begins; without an entry there is nobody to tell.           *)
Start(i) ==
    /\ cast[i].stage = "ready"
    /\ LET s == cast[i].channel
       IN  IF s \notin keys
           THEN /\ cast' = [cast EXCEPT ![i] = [stage |-> "done", first |-> {}, joined |-> FALSE]]
                /\ UNCHANGED conns
           ELSE Advance(i, [stage |-> "sending", channel |-> s, epoch |-> epoch[s],
                            size |-> Cardinality(conns[s]), first |-> conns[s],
                            known |-> Registered(s), seen |-> {}, to |-> {}, dead |-> {}])
    /\ UNCHANGED <<sock, keys, epoch, got>>

(* A send returns. To a closed socket it may raise or be lost.             *)
Resume(i) ==
    /\ cast[i].stage = "sending"
    /\ \E raises \in BOOLEAN :
         LET b  == cast[i]
             up == {c \in b.to : sock[c] = "open"}
         IN  /\ up # {} => ~raises
             /\ got' = [c \in Sockets |-> IF c \in up THEN got[c] \cup {i} ELSE got[c]]
             /\ Advance(i, [b EXCEPT !.dead = IF raises THEN @ \cup b.to ELSE @])
    /\ UNCHANGED <<sock, keys, epoch>>

Connection(c) == Connect(c) \/ Accepted(c) \/ Close(c) \/ Disconnect(c) \/ EndpointFails(c)
Broadcast(i)  == Start(i) \/ Resume(i)
WSNext == \/ \E c \in Sockets : Connection(c)
          \/ \E i \in Casts : Broadcast(i)

-----------------------------------------------------------------------------
WSTypeOK ==
    /\ sock \in [Sockets -> {"new", "accepting", "open", "closed", "gone"}]
    /\ keys \subseteq Channels
    /\ conns \in [Channels -> SUBSET Sockets]
    /\ \A s \in Channels : /\ conns[s] \subseteq {c \in Sockets : Watches[c] = s}
                          /\ s \notin keys => conns[s] = {}
    /\ epoch \in [Channels -> Nat]
    /\ \A i \in Casts :
         \/ cast[i].stage \in {"none", "KeyError"}
         \/ cast[i].stage = "failed" /\ {cast[i].joined, cast[i].left} \subseteq BOOLEAN
         \/ cast[i].stage = "ready" /\ cast[i].channel \in Channels
         \/ /\ cast[i].stage = "done"
            /\ cast[i].first \subseteq Sockets /\ cast[i].joined \in BOOLEAN
         \/ /\ cast[i].stage = "sending" /\ cast[i].channel \in Channels
            /\ {cast[i].first, cast[i].known, cast[i].seen, cast[i].to, cast[i].dead} \subseteq SUBSET Sockets
            /\ cast[i].size \in Nat /\ cast[i].epoch \in Nat
    /\ got \in [Sockets -> SUBSET Casts]

(* Nobody is missed by a quiet feed (websocket.py:30 "to all clients       *)
(* watching a session"): a broadcast that runs to its end has reached      *)
(* every socket it began with that is still connected, whoever died        *)
(* before or during its sends, unless another socket joined meanwhile; and *)
(* it breaks off only if a socket joined or left.                          *)
MissesHaveACause ==
    \A i \in Casts :
        /\ cast[i].stage = "done" =>
             \/ cast[i].joined
             \/ \A c \in cast[i].first : sock[c] = "open" => i \in got[c]
        /\ cast[i].stage = "failed" => cast[i].joined \/ cast[i].left

(* Discarding the dead sockets never finds the session's entry deleted     *)
(* (websocket.py:40-41): Python's size check raises before it could.       *)
NoKeyError == \A i \in Casts : cast[i].stage # "KeyError"
=============================================================================
