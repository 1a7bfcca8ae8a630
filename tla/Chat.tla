--------------------------------- MODULE Chat ---------------------------------
(***************************************************************************)
(* One chat room: ChatGateway on several instances of the server,          *)
(* ChatService, and RedisIoAdapter, which relays what one instance emits   *)
(* to the sockets of the others.                                           *)
(*                                                                         *)
(* A call is a join_room of a new socket, or a message: send_message,      *)
(* share_file and start_video_call save one and emit it to the room alike. *)
(* A message is named after its call.  A call that dies takes no further   *)
(* step, and what Redis loses is never relayed.                            *)
(*                                                                         *)
(* The gateway takes the user from the claim userId of the socket's access *)
(* token.  The tokens that AuthService.issueTokens signs claim sub, email  *)
(* and role: with those every call is refused.                             *)
(***************************************************************************)
EXTENDS ApiCalls

CONSTANTS
  Claims,        (* what an access token says of its user                    *)
  Instances,     (* the instances of the server                              *)
  Take           (* how many messages a history has at most (50)             *)

ASSUME ChatAssumption == Take \in Nat /\ None \notin Instances

VARIABLES
  saved,         (* the Message rows, by createdAt                           *)
  talk,          (* local variables of the calls                             *)
  relay,         (* messages Redis has to relay, with the instance           *)
  feed,          (* how often each socket was sent each message              *)
  crossed        (* sockets and messages: the join and the sending overlap   *)

chatVars == <<saved, talk, relay, feed, crossed>>

Talk == [at : {"start", "read", "joined", "left", "saved", "emitted", "refused"},
         on : Instances \cup {None}, upto : 0..Cardinality(Calls)]

ChatTypeOK ==
  /\ saved \in Seq(Calls) /\ Len(saved) <= Cardinality(Calls)
  /\ talk \in [Calls -> Talk]
  /\ relay \subseteq Instances \X Calls
  /\ feed \in [Calls -> [Calls -> 0..2]]
  /\ crossed \subseteq Calls \X Calls

ChatInit ==
  /\ saved = <<>>
  /\ talk = [c \in Calls |-> [at |-> "start", on |-> None, upto |-> 0]]
  /\ relay = {}
  /\ feed = [s \in Calls |-> [m \in Calls |-> 0]]
  /\ crossed = {}

Says(c, place) == talk' = [talk EXCEPT ![c].at = place]

Messages == {m \in Calls : talk[m].at \in {"saved", "emitted"}}

(* m has been saved and is still to be sent to the sockets of instance i.  *)
UnderWay(m, i) == talk[m].at = "saved" \/ <<i, m>> \in relay

(* The socket of a call is in the room on instance i.                      *)
InRoom(s, i) == talk[s].at = "joined" /\ talk[s].on = i

SentTo(i, m) ==
  feed' = [s \in Calls |->
             [n \in Calls |-> IF n = m /\ InRoom(s, i) THEN feed[s][n] + 1 ELSE feed[s][n]]]

-----------------------------------------------------------------------------
(* handleJoinRoom and saveMessage refuse a caller who is not known, or no  *)
(* participant of the room.  The others' sockets are on any instance.      *)
Known == "userId" \in Claims

Refuse(c) ==
  /\ talk[c].at = "start"
  /\ Says(c, "refused")
  /\ UNCHANGED <<saved, relay, feed, crossed>>

(* getRoomMessages *)
ReadHistory(c) ==
  /\ talk[c].at = "start" /\ Known
  /\ \E i \in Instances :
       /\ talk' = [talk EXCEPT ![c] = [at |-> "read", on |-> i, upto |-> Len(saved)]]
       /\ crossed' = crossed \cup {<<c, m>> : m \in {n \in Messages : UnderWay(n, i)}}
  /\ UNCHANGED <<saved, relay, feed>>

(* The socket joins, then is sent the history: the oldest messages of it.  *)
JoinRoom(c) ==
  /\ talk[c].at = "read"
  /\ Says(c, "joined")
  /\ feed' = [feed EXCEPT ![c] =
       [m \in Calls |-> IF \E k \in 1..talk[c].upto : k <= Take /\ saved[k] = m THEN 1 ELSE 0]]
  /\ UNCHANGED <<saved, relay, crossed>>

HandleDisconnect(c) ==
  /\ talk[c].at = "joined"
  /\ Says(c, "left")
  /\ UNCHANGED <<saved, relay, feed, crossed>>

-----------------------------------------------------------------------------
SaveMessage(c) ==
  /\ talk[c].at = "start" /\ Known
  /\ saved' = Append(saved, c)
  /\ \E i \in Instances :
       talk' = [talk EXCEPT ![c] = [at |-> "saved", on |-> i, upto |-> 0]]
  /\ crossed' = crossed \cup {<<s, c>> : s \in {d \in Calls : talk[d].at = "read"}}
  /\ UNCHANGED <<relay, feed>>

(* A mutant: the in-memory adapter reaches this instance alone.            *)
EmitLocally(c) ==
  /\ talk[c].at = "saved"
  /\ Says(c, "emitted")
  /\ SentTo(talk[c].on, c)
  /\ UNCHANGED <<saved, relay, crossed>>

(* A mutant: an instance does not know its own messages when they come     *)
(* back.                                                                   *)
EmitToAll(c) ==
  /\ talk[c].at = "saved"
  /\ Says(c, "emitted")
  /\ SentTo(talk[c].on, c)
  /\ relay' = relay \cup {<<i, c>> : i \in Instances}
  /\ UNCHANGED <<saved, crossed>>

EmitMessage(c) ==
  /\ talk[c].at = "saved"
  /\ Says(c, "emitted")
  /\ SentTo(talk[c].on, c)
  /\ relay' = relay \cup {<<i, c>> : i \in Instances \ {talk[c].on}}
  /\ UNCHANGED <<saved, crossed>>

(* The messages of two instances arrive in any order.                      *)
Relay(i, m) ==
  /\ <<i, m>> \in relay
  /\ relay' = relay \ {<<i, m>>}
  /\ SentTo(i, m)
  /\ UNCHANGED <<saved, talk, crossed>>

ChatCall(c) == Refuse(c) \/ ReadHistory(c) \/ SaveMessage(c)

ChatStep(c) ==
  \/ JoinRoom(c) \/ HandleDisconnect(c) \/ EmitMessage(c)
  \/ \E i \in Instances : Relay(i, c)

ChatNext == \E c \in Calls : ChatCall(c) \/ ChatStep(c)

ChatSpec == ChatInit /\ [][ChatNext]_chatVars

-----------------------------------------------------------------------------
(* Properties *)

(* A socket in the room has been sent every message exactly once, those    *)
(* saved before it joined with the history and those saved since from the  *)
(* room, whichever instance it is on, as soon as they have arrived there.  *)
(* Two things may go wrong: the history ends after Take messages, and a    *)
(* message whose sending overlaps with the joining may be sent twice or    *)
(* never.                                                                  *)
SeenOnce ==
  \A s \in Calls, k \in 1..Len(saved) :
    LET m == saved[k] IN
    talk[s].at = "joined" /\ <<s, m>> \notin crossed =>
      feed[s][m] = IF k <= talk[s].upto THEN IF k <= Take THEN 1 ELSE 0
                   ELSE IF UnderWay(m, talk[s].on) THEN 0 ELSE 1
=============================================================================
