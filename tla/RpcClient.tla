------------------------------ MODULE RpcClient ------------------------------
(***************************************************************************)
(* How a board finds its server and calls it: service_disc_discover and its *)
(* UDP callback (firmware/discovery/service_disc.c), and one RPC with its   *)
(* attempts, its persistent connection and the substring parsers            *)
(* (firmware/rpc_client.c).                                                 *)
(*                                                                          *)
(* The network task may run the UDP callback between any two steps of the   *)
(* discovery.  A connection is two streams: "asked", the requests on their  *)
(* way, and "inbox", the answers as the pieces one recv may return; a       *)
(* request of a closed connection may still be executed ("stray").          *)
(***************************************************************************)
EXTENDS Integers, Sequences, FiniteSets

CONSTANTS
  Announcements,      \* the answers to the broadcast: sender and port in the text
  FallbackAddr, FallbackPort,
  Attempts,           \* 3 attempts of a call
  MaxCalls            \* bound: calls

ASSUME RpcClientAssumption ==
  /\ \A a \in Announcements : a.port \in Int /\ a = [addr |-> a.addr, port |-> a.port]
  /\ FallbackPort \in Nat
  /\ Attempts \in Nat \ {0} /\ MaxCalls \in Nat

VARIABLES
  pc,                 \* the blocking point the task is at
  found,              \* g_disc_success, g_disc_ip, g_disc_port
  out,                \* *out_ip, *out_port of the discovery
  announced,          \* history: the servers that answered the broadcast
  target,             \* server_ip, server_port
  sock, open,         \* sock >= 0; the lwIP sockets allocated
  kind, attempt, second,  \* the call, the attempt, its second try
  asked, inbox, stray, torn,
  calls, served, result   \* history, and the last result with what it is about

discovery == <<found, out, announced, target>>
wire      == <<sock, open, asked, inbox, stray, torn>>
call      == <<kind, attempt, second, calls, result>>
vars      == <<pc, discovery, wire, call, served>>

Pair(addr, port) == [addr |-> addr, port |-> port]

Fallback == Pair(FallbackAddr, FallbackPort)

NoResult == [ok |-> FALSE, err |-> "DISCONNECTED", of |-> 0, said |-> "nothing",
             milestone |-> FALSE]

Init ==
  /\ pc = "boot"
  /\ found = [ok |-> FALSE, addr |-> FallbackAddr, port |-> 0]
  /\ out = Pair(FallbackAddr, 0) /\ announced = {}
  /\ target = Fallback
  /\ sock = FALSE /\ open = 0
  /\ kind = "register" /\ attempt = 0 /\ second = FALSE
  /\ asked = <<>> /\ inbox = <<>> /\ torn = FALSE
  /\ stray = [c \in 1..MaxCalls |-> 0]
  /\ calls = 0 /\ served = [c \in 1..MaxCalls |-> 0] /\ result = NoResult

-----------------------------------------------------------------------------
(* Discovery.                                                               *)

(* The callback is registered until udp_remove.                             *)
Listening_AlsoCopying == {"poll", "remove", "copy", "copy_port"}

Listening == {"poll", "remove"}

(* udp_recv_callback: an answer with the prefix and a valid port; any other *)
(* packet is dropped.                                                       *)
ValidPort(port) == port > 0 /\ port <= 65535

Announce(a) ==
  /\ pc \in Listening
  /\ ValidPort(a.port)
  /\ found' = [ok |-> TRUE, addr |-> a.addr, port |-> a.port % 65536]
  /\ announced' = announced \cup {a}
  /\ UNCHANGED <<pc, out, target, wire, call, served>>

(* No control block, no buffer or no broadcast: no discovery.               *)
DiscoveryStarts ==
  /\ pc = "boot"
  /\ found' = [found EXCEPT !.ok = FALSE, !.port = 0]
  /\ pc' \in {"poll", "fallback"}
  /\ UNCHANGED <<out, announced, target, wire, call, served>>

(* The loop ends with an answer or at the deadline.                         *)
PollEnds ==
  /\ pc = "poll"
  /\ pc' = "remove"
  /\ UNCHANGED <<discovery, wire, call, served>>

Removed ==
  /\ pc = "remove"
  /\ pc' = IF found.ok THEN "copy" ELSE "fallback"
  /\ UNCHANGED <<discovery, wire, call, served>>

AddrCopied ==
  /\ pc = "copy"
  /\ out' = [out EXCEPT !.addr = found.addr]
  /\ pc' = "copy_port"
  /\ UNCHANGED <<found, announced, target, wire, call, served>>

PortCopied ==
  /\ pc = "copy_port"
  /\ out' = [out EXCEPT !.port = found.port]
  /\ pc' = "found"
  /\ UNCHANGED <<found, announced, target, wire, call, served>>

-----------------------------------------------------------------------------
(* The connection.                                                          *)

(* Requests not yet read by the server when their connection ends may still *)
(* be read and executed; their answers go nowhere.                          *)
StrayWith(requests) ==
  [c \in 1..MaxCalls |-> stray[c] + Cardinality({i \in DOMAIN requests : requests[i].of = c})]

Disconnected_Kept == UNCHANGED <<sock, open, asked, inbox, stray, torn>>

Disconnected ==
  /\ sock' = FALSE
  /\ open' = IF sock THEN open - 1 ELSE open
  /\ stray' = StrayWith(asked)
  /\ asked' = <<>> /\ inbox' = <<>> /\ torn' = FALSE

(* rpc_client_set_server with the pair found or with the fallback.          *)
SetServer ==
  /\ pc \in {"found", "fallback"}
  /\ target' = IF pc = "found" THEN out ELSE Fallback
  /\ Disconnected
  /\ pc' = "idle"
  /\ out' = Pair(FallbackAddr, 0)   \* the locals are gone
  /\ UNCHANGED <<found, announced, call, served>>

(* connect_to_server uses an open connection again.                         *)
Connecting == IF sock' THEN "send" ELSE "connect"

Kinds == {"register", "clicks", "powerup", "scores"}

(* rpc_call_with_retry starts.                                              *)
Begin ==
  /\ pc = "idle" /\ calls < MaxCalls
  /\ calls' = calls + 1
  /\ kind' \in Kinds
  /\ attempt' = 1 /\ second' = FALSE
  /\ UNCHANGED <<discovery, wire, result, served>>
  /\ pc' = Connecting

(* An attempt has failed: the next one, after the back-off, or the end.     *)
NextAttempt_Same == attempt

NextAttempt == attempt + 1

MoreAttempts_OneTooMany == attempt <= Attempts

MoreAttempts == attempt < Attempts

AttemptFails(errors) ==
  IF MoreAttempts
  THEN /\ attempt' = NextAttempt /\ second' = FALSE
       /\ pc' = Connecting
       /\ UNCHANGED <<kind, calls, result>>
  ELSE /\ \E e \in errors : result' = [NoResult EXCEPT !.err = e]
       /\ pc' = "idle"
       /\ UNCHANGED <<kind, attempt, second, calls>>

SocketAllocated ==
  /\ pc = "connect"
  /\ open' = open + 1
  /\ pc' = "connecting"
  /\ UNCHANGED <<discovery, sock, asked, inbox, stray, torn, call, served>>

NoSocket ==
  /\ pc = "connect"
  /\ UNCHANGED <<discovery, wire, served>>
  /\ AttemptFails({"DISCONNECTED"})

Connects ==
  /\ pc = "connecting"
  /\ sock' = TRUE
  /\ pc' = "send"
  /\ UNCHANGED <<discovery, open, asked, inbox, stray, torn, call, served>>

(* The address is bad, the peer refuses, or the select times out.           *)
OpenAfterRefusal_Leaked == open

OpenAfterRefusal == open - 1

ConnectFails ==
  /\ pc = "connecting"
  /\ open' = OpenAfterRefusal
  /\ UNCHANGED <<discovery, sock, asked, inbox, stray, torn, served>>
  /\ AttemptFails({"DISCONNECTED"})

Sends ==
  /\ pc = "send"
  /\ asked' = Append(asked, [of |-> calls, kind |-> kind])
  /\ pc' = "recv"
  /\ UNCHANGED <<discovery, sock, open, inbox, stray, torn, call, served>>

(* A try has failed: the connection is closed; one more try, if this was    *)
(* the first.  Whether errno says timeout is left over from other calls.    *)
TryFails ==
  /\ Disconnected
  /\ IF ~second
     THEN second' = TRUE /\ pc' = Connecting /\ UNCHANGED <<kind, attempt, calls, result>>
     ELSE AttemptFails({"TIMEOUT", "DISCONNECTED"})

SendFails ==
  /\ pc = "send"
  /\ TryFails
  /\ UNCHANGED <<discovery, served>>

(* No answer in time, or the peer has closed.                               *)
RecvFails ==
  /\ pc = "recv"
  /\ TryFails
  /\ UNCHANGED <<discovery, served>>

-----------------------------------------------------------------------------
(* The server: it reads one request at a time and writes one line for each. *)

Answers(k) ==
  {"ok", "exception"} \cup
  (CASE k = "clicks"  -> {"milestone", "limited", "violation"}
     [] k = "powerup" -> {"active"}
     [] OTHER         -> {})

(* The words the parsers look for, in the order of the line, cut where a    *)
(* piece may end.  json.dumps writes a space after every colon.             *)
Line(k, answer) ==
  CASE answer = "exception" -> <<{"error"}, {"message"}>>
    [] answer = "violation" -> <<{"result"}, {"error", "LAMPORT_VIOLATION", "lamport_ts"}>>
    [] answer = "active"    -> <<{"result"}, {"error", "ALREADY_ACTIVE"}>>
    [] answer = "limited"   -> <<{"result", "RATE_EXCEEDED"}, {"fields", "milestone: false"}>>
    [] answer = "milestone" -> <<{"result"}, {"fields", "milestone: true"}>>
    [] answer = "ok"        -> <<{"result"}, IF k = "clicks" THEN {"fields", "milestone: false"}
                                                             ELSE {}>>

Pieces(r, answer) ==
  LET line == Line(r.kind, answer) IN
  [i \in 1..Len(line) |-> [of |-> r.of, said |-> answer, words |-> line[i]]]

Served(c) == served' = [served EXCEPT ![c] = @ + 1]

Serves ==
  /\ asked # <<>>
  /\ Served(Head(asked).of)
  /\ asked' = Tail(asked)
  /\ \E answer \in Answers(Head(asked).kind) : inbox' = inbox \o Pieces(Head(asked), answer)
  /\ UNCHANGED <<pc, discovery, sock, open, stray, torn, call>>

ServesStray(c) ==
  /\ stray[c] > 0
  /\ stray' = [stray EXCEPT ![c] = @ - 1]
  /\ Served(c)
  /\ UNCHANGED <<pc, discovery, sock, open, asked, inbox, torn, call>>

-----------------------------------------------------------------------------
(* The parsers, by the words they find anywhere in the text.                *)

Parsed(ok, err) == [ok |-> ok, err |-> err]

ParseRegister(has) ==
  IF "error" \notin has /\ "result" \in has THEN Parsed(TRUE, "OK") ELSE Parsed(FALSE, "PARSE")

(* json_get_int finds the scores and the timestamp.                         *)
GetInts(has) == "fields" \in has

ParseClicks_ResultFirst(has) ==
  IF "result" \in has \/ GetInts(has) THEN Parsed(TRUE, "OK") ELSE Parsed(FALSE, "PARSE")

ParseClicks(has) ==
  IF "error" \in has
  THEN Parsed(FALSE, IF "LAMPORT_VIOLATION" \in has THEN "LAMPORT_VIOLATION"
                     ELSE IF "RATE_EXCEEDED" \in has THEN "RATE_EXCEEDED" ELSE "PARSE")
  ELSE IF GetInts(has) THEN Parsed(TRUE, "OK") ELSE Parsed(FALSE, "PARSE")

ParsePowerup(has) ==
  IF "error" \in has /\ "ALREADY_ACTIVE" \notin has THEN Parsed(FALSE, "PARSE")
  ELSE Parsed(TRUE, "OK")

ParseScores(has) ==
  IF "error" \in has THEN Parsed(FALSE, "PARSE") ELSE Parsed(TRUE, "OK")

Parse(has) ==
  CASE kind = "register" -> ParseRegister(has)
    [] kind = "clicks"   -> ParseClicks(has)
    [] kind = "powerup"  -> ParsePowerup(has)
    [] kind = "scores"   -> ParseScores(has)

(* One recv returns any non-empty beginning of what has arrived; the call   *)
(* ends with what the parser makes of it.                                   *)
Receives ==
  /\ pc = "recv" /\ inbox # <<>>
  /\ \E n \in 1..Len(inbox) :
       LET has == UNION {inbox[i].words : i \in 1..n}
           is  == Parse(has) IN
       /\ inbox' = SubSeq(inbox, n + 1, Len(inbox))
       /\ torn' = (torn \/ n < Len(inbox))
       /\ result' = [ok |-> is.ok, err |-> is.err, of |-> inbox[1].of, said |-> inbox[1].said,
                     milestone |-> is.ok /\ "milestone:true" \in has]
  /\ pc' = "idle"
  /\ UNCHANGED <<discovery, sock, open, asked, stray, kind, attempt, second, calls, served>>

DiscoveryStep == DiscoveryStarts \/ PollEnds \/ Removed \/ AddrCopied \/ PortCopied \/ SetServer

CallStep ==
  \/ SocketAllocated \/ NoSocket \/ Connects \/ ConnectFails
  \/ Sends \/ SendFails \/ RecvFails \/ Receives

Next ==
  \/ DiscoveryStep \/ Begin \/ CallStep \/ Serves
  \/ \E c \in 1..MaxCalls : ServesStray(c)
  \/ \E a \in Announcements : Announce(a)

(* Every wait of the client has a deadline, after which the task goes on.   *)
Spec == Init /\ [][Next]_vars /\ WF_vars(DiscoveryStep \/ CallStep)

-----------------------------------------------------------------------------
(* Properties.                                                              *)

Calling == {"connect", "connecting", "send", "recv"}

Waiting == {"boot", "poll", "remove", "copy", "copy_port", "found", "fallback", "idle"}

Ports == 0..65535   \* uint16_t

TypeOK ==
  /\ pc \in Calling \cup Waiting
  /\ found.ok \in BOOLEAN /\ found.port \in Ports /\ out.port \in Ports
  /\ announced \subseteq Announcements
  /\ sock \in BOOLEAN /\ torn \in BOOLEAN /\ second \in BOOLEAN
  /\ kind \in Kinds /\ attempt \in 0..Attempts
  /\ calls \in 0..MaxCalls /\ (pc \in Calling => calls > 0)
  /\ asked \in Seq([of : 1..calls, kind : Kinds])
  /\ \A i \in DOMAIN inbox : inbox[i].of \in 1..calls

(* A board in service holds one lwIP socket if it is connected or about to  *)
(* be and none otherwise, whatever path its calls took: the few sockets     *)
(* lwIP has never run out (connect_to_server, disconnect_socket).           *)
SocketsAccounted == open = IF sock \/ pc = "connecting" THEN 1 ELSE 0

(* Although later answers overwrite g_disc_ip and g_disc_port while the     *)
(* task works on them, the server it calls is one that answered, with the   *)
(* port of that same answer, or the fallback.                               *)
TargetIsAnnounced == pc \in Calling \cup {"idle"} => target \in announced \cup {Fallback}

(* The code the documents give each answer (docs/rpc_client_api.md:17-22,   *)
(* docs/API_RPC.md:114, 206).                                               *)
Meaning ==
  [ok |-> "OK", milestone |-> "OK", active |-> "OK", limited |-> "RATE_EXCEEDED",
   violation |-> "LAMPORT_VIOLATION", exception |-> "PARSE"]

(* As long as no answer was read in part, the board hears the verdict of    *)
(* the server: done, or the error it must act on, although a refusal may    *)
(* come in a "result" and the parsers look for words anywhere in the line.  *)
(* Not so a rate limit, which is heard as a success: see RejectedComeBack   *)
(* of Firmware.  Nothing is said of the flag of a milestone (MilestoneHeard *)
(* below) or of the values.                                                 *)
ParsedRight ==
  pc = "idle" /\ result.of # 0 /\ ~torn /\ result.said # "limited" =>
    /\ result.err = Meaning[result.said]
    /\ result.ok <=> result.err = "OK"

(* What task_rpc may rely on: RpcCall.  The server executes one call at     *)
(* most twice per attempt, a success was executed, and answers belong to    *)
(* their calls, because a connection with an answer outstanding is closed.  *)
Promise == INSTANCE RpcCall WITH
  MaxTries <- 2 * Attempts,
  busy     <- pc \in Calling,
  outcome  <- [ok |-> result.ok, of |-> result.of]

Promised == Promise!Spec

(* Every call returns, whatever the network does.                           *)
CallEnds == pc \in Calling ~> pc = "idle"

-----------------------------------------------------------------------------
(* "Detecção Booleana: um campo é considerado true apenas se a string exata *)
(* for encontrada": a milestone the server signals reaches the board        *)
(* (docs/backend_rpc_contract.md:51 and 127).                               *)
MilestoneHeard == pc = "idle" /\ result.said = "milestone" /\ result.ok => result.milestone

=============================================================================
