--------------------------- MODULE RpcClientProofs ---------------------------
(* Proofs about the board's discovery and its RPC client, for every set of  *)
(* announcements, any number of attempts and of calls.                      *)
EXTENDS RpcClient, FiniteSetTheorems, TLAPS

-----------------------------------------------------------------------------
(* The sockets.  A connection is only made while there is none.             *)
SocketInv ==
  /\ sock \in BOOLEAN
  /\ pc \in {"connect", "connecting"} => ~sock
  /\ sock \/ pc = "connecting" => open = 1
  /\ ~sock /\ pc # "connecting" => open = 0

(* The account is what the property says.                                   *)
LEMMA Accounted == SocketInv => SocketsAccounted
BY Zenon DEF SocketInv, SocketsAccounted

(* Closing the connection gives its socket back.                            *)
LEMMA DisconnectGivesBack ==
  ASSUME SocketInv, pc \notin {"connect", "connecting"}, Disconnected
  PROVE  sock' = FALSE /\ open' = 0
<1>1. CASE sock
  BY <1>1 DEF SocketInv, Disconnected
<1>2. CASE ~sock
  BY <1>2 DEF SocketInv, Disconnected
<1> QED BY <1>1, <1>2

(* An attempt ends at the next one, which uses the connection or makes one, *)
(* or at rest.                                                              *)
LEMMA AttemptEnds ==
  ASSUME NEW errors, AttemptFails(errors), sock' = FALSE
  PROVE  pc' \in {"connect", "idle"}
BY DEF AttemptFails, Connecting

(* Every step keeps the account of the sockets.                             *)
LEMMA StepSockets == ASSUME SocketInv, [Next]_vars PROVE SocketInv'
<1> USE DEF SocketInv, discovery, wire, call
<1>1. CASE DiscoveryStarts \/ PollEnds \/ Removed \/ AddrCopied \/ PortCopied
  BY <1>1 DEF DiscoveryStarts, PollEnds, Removed, AddrCopied, PortCopied
<1>2. CASE SetServer
  BY <1>2, DisconnectGivesBack DEF SetServer
<1>3. CASE Begin
  BY <1>3 DEF Begin, Connecting
<1>4. CASE SocketAllocated \/ Connects \/ Sends \/ Receives
  <2>1. CASE SocketAllocated
    <3>1. ~sock /\ open = 0
      BY <2>1 DEF SocketAllocated
    <3> QED BY <2>1, <3>1 DEF SocketAllocated
  <2>2. CASE Connects
    BY <2>2 DEF Connects
  <2>3. CASE Sends \/ Receives
    BY <2>3 DEF Sends, Receives
  <2> QED BY <1>4, <2>1, <2>2, <2>3
<1>5. CASE NoSocket
  BY <1>5, AttemptEnds DEF NoSocket
<1>6. CASE ConnectFails
  <2>1. ~sock /\ open = 1
    BY <1>6 DEF ConnectFails
  <2>2. open' = 0 /\ sock' = sock
    BY <1>6, <2>1 DEF ConnectFails, OpenAfterRefusal
  <2>3. pc' \in {"connect", "idle"}
    BY <1>6, <2>1, <2>2, AttemptEnds DEF ConnectFails
  <2> QED BY <2>1, <2>2, <2>3
<1>7. CASE SendFails \/ RecvFails
  <2>1. TryFails /\ pc \notin {"connect", "connecting"}
    BY <1>7 DEF SendFails, RecvFails
  <2>2. sock' = FALSE /\ open' = 0
    BY <2>1, DisconnectGivesBack DEF TryFails
  <2>3. pc' \in {"connect", "idle"}
    BY <2>1, <2>2, AttemptEnds DEF TryFails, Connecting
  <2> QED BY <2>2, <2>3
<1>8. CASE Serves \/ (\E c \in 1..MaxCalls : ServesStray(c)) \/ (\E a \in Announcements : Announce(a))
  BY <1>8 DEF Serves, ServesStray, Announce
<1>9. CASE UNCHANGED vars
  BY <1>9 DEF vars
<1> QED BY <1>1, <1>2, <1>3, <1>4, <1>5, <1>6, <1>7, <1>8, <1>9 DEF Next, DiscoveryStep, CallStep

(* No path of a call leaks a socket or gives one back twice.                *)
THEOREM SocketsAreAccounted == Spec => []SocketsAccounted
<1>1. Init => SocketInv
  BY DEF Init, SocketInv
<1>2. SocketInv /\ [Next]_vars => SocketInv'
  BY StepSockets
<1> QED BY <1>1, <1>2, Accounted, PTL DEF Spec

-----------------------------------------------------------------------------
(* The target.  What the callback has written is one announcement, and it   *)
(* no longer writes once the task copies.                                   *)
Shapes ==
  /\ found = [ok |-> found.ok, addr |-> found.addr, port |-> found.port]
  /\ out = Pair(out.addr, out.port)

FoundInv ==
  /\ found.ok => Pair(found.addr, found.port) \in announced
  /\ pc \in {"copy", "copy_port"} => found.ok
  /\ pc = "copy_port" => out.addr = found.addr
  /\ pc = "found" => out \in announced

TargetInv == Shapes /\ FoundInv /\ TargetIsAnnounced

(* A call returns to rest or goes on with its next attempt.                 *)
LEMMA CallGoesOn ==
  ASSUME Begin \/ CallStep
  PROVE  /\ pc' \in Calling \cup {"idle"} /\ pc \in Calling \cup {"idle"}
         /\ UNCHANGED discovery
<1> USE DEF Calling, discovery
<1>1. \A errors : AttemptFails(errors) => pc' \in {"connect", "send", "idle"}
  BY DEF AttemptFails, Connecting
<1>2. CASE Begin
  BY <1>2 DEF Begin, Connecting
<1>3. CASE SocketAllocated \/ Connects \/ Sends \/ Receives
  BY <1>3 DEF SocketAllocated, Connects, Sends, Receives
<1>4. CASE NoSocket \/ ConnectFails
  BY <1>1, <1>4 DEF NoSocket, ConnectFails
<1>5. CASE SendFails \/ RecvFails
  <2>1. TryFails => pc' \in {"connect", "send", "idle"}
    BY <1>1 DEF TryFails, Connecting
  <2> QED BY <1>5, <2>1 DEF SendFails, RecvFails
<1> QED BY <1>2, <1>3, <1>4, <1>5 DEF CallStep

(* A valid port survives the conversion to 16 bits.                         *)
LEMMA PortFits ==
  ASSUME NEW a \in Announcements, ValidPort(a.port)
  PROVE  Pair(a.addr, a.port % 65536) = a
<1>1. a.port \in Int /\ a = [addr |-> a.addr, port |-> a.port]
  BY RpcClientAssumption DEF RpcClientAssumption
<1>2. a.port % 65536 = a.port
  BY <1>1 DEF ValidPort
<1> QED BY <1>1, <1>2 DEF Pair

(* Every step keeps the server one that answered.                           *)
LEMMA StepTarget == ASSUME TargetInv, [Next]_vars PROVE TargetInv'
<1> USE DEF TargetInv, Shapes, FoundInv, TargetIsAnnounced, discovery, wire, call
<1>1. ASSUME NEW a \in Announcements, Announce(a)
      PROVE  TargetInv'
  <2>1. /\ found' = [ok |-> TRUE, addr |-> a.addr, port |-> a.port % 65536]
        /\ announced' = announced \cup {a} /\ pc \in {"poll", "remove"}
        /\ UNCHANGED <<pc, out, target>>
    BY <1>1 DEF Announce, Listening
  <2>2. Pair(found'.addr, found'.port) = a
    BY <1>1, <2>1, PortFits DEF Announce
  <2> QED BY <2>1, <2>2 DEF Calling
<1>2. CASE DiscoveryStarts
  <2>1. found' = [ok |-> FALSE, addr |-> found.addr, port |-> 0]
    BY <1>2 DEF DiscoveryStarts
  <2>2. pc' \in {"poll", "fallback"} /\ UNCHANGED <<out, announced>>
    BY <1>2 DEF DiscoveryStarts
  <2> QED BY <2>1, <2>2 DEF Calling
<1>3. CASE PollEnds \/ Removed
  <2>1. pc' \in {"remove", "copy", "fallback"} /\ UNCHANGED <<found, out, announced>>
    BY <1>3 DEF PollEnds, Removed
  <2>2. pc' = "copy" => found.ok
    BY <1>3 DEF PollEnds, Removed
  <2> QED BY <2>1, <2>2 DEF Calling
<1>4. CASE AddrCopied
  <2>1. out' = Pair(found.addr, out.port)
    BY <1>4 DEF AddrCopied, Pair
  <2> QED BY <1>4, <2>1 DEF AddrCopied, Pair, Calling
<1>5. CASE PortCopied
  <2>1. out' = Pair(out.addr, found.port)
    BY <1>5 DEF PortCopied, Pair
  <2>2. out' = Pair(found.addr, found.port) /\ found.ok
    BY <1>5, <2>1 DEF PortCopied
  <2> QED BY <1>5, <2>1, <2>2 DEF PortCopied, Pair, Calling
<1>6. CASE SetServer
  <2>1. target' \in announced \cup {Fallback}
    BY <1>6 DEF SetServer
  <2>2. pc' = "idle" /\ UNCHANGED <<found, announced>> /\ out' = Pair(FallbackAddr, 0)
    BY <1>6 DEF SetServer
  <2> QED BY <2>1, <2>2 DEF Pair
<1>7. CASE Begin \/ CallStep
  BY <1>7, CallGoesOn DEF Calling
<1>8. CASE Serves \/ \E c \in 1..MaxCalls : ServesStray(c)
  BY <1>8 DEF Serves, ServesStray
<1>9. CASE UNCHANGED vars
  BY <1>9 DEF vars
<1> QED BY <1>1, <1>2, <1>3, <1>4, <1>5, <1>6, <1>7, <1>8, <1>9 DEF Next, DiscoveryStep

(* The board calls a server that answered it, address and port from the     *)
(* same answer, or the fallback.                                            *)
THEOREM TargetAnswered == Spec => []TargetIsAnnounced
<1>1. Init => TargetInv
  BY DEF Init, TargetInv, Shapes, FoundInv, TargetIsAnnounced, Calling, Pair
<1>2. TargetInv /\ [Next]_vars => TargetInv'
  BY StepTarget
<1>3. TargetInv => TargetIsAnnounced
  BY DEF TargetInv
<1> QED BY <1>1, <1>2, <1>3, PTL DEF Spec

-----------------------------------------------------------------------------
(* The call.  The task knows what it has asked for on a connection, what    *)
(* may still be executed, and how many tries of the call it has spent.      *)

Current == [of |-> calls, kind |-> kind]

Said == {"ok", "exception", "milestone", "limited", "violation", "active"}

(* The words that may stand in an answer.                                   *)
Words == {"error", "message", "result", "LAMPORT_VIOLATION", "lamport_ts", "ALREADY_ACTIVE",
          "RATE_EXCEEDED", "fields", "milestone: false", "milestone: true"}

Awaits(c) == \E i \in DOMAIN asked : asked[i].of = c

(* How often call c was executed or still may be.                           *)
Tries(c) == served[c] + stray[c] + (IF Awaits(c) THEN 1 ELSE 0)

Spent == 2 * (attempt - 1) + (IF second THEN 1 ELSE 0) + (IF pc = "recv" THEN 1 ELSE 0)

(* What may be asked, and what may be answered, about the first n calls.    *)
Asking(n) == [of : 1..n, kind : Kinds]

Answering(n) == [of : 1..n, said : Said, words : SUBSET Words]

CallTypes ==
  /\ pc \in Calling \cup Waiting
  /\ sock \in BOOLEAN /\ torn \in BOOLEAN /\ second \in BOOLEAN
  /\ kind \in Kinds /\ attempt \in 0..Attempts /\ calls \in 0..MaxCalls
  /\ pc \in Calling => calls > 0 /\ attempt > 0
  /\ asked \in Seq(Asking(calls))
  /\ inbox \in Seq(Answering(calls))
  /\ served \in [1..MaxCalls -> Nat] /\ stray \in [1..MaxCalls -> Nat]

(* A call asks at most once per connection, and a closed one is forgotten.  *)
AskedOnce ==
  /\ \A i, j \in DOMAIN asked : i < j => asked[i].of < asked[j].of
  /\ pc = "send" => ~Awaits(calls)
  /\ ~sock => asked = <<>> /\ inbox = <<>> /\ ~torn
  /\ pc \in {"send", "recv"} => sock
  /\ pc \in {"connect", "connecting"} \cup (Waiting \ {"idle"}) => ~sock

Budget ==
  /\ \A c \in 1..MaxCalls : Tries(c) <= 2 * Attempts /\ (c > calls => Tries(c) = 0)
  /\ pc \in Calling => Tries(calls) <= Spent

Delivered == \A i \in DOMAIN inbox : served[inbox[i].of] > 0

(* On a connection no answer of which was read in part there is nothing but *)
(* the current request or its answer, and between calls nothing at all.     *)
Clean ==
  ~torn =>
    \/ pc # "recv" /\ asked = <<>> /\ inbox = <<>>
    \/ pc = "recv" /\ asked = <<Current>> /\ inbox = <<>>
    \/ /\ pc = "recv" /\ asked = <<>>
       /\ \E answer \in Answers(kind) : inbox = Pieces(Current, answer)

CallInv == CallTypes /\ AskedOnce /\ Budget /\ Delivered /\ Clean

(* The numbers the invariant speaks of.                                     *)
LEMMA CallNumbers ==
  ASSUME CallTypes
  PROVE  /\ calls \in Nat /\ attempt \in Nat /\ Attempts \in Nat /\ MaxCalls \in Nat
         /\ calls <= MaxCalls /\ attempt <= Attempts /\ Attempts > 0
         /\ \A c \in 1..MaxCalls : served[c] \in Nat /\ stray[c] \in Nat /\ Tries(c) \in Nat
  BY RpcClientAssumption DEF CallTypes, Tries

(* A request on its way is that of a call made.                             *)
LEMMA AskedTypes ==
  ASSUME CallTypes
  PROVE  /\ DOMAIN asked = 1..Len(asked) /\ Len(asked) \in Nat
         /\ \A i \in DOMAIN asked :
              /\ i \in Nat /\ asked[i].of \in 1..calls /\ asked[i].of \in Nat
              /\ asked[i].kind \in Kinds
  <1>1. /\ DOMAIN asked = 1..Len(asked) /\ Len(asked) \in Nat
        /\ \A i \in 1..Len(asked) : asked[i] \in Asking(calls)
    BY DEF CallTypes
  <1>2. \A i \in 1..Len(asked) : asked[i].of \in 1..calls /\ asked[i].kind \in Kinds
    BY <1>1 DEF Asking
  <1>3. \A n \in 1..calls : n \in Nat
    BY CallNumbers
  <1> QED BY <1>1, <1>2, <1>3

(* An answer on its way is that to a call made.                             *)
LEMMA InboxTypes ==
  ASSUME CallTypes
  PROVE  /\ DOMAIN inbox = 1..Len(inbox) /\ Len(inbox) \in Nat
         /\ \A i \in DOMAIN inbox : inbox[i].of \in 1..calls
  <1>1. /\ DOMAIN inbox = 1..Len(inbox) /\ Len(inbox) \in Nat
        /\ \A i \in DOMAIN inbox : inbox[i] \in Answering(calls)
    BY DEF CallTypes
  <1> QED BY <1>1 DEF Answering

(* A call is asked for at most once on a connection, so what a closed one   *)
(* leaves behind is what it was asked for.                                  *)
LEMMA StrayCount ==
  ASSUME CallTypes, AskedOnce, NEW c \in 1..MaxCalls
  PROVE  StrayWith(asked)[c] = stray[c] + (IF Awaits(c) THEN 1 ELSE 0)
  <1> DEFINE S == {i \in DOMAIN asked : asked[i].of = c}
  <1>1. StrayWith(asked)[c] = stray[c] + Cardinality(S)
    BY DEF StrayWith
  <1>2. CASE ~Awaits(c)
    <2>1. S = {}
      BY <1>2 DEF Awaits
    <2> QED BY <1>1, <1>2, <2>1, FS_EmptySet
  <1>3. CASE Awaits(c)
    <2>1. PICK i \in DOMAIN asked : asked[i].of = c
      BY <1>3 DEF Awaits
    <2>2. DOMAIN asked \subseteq Nat /\ \A j \in DOMAIN asked : asked[j].of \in Nat
      BY AskedTypes
    <2>3. ASSUME NEW j \in DOMAIN asked, asked[j].of = c PROVE j = i
      <3>1. ~(j < i) /\ ~(i < j)
        BY <2>1, <2>2, <2>3 DEF AskedOnce
      <3> QED BY <2>1, <2>2, <3>1
    <2>4. S = {i}
      BY <2>1, <2>3
    <2> QED BY <1>1, <1>3, <2>4, FS_Singleton
  <1> QED BY <1>2, <1>3

(* Closing the connection loses nothing of what may still be executed.      *)
LEMMA DisconnectKeeps ==
  ASSUME CallTypes, AskedOnce, Disconnected, served' = served
  PROVE  /\ sock' = FALSE /\ asked' = <<>> /\ inbox' = <<>> /\ torn' = FALSE
         /\ stray' \in [1..MaxCalls -> Nat]
         /\ \A c \in 1..MaxCalls : Tries(c)' = Tries(c)
  <1>1. sock' = FALSE /\ asked' = <<>> /\ inbox' = <<>> /\ torn' = FALSE
    BY DEF Disconnected
  <1>2. stray' = StrayWith(asked)
    BY DEF Disconnected
  <1>3. \A c \in 1..MaxCalls : stray'[c] = stray[c] + (IF Awaits(c) THEN 1 ELSE 0)
    BY <1>2, StrayCount
  <1>4. \A c \in 1..MaxCalls : stray'[c] \in Nat
    BY <1>3, CallNumbers
  <1>5. stray' \in [1..MaxCalls -> Nat]
    BY <1>2, <1>4 DEF StrayWith
  <1>6. \A c : ~Awaits(c)'
    BY <1>1 DEF Awaits
  <1>7. ASSUME NEW c \in 1..MaxCalls PROVE Tries(c)' = Tries(c)
    <2>1. Tries(c)' = served[c] + stray'[c] + 0
      BY <1>6 DEF Tries
    <2> QED BY <1>3, <2>1, CallNumbers DEF Tries
  <1> QED BY <1>1, <1>5, <1>7

(* The server takes the request at the head of the connection.              *)
LEMMA ServesKeeps ==
  ASSUME CallTypes, AskedOnce, Serves
  PROVE  /\ Head(asked).of \in 1..calls
         /\ asked' \in Seq(Asking(calls))
         /\ \A i, j \in DOMAIN asked' : i < j => asked'[i].of < asked'[j].of
         /\ \A c : Awaits(c)' <=> (Awaits(c) /\ c # Head(asked).of)
         /\ Awaits(Head(asked).of)
         /\ served' \in [1..MaxCalls -> Nat]
         /\ \A c \in 1..MaxCalls : Tries(c)' = Tries(c)
  <1>1. /\ asked # <<>> /\ asked' = Tail(asked) /\ UNCHANGED stray
        /\ served' = [served EXCEPT ![Head(asked).of] = @ + 1]
    BY DEF Serves, Served
  <1>2. /\ Head(asked) = asked[1] /\ 1 \in DOMAIN asked /\ Len(asked) \in Nat
        /\ DOMAIN asked = 1..Len(asked) /\ DOMAIN asked' = 1..(Len(asked) - 1)
        /\ \A i \in DOMAIN asked' : asked'[i] = asked[i + 1]
        /\ asked' \in Seq(Asking(calls))
    BY <1>1 DEF CallTypes
  <1>3. Head(asked).of \in 1..calls /\ \A i \in DOMAIN asked : asked[i].of \in Nat
    BY <1>2, AskedTypes
  <1>4. ASSUME NEW i \in DOMAIN asked', NEW j \in DOMAIN asked', i < j
        PROVE  asked'[i].of < asked'[j].of
    <2>1. i + 1 \in DOMAIN asked /\ j + 1 \in DOMAIN asked /\ i + 1 < j + 1
      BY <1>2, <1>4
    <2> QED BY <1>2, <2>1 DEF AskedOnce
  <1>5. ASSUME NEW c PROVE Awaits(c)' <=> (Awaits(c) /\ c # Head(asked).of)
    <2>1. ASSUME NEW i \in DOMAIN asked', asked'[i].of = c
          PROVE  Awaits(c) /\ c # Head(asked).of
      <3>1. i + 1 \in DOMAIN asked /\ 1 < i + 1 /\ asked[i + 1].of = c
        BY <1>2, <2>1
      <3>2. asked[1].of < c
        BY <1>2, <3>1 DEF AskedOnce
      <3> QED BY <1>2, <1>3, <3>1, <3>2 DEF Awaits
    <2>2. ASSUME NEW i \in DOMAIN asked, asked[i].of = c, c # Head(asked).of
          PROVE  Awaits(c)'
      <3>1. i # 1 /\ i - 1 \in DOMAIN asked' /\ (i - 1) + 1 = i
        BY <1>2, <2>2
      <3>2. asked'[i - 1] = asked[i]
        BY <1>2, <3>1
      <3> QED BY <2>2, <3>1, <3>2 DEF Awaits
    <2> QED BY <2>1, <2>2 DEF Awaits
  <1>6. Awaits(Head(asked).of)
    BY <1>2 DEF Awaits
  <1>7. Head(asked).of \in 1..MaxCalls
    BY <1>3, CallNumbers
  <1>8. served' \in [1..MaxCalls -> Nat]
    BY <1>1, <1>7 DEF CallTypes
  <1>9. ASSUME NEW c \in 1..MaxCalls PROVE Tries(c)' = Tries(c)
    <2>1. CASE c = Head(asked).of
      <3>1. served'[c] = served[c] + 1 /\ Awaits(c) /\ ~Awaits(c)'
        BY <1>1, <1>5, <1>6, <2>1 DEF CallTypes
      <3> QED BY <1>1, <3>1, CallNumbers DEF Tries
    <2>2. CASE c # Head(asked).of
      <3>1. served'[c] = served[c] /\ (Awaits(c)' <=> Awaits(c))
        BY <1>1, <1>5, <2>2 DEF CallTypes
      <3> QED BY <1>1, <3>1 DEF Tries
    <2> QED BY <2>1, <2>2
  <1> QED BY <1>2, <1>3, <1>4, <1>5, <1>6, <1>8, <1>9

-----------------------------------------------------------------------------
(* Each step keeps the account of the call.                                 *)

(* A function over the first two numbers is a sequence of two.              *)
LEMMA PairIsSeq ==
  ASSUME NEW R, NEW f \in [1..2 -> R]
  PROVE  f \in Seq(R) /\ Len(f) = 2
  <1>1. f = [i \in 1..2 |-> f[i]] /\ \A i \in 1..2 : f[i] \in R
    OBVIOUS
  <1>2. [i \in 1..2 |-> f[i]] \in Seq(R) /\ Len([i \in 1..2 |-> f[i]]) = 2
    BY <1>1
  <1> QED BY <1>1, <1>2

(* A sequence over a set is one over a larger set.                          *)
LEMMA SeqWidens ==
  ASSUME NEW S, NEW T, S \subseteq T, NEW s \in Seq(S)
  PROVE  s \in Seq(T)
  OBVIOUS

(* A concatenation.                                                         *)
LEMMA Joined ==
  ASSUME NEW S, NEW s \in Seq(S), NEW t \in Seq(S)
  PROVE  /\ s \o t \in Seq(S) /\ Len(s) \in Nat /\ Len(t) \in Nat
         /\ DOMAIN s = 1..Len(s) /\ DOMAIN (s \o t) = 1..(Len(s) + Len(t))
         /\ \A i \in 1..Len(s) : (s \o t)[i] = s[i]
         /\ \A i \in 1..Len(t) : (s \o t)[Len(s) + i] = t[i]
         /\ s = <<>> => s \o t = t
  OBVIOUS

(* What is left of a sequence.                                              *)
LEMMA Rest ==
  ASSUME NEW S, NEW s \in Seq(S), NEW n \in 1..Len(s)
  PROVE  /\ SubSeq(s, n + 1, Len(s)) \in Seq(S) /\ Len(s) \in Nat
         /\ DOMAIN SubSeq(s, n + 1, Len(s)) = 1..(Len(s) - n)
         /\ \A i \in 1..(Len(s) - n) : /\ SubSeq(s, n + 1, Len(s))[i] = s[i + n]
                                       /\ i + n \in DOMAIN s
         /\ n = Len(s) => SubSeq(s, n + 1, Len(s)) = <<>>
         /\ n < Len(s) \/ n = Len(s)
  OBVIOUS

(* A line is read as two pieces.                                            *)
LEMMA LineTypes ==
  ASSUME NEW k, NEW answer \in Said
  PROVE  \E a, b \in SUBSET Words : Line(k, answer) = <<a, b>>
  <1> DEFINE W == SUBSET Words
  <1>2. /\ {"error"} \in W /\ {"message"} \in W /\ {"result"} \in W /\ {} \in W
        /\ {"error", "LAMPORT_VIOLATION", "lamport_ts"} \in W
        /\ {"error", "ALREADY_ACTIVE"} \in W
        /\ {"result", "RATE_EXCEEDED"} \in W
        /\ {"fields", "milestone: false"} \in W
        /\ {"fields", "milestone: true"} \in W
    BY DEF Words
  <1> HIDE DEF W
  <1>3. CASE answer = "exception"
    <2>1. Line(k, answer) = <<{"error"}, {"message"}>>
      BY <1>3 DEF Line
    <2> QED BY <1>2, <2>1 DEF W
  <1>4. CASE answer = "violation"
    <2>1. Line(k, answer) = <<{"result"}, {"error", "LAMPORT_VIOLATION", "lamport_ts"}>>
      BY <1>4 DEF Line
    <2> QED BY <1>2, <2>1 DEF W
  <1>5. CASE answer = "active"
    <2>1. Line(k, answer) = <<{"result"}, {"error", "ALREADY_ACTIVE"}>>
      BY <1>5 DEF Line
    <2> QED BY <1>2, <2>1 DEF W
  <1>6. CASE answer = "limited"
    <2>1. Line(k, answer) = <<{"result", "RATE_EXCEEDED"}, {"fields", "milestone: false"}>>
      BY <1>6 DEF Line
    <2> QED BY <1>2, <2>1 DEF W
  <1>7. CASE answer = "milestone"
    <2>1. Line(k, answer) = <<{"result"}, {"fields", "milestone: true"}>>
      BY <1>7 DEF Line
    <2> QED BY <1>2, <2>1 DEF W
  <1>8. CASE answer = "ok" /\ k = "clicks"
    <2>1. Line(k, answer) = <<{"result"}, {"fields", "milestone: false"}>>
      BY <1>8 DEF Line
    <2> QED BY <1>2, <2>1 DEF W
  <1>9. CASE answer = "ok" /\ k # "clicks"
    <2>1. Line(k, answer) = <<{"result"}, {}>>
      BY <1>9 DEF Line
    <2> QED BY <1>2, <2>1 DEF W
  <1> QED BY <1>3, <1>4, <1>5, <1>6, <1>7, <1>8, <1>9 DEF Said

(* What of a line arrives in each of them.                                  *)
LEMMA PiecesTypes ==
  ASSUME NEW n, NEW r, r.of \in 1..n, NEW answer \in Said
  PROVE  /\ Pieces(r, answer) \in Seq(Answering(n)) /\ Len(Pieces(r, answer)) = 2
         /\ Pieces(r, answer) =
              [i \in 1..2 |-> [of |-> r.of, said |-> answer, words |-> Line(r.kind, answer)[i]]]
  <1> DEFINE W == SUBSET Words
  <1>1. PICK a \in W, b \in W : Line(r.kind, answer) = <<a, b>>
    BY LineTypes
  <1>2. Len(Line(r.kind, answer)) = 2 /\ \A i \in 1..2 : Line(r.kind, answer)[i] \in W
    <2> HIDE DEF W
    <2> QED BY <1>1
  <1>3. Pieces(r, answer) =
          [i \in 1..2 |-> [of |-> r.of, said |-> answer, words |-> Line(r.kind, answer)[i]]]
    BY <1>2 DEF Pieces
  <1>4. Pieces(r, answer) \in [1..2 -> Answering(n)]
    <2> DEFINE line == Line(r.kind, answer)
    <2>1. \A i \in 1..2 : [of |-> r.of, said |-> answer, words |-> line[i]] \in Answering(n)
      <3>1. \A i \in 1..2 : line[i] \in W
        BY <1>2
      <3> HIDE DEF line, W
      <3> QED BY <3>1 DEF Answering, W
    <2> HIDE DEF line
    <2> QED BY <1>3, <2>1 DEF line
  <1> QED BY <1>3, <1>4, PairIsSeq

(* An answer arrives behind those already there.                            *)
LEMMA AnswerArrives ==
  ASSUME NEW n, NEW h, h.of \in 1..n, NEW answer \in Said, NEW s \in Seq(Answering(n))
  PROVE  LET t == s \o Pieces(h, answer) IN
         /\ t \in Seq(Answering(n))
         /\ Len(s) \in Nat /\ DOMAIN s = 1..Len(s) /\ DOMAIN t = 1..(Len(s) + 2)
         /\ \A i \in 1..Len(s) : t[i] = s[i]
         /\ \A i \in 1..2 : t[Len(s) + i].of = h.of
         /\ s = <<>> => t = Pieces(h, answer)
  <1> DEFINE p == Pieces(h, answer)
  <1>1. p \in Seq(Answering(n)) /\ Len(p) = 2
    BY PiecesTypes
  <1>2. p = [i \in 1..2 |-> [of |-> h.of, said |-> answer, words |-> Line(h.kind, answer)[i]]]
    BY PiecesTypes
  <1> HIDE DEF p
  <1>3. \A i \in 1..2 : p[i].of = h.of
    BY <1>2
  <1>4. /\ s \o p \in Seq(Answering(n)) /\ Len(s) \in Nat
        /\ DOMAIN s = 1..Len(s) /\ DOMAIN (s \o p) = 1..(Len(s) + Len(p))
        /\ \A i \in 1..Len(s) : (s \o p)[i] = s[i]
        /\ \A i \in 1..Len(p) : (s \o p)[Len(s) + i] = p[i]
        /\ s = <<>> => s \o p = p
    <2>1. p \in Seq(Answering(n))
      BY <1>1
    <2>2. /\ s \o p \in Seq(Answering(n)) /\ Len(s) \in Nat
          /\ DOMAIN s = 1..Len(s) /\ DOMAIN (s \o p) = 1..(Len(s) + Len(p))
      BY <2>1, Joined
    <2>3. \A i \in 1..Len(s) : (s \o p)[i] = s[i]
      BY <2>1, Joined
    <2>4. \A i \in 1..Len(p) : (s \o p)[Len(s) + i] = p[i]
      BY <2>1, Joined
    <2>5. s = <<>> => s \o p = p
      BY <2>1, Joined
    <2> QED BY <2>2, <2>3, <2>4, <2>5
  <1>5. /\ DOMAIN (s \o p) = 1..(Len(s) + 2)
        /\ \A i \in 1..2 : (s \o p)[Len(s) + i].of = h.of
    BY <1>1, <1>3, <1>4
  <1> QED BY <1>4, <1>5 DEF p

(* A failed attempt leads to the next one or to rest.                       *)
LEMMA FailedAttempt ==
  ASSUME CallTypes, attempt > 0, NEW errors, AttemptFails(errors), sock' = FALSE
  PROVE  /\ pc' \in {"connect", "idle"} /\ UNCHANGED <<kind, calls>>
         /\ attempt' \in 1..Attempts /\ second' \in BOOLEAN
         /\ pc' = "connect" => attempt' = attempt + 1 /\ second' = FALSE /\ UNCHANGED result
         /\ pc' = "idle" => result'.ok = FALSE /\ result'.of = 0
  <1>1. CASE MoreAttempts
    <2>1. /\ attempt' = attempt + 1 /\ second' = FALSE /\ pc' = "connect"
          /\ UNCHANGED <<kind, calls, result>>
      BY <1>1 DEF AttemptFails, NextAttempt, Connecting
    <2>2. attempt < Attempts
      BY <1>1 DEF MoreAttempts
    <2>3. attempt' \in 1..Attempts
      BY <2>1, <2>2, CallNumbers
    <2> QED BY <2>1, <2>3
  <1>2. CASE ~MoreAttempts
    <2>1. PICK e \in errors : result' = [NoResult EXCEPT !.err = e]
      BY <1>2 DEF AttemptFails
    <2>2. result'.ok = FALSE /\ result'.of = 0
      BY <2>1 DEF NoResult
    <2>3. pc' = "idle" /\ UNCHANGED <<kind, attempt, second, calls>>
      BY <1>2 DEF AttemptFails
    <2>4. attempt' \in 1..Attempts
      BY <2>3, CallNumbers
    <2>5. second' \in BOOLEAN
      BY <2>3 DEF CallTypes
    <2> QED BY <2>2, <2>3, <2>4, <2>5
  <1> QED BY <1>1, <1>2

(* The connection is gone: the next attempt has spent what was asked for.   *)
LEMMA DroppedKeeps ==
  ASSUME CallInv, sock' = FALSE, asked' = <<>>, inbox' = <<>>, torn' = FALSE, served' = served,
         stray' \in [1..MaxCalls -> Nat], \A c \in 1..MaxCalls : Tries(c)' = Tries(c),
         pc' \in {"connect", "idle"}, UNCHANGED <<kind, calls>>,
         attempt' \in 0..Attempts, second' \in BOOLEAN,
         pc' = "connect" => attempt' > 0 /\ calls > 0 /\ Tries(calls) <= Spent'
  PROVE  CallInv'
  <1>1. CallTypes'
    <2>1. asked' \in Seq(Asking(calls')) /\ inbox' \in Seq(Answering(calls'))
      OBVIOUS
    <2>2. kind' \in Kinds /\ calls' \in 0..MaxCalls /\ served' \in [1..MaxCalls -> Nat]
      BY DEF CallInv, CallTypes
    <2>3. pc' \in Calling \cup Waiting /\ (pc' \in Calling => pc' = "connect")
      BY DEF Calling, Waiting
    <2> QED BY <2>1, <2>2, <2>3 DEF CallTypes
  <1>2. AskedOnce'
    BY DEF AskedOnce
  <1>3. Budget'
    <2>1. \A c \in 1..MaxCalls : Tries(c)' <= 2 * Attempts /\ (c > calls' => Tries(c)' = 0)
      BY DEF CallInv, Budget
    <2>2. pc' \in Calling => Tries(calls)' <= Spent'
      <3>1. pc' \in Calling => pc' = "connect" /\ calls \in 1..MaxCalls
        BY CallNumbers DEF Calling, CallInv
      <3> QED BY <3>1
    <2> QED BY <2>1, <2>2 DEF Budget
  <1>4. Delivered'
    BY DEF Delivered
  <1>5. Clean'
    BY DEF Clean
  <1> QED BY <1>1, <1>2, <1>3, <1>4, <1>5 DEF CallInv

(* The connection could not be made.                                        *)
LEMMA ConnectFailsKeeps == ASSUME CallInv, NoSocket \/ ConnectFails PROVE CallInv'
  <1> USE DEF discovery, wire, call
  <1>1. /\ pc \in {"connect", "connecting"} /\ UNCHANGED <<sock, asked, inbox, stray, torn, served>>
        /\ \E errors : AttemptFails(errors)
    BY DEF NoSocket, ConnectFails
  <1>2. ~sock /\ asked = <<>> /\ inbox = <<>> /\ ~torn /\ sock \in BOOLEAN /\ torn \in BOOLEAN
    BY <1>1 DEF CallInv, AskedOnce, CallTypes
  <1>3. CallTypes /\ pc \in Calling /\ calls > 0 /\ attempt > 0
    BY <1>1 DEF CallInv, CallTypes, Calling
  <1>4. /\ pc' \in {"connect", "idle"} /\ UNCHANGED <<kind, calls>>
        /\ attempt' \in 1..Attempts /\ second' \in BOOLEAN
        /\ pc' = "connect" => attempt' = attempt + 1 /\ second' = FALSE
    BY <1>1, <1>2, <1>3, FailedAttempt
  <1>5. Tries(calls) <= Spent /\ calls \in 1..MaxCalls
    BY <1>3, CallNumbers DEF CallInv, Budget
  <1>6. pc' = "connect" => Spent <= Spent' /\ Spent \in Int /\ Spent' \in Int
    BY <1>1, <1>3, <1>4, CallNumbers DEF Spent, CallTypes
  <1>7. pc' = "connect" => Tries(calls) <= Spent'
    BY <1>3, <1>5, <1>6, CallNumbers
  <1>8. \A c \in 1..MaxCalls : Tries(c)' = Tries(c)
    BY <1>1 DEF Tries, Awaits
  <1>9. attempt' \in 0..Attempts /\ attempt' > 0
    BY <1>4, CallNumbers, <1>3
  <1>10. stray' \in [1..MaxCalls -> Nat]
    BY <1>1, <1>3 DEF CallTypes
  <1> QED BY <1>1, <1>2, <1>3, <1>4, <1>7, <1>8, <1>9, <1>10, DroppedKeeps

(* A try failed: the connection is closed.                                  *)
LEMMA TryFailsKeeps == ASSUME CallInv, SendFails \/ RecvFails PROVE CallInv'
  <1>1. pc \in {"send", "recv"} /\ TryFails /\ Disconnected /\ served' = served
    BY DEF SendFails, RecvFails, TryFails
  <1>2. CallTypes /\ AskedOnce /\ pc \in Calling /\ calls > 0 /\ attempt > 0 /\ second \in BOOLEAN
    BY <1>1 DEF CallInv, CallTypes, Calling
  <1>3. /\ sock' = FALSE /\ asked' = <<>> /\ inbox' = <<>> /\ torn' = FALSE
        /\ stray' \in [1..MaxCalls -> Nat]
        /\ \A c \in 1..MaxCalls : Tries(c)' = Tries(c)
    BY <1>1, <1>2, DisconnectKeeps
  <1>4. Tries(calls) <= Spent /\ calls \in 1..MaxCalls /\ Tries(calls) \in Nat
    BY <1>2, CallNumbers DEF CallInv, Budget
  <1>5. CASE ~second
    <2>1. second' = TRUE /\ pc' = "connect" /\ UNCHANGED <<kind, attempt, calls>>
      BY <1>1, <1>3, <1>5 DEF TryFails, Connecting
    <2>2. Spent <= Spent' /\ Spent \in Int /\ Spent' \in Int
      BY <1>2, <1>5, <2>1, CallNumbers DEF Spent
    <2>3. Tries(calls) <= Spent'
      BY <1>4, <2>2
    <2>4. attempt' \in 0..Attempts
      BY <1>2, <2>1 DEF CallTypes
    <2> QED BY <1>1, <1>2, <1>3, <2>1, <2>3, <2>4, DroppedKeeps
  <1>6. CASE second
    <2>1. PICK errors : AttemptFails(errors)
      BY <1>1, <1>6 DEF TryFails
    <2>2. /\ pc' \in {"connect", "idle"} /\ UNCHANGED <<kind, calls>>
          /\ attempt' \in 1..Attempts /\ second' \in BOOLEAN
          /\ pc' = "connect" => attempt' = attempt + 1 /\ second' = FALSE
      BY <1>2, <1>3, <2>1, FailedAttempt
    <2>3. pc' = "connect" => Spent <= Spent' /\ Spent \in Int /\ Spent' \in Int
      BY <1>2, <1>6, <2>2, CallNumbers DEF Spent
    <2>4. pc' = "connect" => Tries(calls) <= Spent'
      BY <1>4, <2>3
    <2>5. attempt' \in 0..Attempts /\ attempt' > 0
      BY <1>2, <2>2, CallNumbers
    <2> QED BY <1>1, <1>2, <1>3, <2>2, <2>4, <2>5, DroppedKeeps
  <1> QED BY <1>2, <1>5, <1>6

(* The discovery, before any call.                                          *)
LEMMA QuietKeeps ==
  ASSUME CallInv, UNCHANGED <<wire, call, served>>,
         \/ pc' = pc
         \/ pc \in Waiting \ {"idle"} /\ pc' \in Waiting \ {"idle"}
  PROVE  CallInv'
  <1> USE DEF wire, call
  <1>1. CallTypes'
    BY DEF CallInv, CallTypes, Waiting, Calling
  <1>2. AskedOnce'
    BY DEF CallInv, AskedOnce, Awaits, Waiting
  <1>3. Budget'
    <2>1. \A c : Tries(c)' = Tries(c)
      BY DEF Tries, Awaits
    <2>2. pc' \in Calling => pc' = pc
      BY DEF Waiting, Calling
    <2>3. pc' = pc => Spent' = Spent
      BY DEF Spent
    <2> QED BY <2>1, <2>2, <2>3 DEF CallInv, Budget
  <1>4. Delivered'
    BY DEF CallInv, Delivered
  <1>5. Clean'
    <2>1. Current' = Current
      BY DEF Current
    <2>2. \A answer : Pieces(Current, answer)' = Pieces(Current, answer)
      BY <2>1 DEF Pieces
    <2> QED BY <2>1, <2>2 DEF CallInv, Clean, Waiting, Answers
  <1> QED BY <1>1, <1>2, <1>3, <1>4, <1>5 DEF CallInv

(* The server is set before the first call.                                 *)
LEMMA SetServerKeeps == ASSUME CallInv, SetServer PROVE CallInv'
  <1> USE DEF call
  <1>1. /\ CallTypes /\ AskedOnce /\ Disconnected /\ served' = served /\ pc' = "idle"
        /\ UNCHANGED <<kind, attempt, second, calls>>
    BY DEF SetServer, CallInv
  <1>2. /\ sock' = FALSE /\ asked' = <<>> /\ inbox' = <<>> /\ torn' = FALSE
        /\ stray' \in [1..MaxCalls -> Nat]
        /\ \A c \in 1..MaxCalls : Tries(c)' = Tries(c)
    BY <1>1, DisconnectKeeps
  <1>3. attempt' \in 0..Attempts /\ second' \in BOOLEAN
    BY <1>1 DEF CallTypes
  <1> QED BY <1>1, <1>2, <1>3, DroppedKeeps

(* A call starts: its number is new to the server.                          *)
LEMMA BeginKeeps == ASSUME CallInv, Begin PROVE CallInv'
  <1> USE DEF discovery, wire
  <1>1. /\ pc = "idle" /\ calls < MaxCalls /\ calls' = calls + 1 /\ kind' \in Kinds
        /\ attempt' = 1 /\ second' = FALSE /\ UNCHANGED <<sock, asked, inbox, stray, torn, served>>
        /\ pc' = IF sock THEN "send" ELSE "connect"
    BY DEF Begin, Connecting
  <1>2. CallTypes /\ AskedOnce /\ Budget /\ Delivered /\ Clean
    BY DEF CallInv
  <1>3. calls' \in 1..MaxCalls /\ calls' > calls /\ calls \in Nat /\ 1..calls \subseteq 1..calls'
    BY <1>1, <1>2, CallNumbers
  <1>4. ~Awaits(calls')
    BY <1>2, <1>3, AskedTypes DEF Awaits
  <1>5. CallTypes'
    <2>1. Asking(calls) \subseteq Asking(calls') /\ Answering(calls) \subseteq Answering(calls')
      BY <1>3 DEF Asking, Answering
    <2>2. asked \in Seq(Asking(calls)) /\ inbox \in Seq(Answering(calls))
      BY <1>2 DEF CallTypes
    <2>3. asked' \in Seq(Asking(calls')) /\ inbox' \in Seq(Answering(calls'))
      <3>1. asked \in Seq(Asking(calls')) /\ inbox \in Seq(Answering(calls'))
        BY <2>1, <2>2, SeqWidens
      <3> QED BY <1>1, <3>1
    <2>5. calls' \in 0..MaxCalls /\ calls' > 0 /\ attempt' \in 0..Attempts /\ attempt' > 0
      BY <1>1, <1>2, <1>3, CallNumbers
    <2>6. pc' \in Calling /\ sock' \in BOOLEAN /\ torn' \in BOOLEAN /\ second' \in BOOLEAN
      BY <1>1, <1>2 DEF CallTypes, Calling
    <2>7. served' \in [1..MaxCalls -> Nat] /\ stray' \in [1..MaxCalls -> Nat]
      BY <1>1, <1>2 DEF CallTypes
    <2> QED BY <1>1, <2>3, <2>5, <2>6, <2>7 DEF CallTypes
  <1>6. AskedOnce'
    <2>1. pc' = "send" => ~Awaits(calls)'
      BY <1>1, <1>4 DEF Awaits
    <2>2. /\ pc' \in {"send", "recv"} => sock'
          /\ pc' \in {"connect", "connecting"} \cup (Waiting \ {"idle"}) => ~sock'
      BY <1>1 DEF Waiting
    <2> QED BY <1>1, <1>2, <2>1, <2>2 DEF AskedOnce
  <1>7. Budget'
    <2>1. \A c : Tries(c)' = Tries(c)
      BY <1>1 DEF Tries, Awaits
    <2>2. \A c \in 1..MaxCalls : Tries(c) <= 2 * Attempts /\ (c > calls' => Tries(c) = 0)
      BY <1>2, <1>3 DEF Budget
    <2>3. Tries(calls)' = 0
      BY <1>2, <1>3, <2>1 DEF Budget
    <2>4. Spent' = 0
      BY <1>1 DEF Spent
    <2> QED BY <2>1, <2>2, <2>3, <2>4 DEF Budget
  <1>8. Delivered'
    BY <1>1, <1>2 DEF Delivered
  <1>9. Clean'
    BY <1>1, <1>2 DEF Clean
  <1> QED BY <1>5, <1>6, <1>7, <1>8, <1>9 DEF CallInv

(* A new connection carries nothing yet.                                    *)
LEMMA ConnectKeeps == ASSUME CallInv, SocketAllocated \/ Connects PROVE CallInv'
  <1> USE DEF call
  <1>1. /\ pc \in {"connect", "connecting"} /\ pc' \in {"connecting", "send"}
        /\ sock' = IF pc' = "send" THEN TRUE ELSE sock
        /\ UNCHANGED <<kind, attempt, second, calls, asked, inbox, stray, torn, served>>
    BY DEF SocketAllocated, Connects
  <1>2. CallTypes /\ AskedOnce /\ Budget /\ Delivered /\ Clean
    BY DEF CallInv
  <1>3. ~sock /\ asked = <<>> /\ inbox = <<>> /\ ~torn
    BY <1>1, <1>2 DEF AskedOnce
  <1>4. pc \in Calling /\ pc' \in Calling
    BY <1>1 DEF Calling
  <1>5. CallTypes'
    BY <1>1, <1>2, <1>4 DEF CallTypes
  <1>6. AskedOnce'
    BY <1>1, <1>3 DEF AskedOnce, Awaits, Waiting
  <1>7. Budget'
    <2>1. \A c : Tries(c)' = Tries(c)
      BY <1>1 DEF Tries, Awaits
    <2>2. Spent' = Spent
      BY <1>1 DEF Spent
    <2> QED BY <1>1, <1>2, <1>4, <2>1, <2>2 DEF Budget
  <1>8. Delivered'
    BY <1>1, <1>2 DEF Delivered
  <1>9. Clean'
    BY <1>1, <1>3 DEF Clean
  <1> QED BY <1>5, <1>6, <1>7, <1>8, <1>9 DEF CallInv

(* The request is written: the try is spent.                                *)
LEMMA SendsKeeps == ASSUME CallInv, Sends PROVE CallInv'
  <1> USE DEF call
  <1>1. /\ pc = "send" /\ pc' = "recv" /\ asked' = Append(asked, Current)
        /\ UNCHANGED <<kind, attempt, second, calls, sock, inbox, stray, torn, served>>
    BY DEF Sends, Current
  <1>2. CallTypes /\ AskedOnce /\ Budget /\ Delivered /\ Clean
    BY DEF CallInv
  <1>3. pc \in Calling /\ pc' \in Calling /\ calls \in 1..MaxCalls /\ attempt > 0 /\ sock
    BY <1>1, <1>2, CallNumbers DEF Calling, CallTypes, AskedOnce
  <1>4. Current \in Asking(calls)
    BY <1>2, <1>3, CallNumbers DEF Current, CallTypes, Asking
  <1>5. /\ asked' \in Seq(Asking(calls))
        /\ DOMAIN asked = 1..Len(asked) /\ Len(asked) \in Nat
        /\ DOMAIN asked' = 1..(Len(asked) + 1)
        /\ \A i \in DOMAIN asked : asked'[i] = asked[i]
        /\ asked'[Len(asked) + 1] = Current
    <2>1. asked \in Seq(Asking(calls))
      BY <1>2 DEF CallTypes
    <2>2. /\ Append(asked, Current) \in Seq(Asking(calls))
          /\ DOMAIN asked = 1..Len(asked) /\ Len(asked) \in Nat
          /\ DOMAIN Append(asked, Current) = 1..(Len(asked) + 1)
          /\ \A i \in DOMAIN asked : Append(asked, Current)[i] = asked[i]
          /\ Append(asked, Current)[Len(asked) + 1] = Current
      BY <1>4, <2>1
    <2> QED BY <1>1, <2>2
  <1>6. ~Awaits(calls) /\ Current.of = calls
    BY <1>1, <1>2 DEF AskedOnce, Current
  <1>7. \A i \in DOMAIN asked : asked[i].of < calls /\ i \in Nat /\ i # Len(asked) + 1
    BY <1>2, <1>3, <1>5, <1>6, AskedTypes, CallNumbers DEF Awaits
  <1>8. \A c : Awaits(c)' <=> Awaits(c) \/ c = calls
    BY <1>5, <1>6 DEF Awaits
  <1>9. \A c \in 1..MaxCalls : Tries(c)' = IF c = calls THEN Tries(c) + 1 ELSE Tries(c)
    BY <1>1, <1>2, <1>6, <1>8, CallNumbers DEF Tries
  <1>10. CallTypes'
    BY <1>1, <1>2, <1>3, <1>5 DEF CallTypes
  <1>11. AskedOnce'
    <2>1. ASSUME NEW i \in DOMAIN asked', NEW j \in DOMAIN asked', i < j
          PROVE  asked'[i].of < asked'[j].of
      <3>1. CASE j = Len(asked) + 1
        <4>1. i \in DOMAIN asked
          BY <1>5, <2>1, <3>1
        <4> QED BY <1>5, <1>6, <1>7, <3>1, <4>1
      <3>2. CASE j # Len(asked) + 1
        <4>1. i \in DOMAIN asked /\ j \in DOMAIN asked
          BY <1>5, <2>1, <3>2
        <4> QED BY <1>2, <1>5, <2>1, <4>1 DEF AskedOnce
      <3> QED BY <3>1, <3>2
    <2> QED BY <1>1, <1>3, <2>1 DEF AskedOnce, Waiting
  <1>12. Budget'
    <2>1. Tries(calls) <= Spent /\ Tries(calls) \in Nat
      BY <1>2, <1>3, CallNumbers DEF Budget
    <2>2. Spent' = Spent + 1 /\ Spent' <= 2 * Attempts /\ Spent \in Int
      BY <1>1, <1>2, <1>3, CallNumbers DEF Spent
    <2>3. Tries(calls)' <= Spent'
      BY <1>1, <1>3, <1>9, <2>1, <2>2
    <2>4. \A c \in 1..MaxCalls : Tries(c)' <= 2 * Attempts /\ (c > calls => Tries(c)' = 0)
      BY <1>2, <1>3, <1>9, <2>1, <2>2, CallNumbers DEF Budget
    <2> QED BY <1>1, <2>3, <2>4 DEF Budget
  <1>13. Delivered'
    BY <1>1, <1>2 DEF Delivered
  <1>14. Clean'
    <2>1. ~torn => asked = <<>> /\ inbox = <<>>
      BY <1>1, <1>2 DEF Clean
    <2>2. asked = <<>> => asked' = <<Current>>
      BY <1>1
    <2>3. Current' = Current
      BY <1>1 DEF Current
    <2> QED BY <1>1, <2>1, <2>2, <2>3 DEF Clean
  <1> QED BY <1>10, <1>11, <1>12, <1>13, <1>14 DEF CallInv

(* The server executes the oldest request of the connection and answers it. *)
LEMMA ServeKeeps == ASSUME CallInv, Serves PROVE CallInv'
  <1> USE DEF discovery, call
  <1> DEFINE h == Head(asked)
  <1>1. /\ asked # <<>> /\ asked' = Tail(asked) /\ Served(h.of)
        /\ UNCHANGED <<pc, kind, attempt, second, calls, sock, stray, torn>>
    BY DEF Serves
  <1>2. PICK answer \in Answers(h.kind) : inbox' = inbox \o Pieces(h, answer)
    BY DEF Serves
  <1>3. CallTypes /\ AskedOnce /\ Budget /\ Delivered /\ Clean
    BY DEF CallInv
  <1>4. /\ h.of \in 1..calls
        /\ asked' \in Seq(Asking(calls))
        /\ \A i, j \in DOMAIN asked' : i < j => asked'[i].of < asked'[j].of
        /\ \A c : Awaits(c)' <=> (Awaits(c) /\ c # h.of)
        /\ served' \in [1..MaxCalls -> Nat]
        /\ \A c \in 1..MaxCalls : Tries(c)' = Tries(c)
    BY <1>3, ServesKeeps
  <1>5. answer \in Said
    BY <1>2 DEF Answers, Said
  <1>7. /\ inbox' \in Seq(Answering(calls)) /\ DOMAIN inbox = 1..Len(inbox) /\ Len(inbox) \in Nat
        /\ DOMAIN inbox' = 1..(Len(inbox) + 2)
        /\ \A i \in 1..Len(inbox) : inbox'[i] = inbox[i]
        /\ \A i \in 1..2 : inbox'[Len(inbox) + i].of = h.of
        /\ inbox = <<>> => inbox' = Pieces(h, answer)
    <2>1. inbox \in Seq(Answering(calls))
      BY <1>3 DEF CallTypes
    <2>2. h.of \in 1..calls
      BY <1>4
    <2> DEFINE t == inbox \o Pieces(h, answer)
    <2> HIDE DEF h
    <2>3. t \in Seq(Answering(calls))
      BY <1>5, <2>1, <2>2, AnswerArrives
    <2>4. Len(inbox) \in Nat /\ DOMAIN inbox = 1..Len(inbox) /\ DOMAIN t = 1..(Len(inbox) + 2)
      BY <1>5, <2>1, <2>2, AnswerArrives
    <2>5. \A i \in 1..Len(inbox) : t[i] = inbox[i]
      BY <1>5, <2>1, <2>2, AnswerArrives
    <2>6. \A i \in 1..2 : t[Len(inbox) + i].of = h.of
      BY <1>5, <2>1, <2>2, AnswerArrives
    <2>7. inbox = <<>> => t = Pieces(h, answer)
      BY <1>5, <2>1, <2>2, AnswerArrives
    <2> QED BY <1>2, <2>3, <2>4, <2>5, <2>6, <2>7
  <1>8. CallTypes'
    BY <1>1, <1>3, <1>4, <1>7 DEF CallTypes
  <1>9. AskedOnce'
    BY <1>1, <1>3, <1>4 DEF AskedOnce
  <1>10. Budget'
    <2>1. Spent' = Spent
      BY <1>1 DEF Spent
    <2>2. pc' \in Calling => calls \in 1..MaxCalls
      BY <1>1, <1>3, CallNumbers DEF CallTypes
    <2> QED BY <1>1, <1>3, <1>4, <2>1, <2>2 DEF Budget
  <1>11. Delivered'
    <2>1. served' = [served EXCEPT ![h.of] = @ + 1] /\ h.of \in 1..MaxCalls
      BY <1>1, <1>3, <1>4, CallNumbers DEF Served
    <2>2. \A c \in 1..MaxCalls : served[c] > 0 => served'[c] > 0
      BY <1>3, <2>1, CallNumbers DEF CallTypes
    <2>3. served'[h.of] > 0
      BY <1>3, <2>1, CallNumbers DEF CallTypes
    <2>4. ASSUME NEW i \in 1..Len(inbox) PROVE served'[inbox'[i].of] > 0
      <3>1. inbox[i].of \in 1..MaxCalls
        <4>1. inbox[i].of \in 1..calls /\ calls <= MaxCalls /\ calls \in Nat /\ MaxCalls \in Nat
          BY <1>3, <1>7, InboxTypes, CallNumbers
        <4> QED BY <4>1
      <3> QED BY <1>3, <1>7, <2>2, <3>1 DEF Delivered
    <2>5. ASSUME NEW i \in 1..(Len(inbox) + 2), i \notin 1..Len(inbox) PROVE served'[inbox'[i].of] > 0
      <3>1. i - Len(inbox) \in 1..2 /\ i = Len(inbox) + (i - Len(inbox))
        BY <1>7, <2>5
      <3>2. inbox'[i].of = h.of
        BY <1>7, <3>1
      <3> QED BY <2>3, <3>2
    <2> QED BY <1>7, <2>4, <2>5 DEF Delivered
  <1>12. Clean'
    <2>1. CASE torn
      BY <1>1, <2>1 DEF Clean
    <2>2. CASE ~torn
      <3>1. pc = "recv" /\ asked = <<Current>> /\ inbox = <<>>
        BY <1>1, <1>3, <2>2 DEF Clean
      <3>2. h = Current /\ h.kind = kind /\ asked' = <<>>
        BY <1>1, <3>1 DEF Current
      <3>3. inbox' = Pieces(Current, answer)
        BY <1>7, <3>1, <3>2
      <3>4. Current' = Current /\ Answers(kind)' = Answers(kind)
        BY <1>1 DEF Current, Answers
      <3>5. Pieces(Current, answer)' = Pieces(Current, answer)
        BY <3>4 DEF Pieces
      <3> QED BY <1>1, <1>2, <3>1, <3>2, <3>3, <3>4, <3>5 DEF Clean
    <2> QED BY <2>1, <2>2
  <1> QED BY <1>8, <1>9, <1>10, <1>11, <1>12 DEF CallInv

(* A request of a closed connection is executed after all.                  *)
LEMMA ServesStrayKeeps == ASSUME CallInv, NEW c \in 1..MaxCalls, ServesStray(c) PROVE CallInv'
  <1> USE DEF discovery, call
  <1>1. /\ stray[c] > 0 /\ stray' = [stray EXCEPT ![c] = @ - 1]
        /\ served' = [served EXCEPT ![c] = @ + 1]
        /\ UNCHANGED <<pc, kind, attempt, second, calls, sock, asked, inbox, torn>>
    BY DEF ServesStray, Served
  <1>2. CallTypes /\ AskedOnce /\ Budget /\ Delivered /\ Clean
    BY DEF CallInv
  <1>3. /\ \A d \in 1..MaxCalls : served'[d] = IF d = c THEN served[d] + 1 ELSE served[d]
        /\ \A d \in 1..MaxCalls : stray'[d] = IF d = c THEN stray[d] - 1 ELSE stray[d]
        /\ served' \in [1..MaxCalls -> Nat] /\ stray' \in [1..MaxCalls -> Nat]
    BY <1>1, <1>2, CallNumbers DEF CallTypes
  <1>4. \A d \in 1..MaxCalls : Tries(d)' = Tries(d)
    <2>1. \A d : Awaits(d)' <=> Awaits(d)
      BY <1>1 DEF Awaits
    <2> QED BY <1>2, <1>3, <2>1, CallNumbers DEF Tries
  <1>5. CallTypes'
    BY <1>1, <1>2, <1>3 DEF CallTypes
  <1>6. AskedOnce'
    BY <1>1, <1>2 DEF AskedOnce, Awaits
  <1>7. Budget'
    <2>1. Spent' = Spent
      BY <1>1 DEF Spent
    <2>2. pc' \in Calling => calls \in 1..MaxCalls
      BY <1>1, <1>2, CallNumbers DEF CallTypes
    <2> QED BY <1>1, <1>2, <1>4, <2>1, <2>2 DEF Budget
  <1>8. Delivered'
    <2>1. \A d \in 1..MaxCalls : served[d] > 0 => served'[d] > 0
      BY <1>2, <1>3, CallNumbers
    <2>2. ASSUME NEW i \in DOMAIN inbox PROVE inbox[i].of \in 1..MaxCalls
      BY <1>2, InboxTypes, CallNumbers
    <2> QED BY <1>1, <1>2, <2>1, <2>2 DEF Delivered
  <1>9. Clean'
    <2>1. Current' = Current /\ Answers(kind)' = Answers(kind)
      BY <1>1 DEF Current, Answers
    <2>2. \A answer : Pieces(Current, answer)' = Pieces(Current, answer)
      BY <2>1 DEF Pieces
    <2> QED BY <1>1, <1>2, <2>1, <2>2 DEF Clean
  <1> QED BY <1>5, <1>6, <1>7, <1>8, <1>9 DEF CallInv

(* The answer, or its beginning, is read: the call ends.                    *)
LEMMA ReceivesKeeps == ASSUME CallInv, Receives PROVE CallInv'
  <1>1. /\ pc = "recv" /\ inbox # <<>> /\ pc' = "idle"
        /\ UNCHANGED <<kind, attempt, second, calls, sock, asked, stray, served>>
    BY DEF Receives
  <1>2. PICK n \in 1..Len(inbox) : /\ inbox' = SubSeq(inbox, n + 1, Len(inbox))
                                   /\ torn' = (torn \/ n < Len(inbox))
    BY DEF Receives
  <1>3. CallTypes /\ AskedOnce /\ Budget /\ Delivered /\ Clean
    BY DEF CallInv
  <1>4. /\ inbox' \in Seq(Answering(calls)) /\ Len(inbox) \in Nat
        /\ DOMAIN inbox' = 1..(Len(inbox) - n)
        /\ \A i \in 1..(Len(inbox) - n) : inbox'[i] = inbox[i + n] /\ i + n \in DOMAIN inbox
        /\ n = Len(inbox) => inbox' = <<>>
        /\ n < Len(inbox) \/ n = Len(inbox)
    <2>1. inbox \in Seq(Answering(calls))
      BY <1>3 DEF CallTypes
    <2> QED BY <1>2, <2>1, Rest
  <1>5. CallTypes'
    <2>1. torn' \in BOOLEAN
      BY <1>2, <1>3 DEF CallTypes
    <2> QED BY <1>1, <1>3, <1>4, <2>1 DEF CallTypes, Waiting, Calling
  <1>6. AskedOnce'
    BY <1>1, <1>3 DEF AskedOnce, Waiting
  <1>7. Budget'
    <2>1. \A c : Tries(c)' = Tries(c)
      BY <1>1 DEF Tries, Awaits
    <2> QED BY <1>1, <1>3, <2>1 DEF Budget, Calling
  <1>8. Delivered'
    <2>1. ASSUME NEW i \in DOMAIN inbox' PROVE inbox'[i] = inbox[i + n] /\ i + n \in DOMAIN inbox
      BY <1>4
    <2> QED BY <1>1, <1>3, <2>1 DEF Delivered
  <1>9. Clean'
    <2>1. ~torn' => ~torn /\ n = Len(inbox)
      BY <1>2, <1>4
    <2>2. ~torn' => inbox' = <<>> /\ asked' = <<>>
      BY <1>1, <1>3, <1>4, <2>1 DEF Clean
    <2> QED BY <1>1, <2>2 DEF Clean
  <1> QED BY <1>5, <1>6, <1>7, <1>8, <1>9 DEF CallInv

(* Every step keeps the account of the call.                                *)
LEMMA StepCall == ASSUME CallInv, [Next]_vars PROVE CallInv'
  <1> USE DEF discovery, wire, call
  <1>1. CASE DiscoveryStarts \/ PollEnds \/ Removed \/ AddrCopied \/ PortCopied
    BY <1>1, QuietKeeps DEF DiscoveryStarts, PollEnds, Removed, AddrCopied, PortCopied, Waiting
  <1>2. CASE NoSocket \/ ConnectFails
    BY <1>2, ConnectFailsKeeps
  <1>3. CASE SendFails \/ RecvFails
    BY <1>3, TryFailsKeeps
  <1>4. CASE SocketAllocated \/ Connects
    BY <1>4, ConnectKeeps
  <1>5. CASE SetServer \/ Begin \/ Sends \/ Receives \/ Serves
    BY <1>5, SetServerKeeps, BeginKeeps, SendsKeeps, ReceivesKeeps, ServeKeeps
  <1>6. CASE \E c \in 1..MaxCalls : ServesStray(c)
    BY <1>6, ServesStrayKeeps
  <1>7. CASE \E a \in Announcements : Announce(a)
    BY <1>7, QuietKeeps DEF Announce
  <1>8. CASE UNCHANGED vars
    BY <1>8, QuietKeeps DEF vars
  <1> QED BY <1>1, <1>2, <1>3, <1>4, <1>5, <1>6, <1>7, <1>8 DEF Next, DiscoveryStep, CallStep

(* At the start nothing has been asked for.                                 *)
LEMMA InitCall == Init => CallInv
  <1> SUFFICES ASSUME Init PROVE CallInv
    OBVIOUS
  <1>1. /\ pc = "boot" /\ sock = FALSE /\ torn = FALSE /\ second = FALSE /\ attempt = 0
        /\ calls = 0 /\ kind = "register" /\ asked = <<>> /\ inbox = <<>>
        /\ stray = [c \in 1..MaxCalls |-> 0] /\ served = [c \in 1..MaxCalls |-> 0]
    BY DEF Init
  <1>2. CallTypes
    <2>1. asked \in Seq(Asking(calls)) /\ inbox \in Seq(Answering(calls))
      BY <1>1
    <2>2. calls \in 0..MaxCalls /\ attempt \in 0..Attempts
      BY <1>1, RpcClientAssumption DEF RpcClientAssumption
    <2>3. served \in [1..MaxCalls -> Nat] /\ stray \in [1..MaxCalls -> Nat]
      BY <1>1
    <2> QED BY <1>1, <2>1, <2>2, <2>3 DEF CallTypes, Calling, Waiting, Kinds
  <1>3. \A c : ~Awaits(c)
    BY <1>1 DEF Awaits
  <1>4. \A c \in 1..MaxCalls : Tries(c) = 0
    BY <1>1, <1>3 DEF Tries
  <1>5. Budget
    BY <1>1, <1>2, <1>4, CallNumbers DEF Budget, Calling
  <1>6. AskedOnce /\ Delivered /\ Clean
    BY <1>1 DEF AskedOnce, Delivered, Clean
  <1> QED BY <1>2, <1>5, <1>6 DEF CallInv

-----------------------------------------------------------------------------
(* Types.                                                                   *)
PortTypes ==
  /\ found.ok \in BOOLEAN /\ found.port \in Ports /\ out.port \in Ports
  /\ announced \subseteq Announcements

(* The conversion to 16 bits.                                               *)
LEMMA InPorts == 0 \in Ports /\ \A p \in Int : p % 65536 \in Ports
  BY DEF Ports

(* The discovery stores ports of 16 bits.                                   *)
LEMMA StepPorts == ASSUME Shapes, PortTypes, [Next]_vars PROVE PortTypes'
  <1> USE DEF discovery
  <1>1. ASSUME NEW a \in Announcements, Announce(a) PROVE PortTypes'
    <2>1. found' = [ok |-> TRUE, addr |-> a.addr, port |-> a.port % 65536]
      BY <1>1 DEF Announce
    <2>2. a.port % 65536 \in Ports
      <3>1. a.port \in Int
        BY RpcClientAssumption DEF RpcClientAssumption
      <3> QED BY <3>1, InPorts
    <2>3. found'.ok \in BOOLEAN /\ found'.port \in Ports
      BY <2>1, <2>2
    <2>4. announced' \subseteq Announcements /\ out' = out
      BY <1>1 DEF Announce, PortTypes
    <2> QED BY <2>3, <2>4 DEF PortTypes
  <1>2. CASE DiscoveryStarts
    <2>1. found'.ok = FALSE /\ found'.port = 0 /\ UNCHANGED <<out, announced>>
      BY <1>2 DEF DiscoveryStarts, Shapes
    <2>2. found'.ok \in BOOLEAN
      BY <2>1
    <2>3. found'.port \in Ports
      BY <2>1, InPorts
    <2> QED BY <2>1, <2>2, <2>3 DEF PortTypes
  <1>3. CASE PollEnds \/ Removed
    BY <1>3 DEF PollEnds, Removed, PortTypes
  <1>4. CASE AddrCopied \/ PortCopied
    <2>1. out'.port \in {out.port, found.port} /\ UNCHANGED <<found, announced>>
      BY <1>4 DEF AddrCopied, PortCopied, Shapes, Pair
    <2> QED BY <2>1 DEF PortTypes
  <1>5. CASE SetServer
    <2>1. out'.port = 0 /\ UNCHANGED <<found, announced>>
      BY <1>5 DEF SetServer, Pair
    <2> QED BY <2>1, InPorts DEF PortTypes
  <1>6. CASE Begin \/ CallStep
    BY <1>6, CallGoesOn DEF PortTypes
  <1>7. CASE Serves \/ \E c \in 1..MaxCalls : ServesStray(c)
    BY <1>7 DEF Serves, ServesStray, PortTypes
  <1>8. CASE UNCHANGED vars
    BY <1>8 DEF vars, PortTypes
  <1> QED BY <1>1, <1>2, <1>3, <1>4, <1>5, <1>6, <1>7, <1>8 DEF Next, DiscoveryStep

(* The discovery and the client keep their types.                           *)
THEOREM RpcTypes == Spec => []TypeOK
  <1>1. Init => CallInv /\ TargetInv /\ PortTypes
    <2>1. Init => PortTypes /\ TargetInv
      BY DEF Init, PortTypes, Ports, TargetInv, Shapes, FoundInv, TargetIsAnnounced, Calling, Pair
    <2> QED BY <2>1, InitCall
  <1>2. CallInv /\ TargetInv /\ PortTypes /\ [Next]_vars => (CallInv /\ TargetInv /\ PortTypes)'
    BY StepCall, StepTarget, StepPorts DEF TargetInv
  <1>3. CallInv /\ PortTypes => TypeOK
    <2> SUFFICES ASSUME CallInv, PortTypes PROVE TypeOK
      OBVIOUS
    <2>1. CallTypes
      BY DEF CallInv
    <2>2. \A i \in DOMAIN inbox : inbox[i].of \in 1..calls
      BY <2>1, InboxTypes
    <2>3. asked \in Seq([of : 1..calls, kind : Kinds])
      BY <2>1 DEF CallTypes, Asking
    <2> QED BY <2>1, <2>2, <2>3, Zenon DEF CallTypes, PortTypes, TypeOK
  <1> QED BY <1>1, <1>2, <1>3, PTL DEF Spec

-----------------------------------------------------------------------------
(* The promise to task_rpc.                                                 *)

(* A step that leaves the promise's state alone.                            *)
LEMMA PromiseStutters ==
  ASSUME UNCHANGED <<calls, served, torn>>, result' = result, pc' \in Calling <=> pc \in Calling
  PROVE  UNCHANGED Promise!vars
  <1>1. (pc \in Calling)' = (pc \in Calling)
    <2>1. CASE pc \in Calling
      <3>1. pc' \in Calling
        BY <2>1
      <3> QED BY <2>1, <3>1
    <2>2. CASE pc \notin Calling
      <3>1. pc' \notin Calling
        BY <2>2
      <3> QED BY <2>2, <3>1
    <2> QED BY <2>1, <2>2
  <1> QED BY <1>1 DEF Promise!vars

(* A call that gives up has no outcome.                                     *)
LEMMA GivesUp ==
  ASSUME CallInv, pc \in Calling, pc' = "idle", UNCHANGED <<calls, served>>,
         result'.ok = FALSE, result'.of = 0, torn' \in BOOLEAN
  PROVE  Promise!End
  <1>1. (pc \in Calling)' = FALSE
    <2>1. pc' \notin Calling
      BY DEF Calling
    <2> QED BY <2>1
  <1>2. [ok |-> result'.ok, of |-> result'.of] \in Promise!Outcomes
    <2>1. 0 \in 0..MaxCalls
      BY CallNumbers DEF CallInv
    <2>2. result'.ok \in BOOLEAN /\ result'.of \in 0..MaxCalls
      BY <2>1
    <2> QED BY <2>2 DEF Promise!Outcomes
  <1> QED BY <1>1, <1>2 DEF Promise!End

(* A failure leads to the next attempt or to a call without an outcome.     *)
LEMMA FailuresEnd ==
  ASSUME CallInv, NoSocket \/ ConnectFails \/ SendFails \/ RecvFails
  PROVE  /\ pc' \in {"connect", "idle"} /\ UNCHANGED calls
         /\ pc' = "connect" => result' = result
         /\ pc' = "idle" => result'.ok = FALSE /\ result'.of = 0
  <1>1. CallTypes /\ attempt > 0
    BY DEF CallInv, CallTypes, Calling, NoSocket, ConnectFails, SendFails, RecvFails
  <1>2. sock' = FALSE
    <2>1. CASE NoSocket \/ ConnectFails
      BY <2>1 DEF NoSocket, ConnectFails, wire, CallInv, AskedOnce, CallTypes
    <2>2. CASE SendFails \/ RecvFails
      BY <2>2 DEF SendFails, RecvFails, TryFails, Disconnected
    <2> QED BY <2>1, <2>2
  <1>3. ASSUME \E errors : AttemptFails(errors)
        PROVE  /\ pc' \in {"connect", "idle"} /\ UNCHANGED calls
               /\ pc' = "connect" => result' = result
               /\ pc' = "idle" => result'.ok = FALSE /\ result'.of = 0
    BY <1>1, <1>2, <1>3, FailedAttempt
  <1>4. CASE NoSocket \/ ConnectFails
    BY <1>3, <1>4 DEF NoSocket, ConnectFails
  <1>5. CASE SendFails \/ RecvFails
    <2>1. TryFails
      BY <1>5 DEF SendFails, RecvFails
    <2>2. CASE ~second
      BY <1>2, <2>1, <2>2 DEF TryFails, Connecting
    <2>3. CASE second
      BY <1>3, <2>1, <2>3 DEF TryFails
    <2> QED BY <2>2, <2>3
  <1> QED BY <1>4, <1>5

(* A failed attempt ends the call, or it goes on with a new connection.     *)
LEMMA FailuresPromised ==
  ASSUME CallInv, NoSocket \/ ConnectFails \/ SendFails \/ RecvFails
  PROVE  Promise!Next \/ UNCHANGED Promise!vars
  <1> USE DEF discovery, wire
  <1>1. pc \in Calling /\ served' = served /\ torn \in BOOLEAN
    BY DEF CallInv, CallTypes, Calling, NoSocket, ConnectFails, SendFails, RecvFails
  <1>2. /\ NoSocket \/ ConnectFails => torn' = torn
        /\ SendFails \/ RecvFails => torn' = FALSE
    BY DEF NoSocket, ConnectFails, SendFails, RecvFails, TryFails, Disconnected
  <1>3. CASE pc' = "connect"
    <2>1. result' = result /\ calls' = calls
      BY <1>3, FailuresEnd
    <2>2. pc' \in Calling
      BY <1>3 DEF Calling
    <2>3. CASE torn' = torn
      BY <1>1, <2>1, <2>2, <2>3, PromiseStutters
    <2>4. CASE torn' = FALSE
      BY <1>1, <2>1, <2>2, <2>4 DEF Promise!Next, Promise!Reconnect
    <2> QED BY <1>2, <2>3, <2>4
  <1>4. CASE pc' = "idle"
    <2>1. calls' = calls /\ result'.ok = FALSE /\ result'.of = 0
      BY <1>4, FailuresEnd
    <2>2. torn' \in BOOLEAN
      BY <1>1, <1>2
    <2> QED BY <1>1, <1>4, <2>1, <2>2, GivesUp DEF Promise!Next
  <1> QED BY <1>3, <1>4, FailuresEnd

(* The server executes a request no oftener than it was sent.               *)
LEMMA ServedPromised ==
  ASSUME CallInv, Serves \/ \E c \in 1..MaxCalls : ServesStray(c)
  PROVE  Promise!Next
  <1> USE DEF discovery, call
  <1>1. CallTypes /\ AskedOnce /\ Budget
    BY DEF CallInv
  <1>2. UNCHANGED <<pc, calls, torn, result>>
    BY DEF Serves, ServesStray
  <1>3. PICK c \in 1..calls : Served(c) /\ served[c] < 2 * Attempts
    <2>1. CASE Serves
      <3> DEFINE c == Head(asked).of
      <3>1. c \in 1..calls /\ Awaits(c) /\ Served(c)
        BY <1>1, <2>1, ServesKeeps DEF Serves
      <3>2. c \in 1..MaxCalls
        BY <1>1, <3>1, CallNumbers
      <3> HIDE DEF c
      <3>3. served[c] + stray[c] + 1 <= 2 * Attempts
        BY <1>1, <3>1, <3>2 DEF Budget, Tries
      <3>4. served[c] < 2 * Attempts
        BY <1>1, <3>2, <3>3, CallNumbers
      <3> QED BY <3>1, <3>4
    <2>2. ASSUME NEW c \in 1..MaxCalls, ServesStray(c)
          PROVE  c \in 1..calls /\ Served(c) /\ served[c] < 2 * Attempts
      <3>1. stray[c] > 0 /\ Served(c)
        BY <2>2 DEF ServesStray
      <3>2. Tries(c) > 0 /\ served[c] < Tries(c)
        BY <1>1, <3>1, CallNumbers DEF Tries
      <3> QED BY <1>1, <3>1, <3>2, CallNumbers DEF Budget
    <2> QED BY <2>1, <2>2
  <1>4. c \in 1..MaxCalls /\ c <= calls
    BY <1>1, <1>3, CallNumbers
  <1>5. Promise!Serve(c)
    <2>1. (pc \in Calling)' = (pc \in Calling)
      BY <1>2, Zenon
    <2> QED BY <1>2, <1>3, <1>4, <2>1 DEF Promise!Serve, Served
  <1> QED BY <1>4, <1>5 DEF Promise!Next

(* What the parsers conclude is a success or a failure.                     *)
LEMMA ParseTypes == ASSUME NEW has, kind \in Kinds PROVE Parse(has).ok \in BOOLEAN
  <1> USE DEF Parse, Parsed
  <1>1. CASE kind = "register"
    BY <1>1 DEF ParseRegister
  <1>2. CASE kind = "clicks"
    BY <1>2 DEF ParseClicks
  <1>3. CASE kind = "powerup"
    BY <1>3 DEF ParsePowerup
  <1>4. CASE kind = "scores"
    BY <1>4 DEF ParseScores
  <1> QED BY <1>1, <1>2, <1>3, <1>4 DEF Kinds

(* The answer read was executed, and on a clean connection it answers the   *)
(* current call.                                                            *)
LEMMA ReceivesPromised == ASSUME CallInv, Receives PROVE Promise!End
  <1>1. CallTypes /\ Delivered /\ Clean
    BY DEF CallInv
  <1>2. pc = "recv" /\ pc' = "idle" /\ inbox # <<>> /\ UNCHANGED <<calls, served>>
    BY DEF Receives
  <1>3. PICK n \in 1..Len(inbox) :
          /\ torn' = (torn \/ n < Len(inbox))
          /\ LET has == UNION {inbox[i].words : i \in 1..n} IN
             result' = [ok |-> Parse(has).ok, err |-> Parse(has).err,
                        of |-> inbox[1].of, said |-> inbox[1].said,
                        milestone |-> Parse(has).ok /\ "milestone:true" \in has]
    BY DEF Receives
  <1>4. result'.ok \in BOOLEAN /\ result'.of = inbox[1].of
    <2> DEFINE has == UNION {inbox[i].words : i \in 1..n}
    <2>1. result'.ok = Parse(has).ok /\ result'.of = inbox[1].of
      BY <1>3
    <2>2. Parse(has).ok \in BOOLEAN
      BY <1>1, ParseTypes DEF CallTypes
    <2> QED BY <2>1, <2>2
  <1>5. 1 \in DOMAIN inbox /\ inbox[1].of \in 1..calls
    BY <1>1, <1>3, InboxTypes
  <1>6. inbox[1].of \in 0..MaxCalls /\ inbox[1].of # 0
    BY <1>1, <1>5, CallNumbers
  <1>7. served[inbox[1].of] > 0
    BY <1>1, <1>5 DEF Delivered
  <1>8. ~torn => inbox[1].of = calls
    <2>1. SUFFICES ASSUME ~torn PROVE inbox[1].of = calls
      OBVIOUS
    <2>3. PICK answer \in Answers(kind) : inbox = Pieces(Current, answer)
      BY <1>1, <1>2, <2>1 DEF Clean
    <2>4. answer \in Said /\ Current.of \in 1..calls
      BY <1>1, <1>2, CallNumbers DEF Answers, Said, Current, CallTypes, Calling
    <2>5. inbox = [i \in 1..2 |-> [of |-> Current.of, said |-> answer,
                                   words |-> Line(Current.kind, answer)[i]]]
      BY <2>3, <2>4, PiecesTypes
    <2> QED BY <2>5 DEF Current
  <1>9. pc \in Calling /\ pc' \notin Calling /\ torn' \in BOOLEAN
    BY <1>1, <1>2, <1>3 DEF Calling, CallTypes
  <1>10. [ok |-> result'.ok, of |-> result'.of] \in Promise!Outcomes
    BY <1>4, <1>6 DEF Promise!Outcomes
  <1>11. (pc \in Calling)' = FALSE
    BY <1>9
  <1> QED BY <1>2, <1>4, <1>6, <1>7, <1>8, <1>9, <1>10, <1>11 DEF Promise!End

(* Every step of the client is one the promise allows, or none of it.       *)
LEMMA StepPromised ==
  ASSUME CallInv, [Next]_vars
  PROVE  [Promise!Next]_(Promise!vars)
  <1> USE DEF discovery, wire, call
  <1>1. CASE DiscoveryStarts \/ PollEnds \/ Removed \/ AddrCopied \/ PortCopied
    <2>1. /\ UNCHANGED <<calls, served, torn, result>>
          /\ pc \in Waiting \ {"idle"} /\ pc' \in Waiting \ {"idle"}
      BY <1>1 DEF DiscoveryStarts, PollEnds, Removed, AddrCopied, PortCopied, Waiting
    <2> QED BY <2>1, PromiseStutters DEF Waiting, Calling
  <1>2. CASE SetServer
    <2>1. UNCHANGED <<calls, served, result>> /\ torn' = FALSE
      BY <1>2 DEF SetServer, Disconnected
    <2>2. (pc \in Calling)' = (pc \in Calling)
      <3>1. pc \notin Calling /\ pc' \notin Calling
        BY <1>2 DEF SetServer, Calling
      <3> QED BY <3>1
    <2> QED BY <2>1, <2>2 DEF Promise!Next, Promise!Reconnect
  <1>3. CASE Begin
    <2>1. UNCHANGED <<served, result, torn>> /\ calls < MaxCalls /\ calls' = calls + 1
      BY <1>3 DEF Begin
    <2>2. pc \notin Calling /\ pc' \in Calling
      BY <1>3 DEF Begin, Connecting, Calling
    <2> QED BY <2>1, <2>2 DEF Promise!Next, Promise!Begin
  <1>4. CASE SocketAllocated \/ Connects \/ Sends
    <2>1. UNCHANGED <<calls, served, torn, result>> /\ pc \in Calling /\ pc' \in Calling
      BY <1>4 DEF SocketAllocated, Connects, Sends, Calling
    <2> QED BY <2>1, PromiseStutters
  <1>5. CASE NoSocket \/ ConnectFails \/ SendFails \/ RecvFails
    BY <1>5, FailuresPromised
  <1>6. CASE Receives
    BY <1>6, ReceivesPromised DEF Promise!Next
  <1>7. CASE Serves \/ \E c \in 1..MaxCalls : ServesStray(c)
    BY <1>7, ServedPromised
  <1>8. CASE \E a \in Announcements : Announce(a)
    BY <1>8, PromiseStutters DEF Announce
  <1>9. CASE UNCHANGED vars
    BY <1>9, PromiseStutters DEF vars
  <1> QED BY <1>1, <1>2, <1>3, <1>4, <1>5, <1>6, <1>7, <1>8, <1>9
          DEF Next, DiscoveryStep, CallStep

(* What task_rpc relies on, but for the end of each call: a request is      *)
(* executed at most twice per attempt, a call that succeeds was executed,   *)
(* and an answer on a clean connection is the answer to the current call.   *)
THEOREM PromiseKept == Spec => Promise!Safety
  <1>1. Init => Promise!Init
    <2>1. SUFFICES ASSUME Init PROVE Promise!Init
      OBVIOUS
    <2>2. pc \notin Calling
      BY <2>1 DEF Init, Calling
    <2> QED BY <2>1, <2>2 DEF Init, NoResult, Promise!Init
  <1>2. CallInv /\ [Next]_vars => CallInv' /\ [Promise!Next]_(Promise!vars)
    BY StepCall, StepPromised
  <1> QED BY <1>1, <1>2, InitCall, PTL DEF Spec, Promise!Safety

-----------------------------------------------------------------------------
(* The parsers.                                                             *)

(* The words of a whole line.                                               *)
LineWords(k, answer) == Line(k, answer)[1] \cup Line(k, answer)[2]

(* Its words are those of its two pieces.                                   *)
LEMMA LineOfTwo ==
  ASSUME NEW k, NEW answer, NEW a, NEW b, Line(k, answer) = <<a, b>>
  PROVE  LineWords(k, answer) = a \cup b
  BY DEF LineWords

(* What the parsers ask of a line, for each answer the server gives.        *)
LEMMA WordsFound ==
  ASSUME NEW k \in Kinds, NEW answer \in Answers(k)
  PROVE  LET has == LineWords(k, answer) IN
         /\ "error" \in has <=> answer \in {"exception", "violation", "active"}
         /\ answer = "ok" => "result" \in has
         /\ "fields" \in has <=> \/ answer \in {"limited", "milestone"}
                                 \/ answer = "ok" /\ k = "clicks"
         /\ "LAMPORT_VIOLATION" \in has <=> answer = "violation"
         /\ "ALREADY_ACTIVE" \in has <=> answer = "active"
         /\ answer = "exception" => "RATE_EXCEEDED" \notin has
  <1>1. CASE answer = "exception"
    <2>1. Line(k, answer) = <<{"error"}, {"message"}>>
      BY <1>1 DEF Line
    <2>2. LineWords(k, answer) = {"error", "message"}
      BY <2>1 DEF LineWords
    <2> QED BY <1>1, <2>2
  <1>2. CASE answer = "violation"
    <2>1. Line(k, answer) = <<{"result"}, {"error", "LAMPORT_VIOLATION", "lamport_ts"}>>
      BY <1>2 DEF Line
    <2>2. LineWords(k, answer) = {"result", "error", "LAMPORT_VIOLATION", "lamport_ts"}
      BY <2>1 DEF LineWords
    <2> QED BY <1>2, <2>2
  <1>3. CASE answer = "active"
    <2>1. Line(k, answer) = <<{"result"}, {"error", "ALREADY_ACTIVE"}>>
      BY <1>3 DEF Line
    <2>2. LineWords(k, answer) = {"result", "error", "ALREADY_ACTIVE"}
      BY <2>1 DEF LineWords
    <2> QED BY <1>3, <2>2
  <1>4. CASE answer = "limited"
    <2>1. Line(k, answer) = <<{"result", "RATE_EXCEEDED"}, {"fields", "milestone: false"}>>
      BY <1>4 DEF Line
    <2>2. LineWords(k, answer) = {"result", "RATE_EXCEEDED"} \cup {"fields", "milestone: false"}
      <3> DEFINE late == {"fields", "milestone: false"}
      <3>1. Line(k, answer) = <<{"result", "RATE_EXCEEDED"}, late>>
        BY <2>1
      <3> HIDE DEF late
      <3>2. LineWords(k, answer) = {"result", "RATE_EXCEEDED"} \cup late
        BY <3>1, LineOfTwo
      <3> QED BY <3>2 DEF late
    <2> QED BY <1>4, <2>2
  <1>5. CASE answer = "milestone"
    <2>1. Line(k, answer) = <<{"result"}, {"fields", "milestone: true"}>>
      BY <1>5 DEF Line
    <2>2. LineWords(k, answer) = {"result"} \cup {"fields", "milestone: true"}
      <3> DEFINE late == {"fields", "milestone: true"}
      <3>1. Line(k, answer) = <<{"result"}, late>>
        BY <2>1
      <3> HIDE DEF late
      <3>2. LineWords(k, answer) = {"result"} \cup late
        BY <3>1, LineOfTwo
      <3> QED BY <3>2 DEF late
    <2> QED BY <1>5, <2>2
  <1>6. CASE answer = "ok" /\ k = "clicks"
    <2>1. Line(k, answer) = <<{"result"}, {"fields", "milestone: false"}>>
      BY <1>6 DEF Line
    <2>2. LineWords(k, answer) = {"result"} \cup {"fields", "milestone: false"}
      <3> DEFINE late == {"fields", "milestone: false"}
      <3>1. Line(k, answer) = <<{"result"}, late>>
        BY <2>1
      <3> HIDE DEF late
      <3>2. LineWords(k, answer) = {"result"} \cup late
        BY <3>1, LineOfTwo
      <3> QED BY <3>2 DEF late
    <2> QED BY <1>6, <2>2
  <1>7. CASE answer = "ok" /\ k # "clicks"
    <2>1. Line(k, answer) = <<{"result"}, {}>>
      BY <1>7 DEF Line
    <2>2. LineWords(k, answer) = {"result"}
      BY <2>1 DEF LineWords
    <2> QED BY <1>7, <2>2
  <1> QED BY <1>1, <1>2, <1>3, <1>4, <1>5, <1>6, <1>7 DEF Answers

(* Each parser makes of a whole line the verdict of the server, a rate      *)
(* limit excepted.                                                          *)
LEMMA Understood ==
  ASSUME kind \in Kinds, NEW answer \in Answers(kind), answer # "limited", NEW has, has = LineWords(kind, answer)
  PROVE  /\ Parse(has).err = Meaning[answer]
         /\ Parse(has).ok <=> Parse(has).err = "OK"
  <1>1. /\ "error" \in has <=> answer \in {"exception", "violation", "active"}
        /\ answer = "ok" => "result" \in has
        /\ "fields" \in has <=> answer \in {"limited", "milestone"} \/ (answer = "ok" /\ kind = "clicks")
        /\ "LAMPORT_VIOLATION" \in has <=> answer = "violation"
        /\ "ALREADY_ACTIVE" \in has <=> answer = "active"
        /\ answer = "exception" => "RATE_EXCEEDED" \notin has
    BY WordsFound
  <1>2. CASE kind = "register"
    <2>1. answer \in {"ok", "exception"}
      BY <1>2 DEF Answers
    <2>2. Parse(has) = ParseRegister(has)
      BY <1>2 DEF Parse
    <2> QED BY <1>1, <2>1, <2>2 DEF ParseRegister, Parsed, Meaning
  <1>3. CASE kind = "clicks"
    <2>1. answer \in {"ok", "exception", "milestone", "violation"}
      BY <1>3 DEF Answers
    <2>2. Parse(has) = ParseClicks(has)
      BY <1>3 DEF Parse
    <2> QED BY <1>1, <1>3, <2>1, <2>2 DEF ParseClicks, GetInts, Parsed, Meaning
  <1>4. CASE kind = "powerup"
    <2>1. answer \in {"ok", "exception", "active"}
      BY <1>4 DEF Answers
    <2>2. Parse(has) = ParsePowerup(has)
      BY <1>4 DEF Parse
    <2> QED BY <1>1, <2>1, <2>2 DEF ParsePowerup, Parsed, Meaning
  <1>5. CASE kind = "scores"
    <2>1. answer \in {"ok", "exception"}
      BY <1>5 DEF Answers
    <2>2. Parse(has) = ParseScores(has)
      BY <1>5 DEF Parse
    <2> QED BY <1>1, <2>1, <2>2 DEF ParseScores, Parsed, Meaning
  <1> QED BY <1>2, <1>3, <1>4, <1>5 DEF Kinds

(* A line read whole is understood.                                         *)
LEMMA ReceivesRight == ASSUME CallInv, Receives PROVE ParsedRight'
  <1>1. CallTypes /\ Clean /\ pc = "recv" /\ inbox # <<>> /\ kind \in Kinds
    BY DEF Receives, CallInv, CallTypes
  <1>2. PICK n \in 1..Len(inbox) :
          /\ torn' = (torn \/ n < Len(inbox))
          /\ LET has == UNION {inbox[i].words : i \in 1..n} IN
             result' = [ok |-> Parse(has).ok, err |-> Parse(has).err,
                        of |-> inbox[1].of, said |-> inbox[1].said,
                        milestone |-> Parse(has).ok /\ "milestone:true" \in has]
    BY DEF Receives
  <1> DEFINE has == UNION {inbox[i].words : i \in 1..n}
  <1>3. result'.ok = Parse(has).ok /\ result'.err = Parse(has).err /\ result'.said = inbox[1].said
    BY <1>2
  <1>4. SUFFICES ASSUME ~torn', result'.said # "limited"
                 PROVE  /\ result'.err = Meaning[result'.said]
                        /\ result'.ok <=> result'.err = "OK"
    BY DEF ParsedRight
  <1>5. ~torn /\ n = Len(inbox)
    <2>1. Len(inbox) \in Nat
      BY <1>1, InboxTypes
    <2>2. torn' = (torn \/ n < Len(inbox))
      BY <1>2
    <2>3. ~torn /\ ~(n < Len(inbox))
      BY <1>4, <2>2
    <2> QED BY <2>1, <2>3
  <1>6. PICK answer \in Answers(kind) : inbox = Pieces(Current, answer)
    BY <1>1, <1>5 DEF Clean
  <1>7. answer \in Said /\ Current.of \in 1..calls /\ Current.kind = kind
    BY <1>1, CallNumbers DEF Answers, Said, Current, CallTypes, Calling
  <1>8. inbox = [i \in 1..2 |-> [of |-> Current.of, said |-> answer, words |-> Line(kind, answer)[i]]]
    BY <1>6, <1>7, PiecesTypes
  <1>9. Len(inbox) = 2
    BY <1>6, <1>7, PiecesTypes
  <1>10. /\ inbox[1].said = answer /\ inbox[1].words = Line(kind, answer)[1]
         /\ inbox[2].words = Line(kind, answer)[2]
    BY <1>8
  <1>11. has = LineWords(kind, answer)
    <2>1. has = UNION {inbox[i].words : i \in 1..2}
      BY <1>5, <1>9
    <2>2. \A i : i \in 1..2 <=> i = 1 \/ i = 2
      OBVIOUS
    <2>3. has = inbox[1].words \cup inbox[2].words
      BY <2>1, <2>2
    <2> QED BY <1>10, <2>3 DEF LineWords
  <1> HIDE DEF has
  <1>12. Parse(has).err = Meaning[answer] /\ (Parse(has).ok <=> Parse(has).err = "OK")
    BY <1>1, <1>3, <1>4, <1>10, <1>11, Understood
  <1> QED BY <1>3, <1>10, <1>12

(* Until the first call there is no result.                                 *)
ParsedInv == ParsedRight /\ (pc \in Waiting \ {"idle"} => result.of = 0)

(* Every step keeps it: only an answer read, or a call given up, leads to   *)
(* rest.                                                                    *)
LEMMA StepParsed == ASSUME CallInv, ParsedInv, [Next]_vars PROVE ParsedInv'
  <1> USE DEF discovery, wire, call
  <1>1. CASE DiscoveryStep
    <2>1. result' = result /\ pc \in Waiting \ {"idle"}
      BY <1>1 DEF DiscoveryStep, DiscoveryStarts, PollEnds, Removed, AddrCopied, PortCopied,
                  SetServer, Waiting
    <2> QED BY <2>1 DEF ParsedInv, ParsedRight
  <1>2. CASE Begin \/ SocketAllocated \/ Connects \/ Sends
    BY <1>2 DEF Begin, Connecting, SocketAllocated, Connects, Sends, ParsedInv, ParsedRight, Waiting
  <1>3. CASE NoSocket \/ ConnectFails \/ SendFails \/ RecvFails
    <2>1. pc' \in {"connect", "idle"} /\ (pc' = "idle" => result'.of = 0)
      BY <1>3, FailuresEnd
    <2> QED BY <2>1 DEF ParsedInv, ParsedRight, Waiting
  <1>4. CASE Receives
    BY <1>4, ReceivesRight DEF Receives, ParsedInv, Waiting
  <1>5. CASE Serves \/ (\E c \in 1..MaxCalls : ServesStray(c)) \/ (\E a \in Announcements : Announce(a))
    <2>1. UNCHANGED <<pc, result, torn>>
      BY <1>5 DEF Serves, ServesStray, Announce
    <2> QED BY <2>1 DEF ParsedInv, ParsedRight
  <1>6. CASE UNCHANGED vars
    BY <1>6 DEF vars, ParsedInv, ParsedRight
  <1> QED BY <1>1, <1>2, <1>3, <1>4, <1>5, <1>6 DEF Next, CallStep

(* Unless an answer was torn, the board hears the verdict of the server on  *)
(* every kind of call: done, or the error to act on.  A rate limit is not   *)
(* heard as one, and flags and values are not spoken of.                    *)
THEOREM AnswersAreUnderstood == Spec => []ParsedRight
  <1>1. Init => CallInv /\ ParsedInv
    <2>1. Init => ParsedInv
      BY DEF Init, NoResult, ParsedInv, ParsedRight
    <2> QED BY <2>1, InitCall
  <1>2. CallInv /\ ParsedInv /\ [Next]_vars => (CallInv /\ ParsedInv)'
    BY StepCall, StepParsed
  <1>3. ParsedInv => ParsedRight
    BY DEF ParsedInv
  <1> QED BY <1>1, <1>2, <1>3, PTL DEF Spec

=============================================================================
