------------------------------ MODULE Handshake ------------------------------
(***************************************************************************)
(* A TCP session of SGCTP (lib/transmit_tcp, payload_aes128, principal):    *)
(* the handshake a client sends and a server receives, then the exchange of *)
(* messages, each under a key of its own.                                   *)
(*                                                                         *)
(* A unit of the stream is what one or two calls of recvBuffer() wait for:  *)
(* the header, the client's nonce, or a message (module TransmitBuffer has  *)
(* the bytes). A key is the term it is derived from: the secret, the nonce  *)
(* and the number of increments; a message opens under the key it was       *)
(* sealed with and under no other. An ID is two halves, each the set of its *)
(* bits.                                                                    *)
(***************************************************************************)
EXTENDS Naturals, Sequences

CONSTANTS
  Bits,          \* the bits of half an ID
  Passwords,
  Empty,         \* the password nobody set
  Entries,       \* the server's principals: password and payload types by ID
  MaxSent,       \* bound of the model: messages a side sends after "#OK"
  Duplex         \* whether a client goes on sending after "#START"

Halves == SUBSET Bits
IDs == Halves \X Halves
Types == {"RAW", "AES128"}

ASSUME HandshakeAssumption ==
  /\ Empty \notin Passwords
  /\ DOMAIN Entries \subseteq IDs
  /\ \A id \in DOMAIN Entries :
       Entries[id] \in [password : Passwords, types : SUBSET Types]
  /\ MaxSent \in Nat
  /\ Duplex \in BOOLEAN

Sides == {"client", "server"}
Peer(s) == IF s = "client" THEN "server" ELSE "client"

VARIABLES
  settings,      \* what the client was told: its ID, password, payload type
  hasPath,       \* whether the server has a principals file
  principal,     \* the ID, password and payload types the server goes by
  type,          \* ePayloadType of the server
  pc,            \* what each side does next
  result,        \* what sendHandshake() and recvHandshake() returned
  key,           \* pucCryptoKey with pucCryptoNonce
  buf,           \* units received and not pulled
  stream,        \* units sent to each side and not received
  sent,          \* messages each side sent after its handshake
  started,       \* the sides that sent or got "#START"
  discarded,     \* history: whether resetBuffer() threw units away
  garbled,       \* history: the messages that did not open
  opened         \* history: the keys of those that did

configVars == <<settings, hasPath>>
dataVars == <<sent, started>>
historyVars == <<garbled, opened>>
vars == <<settings, hasPath, principal, type, pc, result, key, buf, stream,
          sent, started, discarded, garbled, opened>>

Principals ==
  [id : IDs, password : Passwords \union {Empty}, types : SUBSET Types]

NoKey == <<>>

\* makeCryptoKey(), with the client's nonce.
Key(secret) == <<secret, 0>>

\* Mutant: the key stays the same for the whole session.
SameKey(k) == k

\* incrCryptoKey(), for the AES128 payload only.
Incremented(k) == IF k = NoKey THEN NoKey ELSE <<k[1], k[2] + 1>>

ServerNonce == "NonceS"
ASSUME NonceAssumption == ServerNonce \notin Passwords \union {Empty}

Header(c) == [kind |-> "header", type |-> c.type, hi |-> c.id[1],
              lo |-> c.id[2]]
ClientNonce == [kind |-> "nonce"]
Message(k, body) == [kind |-> "message", key |-> k, body |-> body]

ClientPCs == {"hello", "sendNonce", "recvNonce", "auth", "recvOK", "data",
              "closed"}
ServerPCs == {"recvHello", "recvNonce", "sendNonce", "recvAuth", "sendOK",
              "data", "closed"}
Waiting(s) ==
  pc[s] \in (IF s = "client" THEN {"recvNonce", "recvOK"}
                             ELSE {"recvHello", "recvNonce", "recvAuth"})

TypeOK ==
  /\ settings \in [id : IDs, password : Passwords \union {Empty}, type : Types]
  /\ hasPath \in BOOLEAN
  /\ principal \in Principals
  /\ type \in Types \union {"none"}
  /\ DOMAIN pc = Sides
  /\ pc["client"] \in ClientPCs /\ pc["server"] \in ServerPCs
  /\ result \in [Sides -> {"none", "ok", "zero", "error"}]
  /\ DOMAIN key = Sides /\ DOMAIN buf = Sides /\ DOMAIN stream = Sides
  /\ \A s \in Sides : \A i \in 1..Len(stream[s]) :
       stream[s][i].kind \in {"header", "nonce", "message"}
  /\ sent \in [Sides -> 0..MaxSent] /\ started \subseteq Sides
  /\ discarded \in BOOLEAN
  /\ garbled \subseteq {"nonce", "#AUTH", "#OK", "#KO", "data", "#START"}

\* A server without a principals file goes by the password and the payload types
\* its program configured, if any; with a file, by what the file says.
Init ==
  /\ settings \in [id : IDs, password : Passwords \union {Empty}, type : Types]
  /\ hasPath \in BOOLEAN
  /\ principal \in {c \in Principals : c.id = <<{}, {}>>}
  /\ hasPath => principal.password = Empty /\ principal.types = {}
  /\ type = "none"
  /\ pc = [s \in Sides |-> IF s = "client" THEN "hello" ELSE "recvHello"]
  /\ result = [s \in Sides |-> "none"]
  /\ key = [s \in Sides |-> NoKey]
  /\ buf = [s \in Sides |-> <<>>]
  /\ stream = [s \in Sides |-> <<>>]
  /\ sent = [s \in Sides |-> 0]
  /\ started = {}
  /\ discarded = FALSE /\ garbled = {} /\ opened = {}

------------------------------------------------------------------------------
(* Sending, receiving, returning. *)

Goes(s, from, to) ==
  /\ pc[s] = from
  /\ pc' = [pc EXCEPT ![s] = to]

Sends(s, u) == stream' = [stream EXCEPT ![Peer(s)] = Append(@, u)]

\* serialize(): the message is sealed, and then the key incremented.
Serializes(s, body) ==
  /\ Sends(s, Message(key[s], body))
  /\ key' = [key EXCEPT ![s] = Incremented(@)]

\* recvBuffer() is content with what is buffered, or receives what has come,
\* some of it or all. It gives the buffer and what remains in the stream.
Received(s) ==
  IF buf[s] # <<>> THEN {<<buf[s], stream[s]>>}
  ELSE {<<SubSeq(stream[s], 1, k), SubSeq(stream[s], k + 1, Len(stream[s]))>> :
          k \in 1..Len(stream[s])}

Pulls(s, r) ==
  /\ buf' = [buf EXCEPT ![s] = Tail(r[1])]
  /\ stream' = [stream EXCEPT ![s] = r[2]]
  /\ discarded' = discarded

\* The unit is pulled, and then the buffer reset.
PullsAndResets(s, r) ==
  /\ buf' = [buf EXCEPT ![s] = <<>>]
  /\ stream' = [stream EXCEPT ![s] = r[2]]
  /\ discarded' = (discarded \/ Tail(r[1]) # <<>>)

\* resetBuffer().
Resets(s) ==
  /\ buf' = [buf EXCEPT ![s] = <<>>]
  /\ discarded' = (discarded \/ buf[s] # <<>>)

Opens(s, u) == u.kind = "message" /\ u.key = key[s]

Notes(s, u) ==
  /\ garbled' = IF Opens(s, u) THEN garbled ELSE garbled \union {u.body}
  /\ opened' = IF Opens(s, u) THEN opened \union {u.key} ELSE opened

Returns(s, r) == result' = [result EXCEPT ![s] = r]

\* An error is returned, and the caller closes the socket.
Fails(s, from) ==
  /\ Goes(s, from, "closed")
  /\ Returns(s, "error")
  /\ UNCHANGED <<configVars, principal, type, key, dataVars>>

------------------------------------------------------------------------------
(* sendHandshake(). *)

ClientHello ==
  /\ Goes("client", "hello",
          IF settings.type = "AES128" THEN "sendNonce" ELSE "recvOK")
  /\ Sends("client", Header(settings))
  /\ Resets("client")
  /\ UNCHANGED <<configVars, principal, type, result, key, dataVars, historyVars>>

\* The client's own principals file does not have its ID.
ClientUnknown ==
  /\ Fails("client", "hello")
  /\ UNCHANGED <<buf, stream, discarded, historyVars>>

ClientSendsNonce ==
  /\ Goes("client", "sendNonce", "recvNonce")
  /\ Sends("client", ClientNonce)
  /\ key' = [key EXCEPT !["client"] = Key(settings.password)]
  /\ Resets("client")
  /\ UNCHANGED <<configVars, principal, type, result, dataVars, historyVars>>

ClientRecvNonce ==
  \E r \in Received("client") :
    /\ Opens("client", Head(r[1])) /\ Head(r[1]).body = "nonce"
    /\ Goes("client", "recvNonce", "auth")
    /\ Notes("client", Head(r[1]))
    /\ Pulls("client", r)
    /\ key' = [key EXCEPT !["client"] = Key(ServerNonce)]
    /\ UNCHANGED <<configVars, principal, type, result, dataVars>>

ClientAuth ==
  /\ Goes("client", "auth", "recvOK")
  /\ Serializes("client", "#AUTH")
  /\ Resets("client")
  /\ UNCHANGED <<configVars, principal, type, result, dataVars, historyVars>>

ClientRecvOK ==
  \E r \in Received("client") :
    /\ Opens("client", Head(r[1])) /\ Head(r[1]).body = "#OK"
    /\ Goes("client", "recvOK", "data")
    /\ Notes("client", Head(r[1]))
    /\ PullsAndResets("client", r)
    /\ key' = [key EXCEPT !["client"] = Incremented(@)]
    /\ Returns("client", "ok")
    /\ UNCHANGED <<configVars, principal, type, dataVars>>

\* What was received does not open, or is not what was expected.
ClientRefuses ==
  \E r \in Received("client") :
    /\ Waiting("client")
    /\ ~ /\ Opens("client", Head(r[1]))
         /\ Head(r[1]).body = (IF pc["client"] = "recvOK" THEN "#OK" ELSE "nonce")
    /\ Fails("client", pc["client"])
    /\ PullsAndResets("client", r)
    /\ Notes("client", Head(r[1]))

------------------------------------------------------------------------------
(* recvHandshake(). *)

\* CPrincipal::read(): an ID that is not in the file is refused, but for zero.
Known(id) == id \in DOMAIN Entries \/ id = <<{}, {}>>
Entry(id) ==
  IF id \in DOMAIN Entries THEN Entries[id]
                           ELSE [password |-> Empty, types |-> {}]

\* The halves of the ID are combined without shifting the first.
ReadID(h) == <<{}, h.hi \union h.lo>>

\* Mutant: any principal may use any payload.
AnyType(h) == hasPath => Known(ReadID(h))

\* The principal after its lookup.
LookedUp(h) ==
  IF hasPath THEN [id |-> ReadID(h),
                   password |-> Entry(ReadID(h)).password,
                   types |-> Entry(ReadID(h)).types]
             ELSE principal

Allows(types, t) == types = {} \/ t \in types

\* Lookup of the principal and initPayload().
Accepted(h) ==
  /\ hasPath => Known(ReadID(h))
  /\ Allows(LookedUp(h).types, h.type)

\* Mutant: the buffer is reset once the header is parsed.
ServerRecvHelloResets ==
  \E r \in Received("server") :
    LET h == Head(r[1])
    IN /\ pc["server"] = "recvHello"
       /\ Accepted(h)
       /\ Goes("server", "recvHello",
               IF h.type = "AES128" THEN "recvNonce" ELSE "sendOK")
       /\ PullsAndResets("server", r)
       /\ principal' = LookedUp(h)
       /\ type' = h.type
       /\ UNCHANGED <<configVars, result, key, dataVars, historyVars>>

ServerRecvHello ==
  \E r \in Received("server") :
    LET h == Head(r[1])
    IN /\ pc["server"] = "recvHello"
       /\ Accepted(h)
       /\ Goes("server", "recvHello",
               IF h.type = "AES128" THEN "recvNonce" ELSE "sendOK")
       /\ IF h.type = "AES128" THEN Pulls("server", r)
                               ELSE PullsAndResets("server", r)
       /\ principal' = LookedUp(h)
       /\ type' = h.type
       /\ UNCHANGED <<configVars, result, key, dataVars, historyVars>>

ServerRefuses ==
  \E r \in Received("server") :
    /\ pc["server"] = "recvHello"
    /\ ~Accepted(Head(r[1]))
    /\ Fails("server", "recvHello")
    /\ PullsAndResets("server", r)
    /\ UNCHANGED historyVars

ServerRecvNonce ==
  \E r \in Received("server") :
    /\ Goes("server", "recvNonce", "sendNonce")
    /\ Pulls("server", r)
    /\ key' = [key EXCEPT !["server"] = Key(principal.password)]
    /\ UNCHANGED <<configVars, principal, type, result, dataVars, historyVars>>

\* Mutant: the session key is made before the nonce is sent.
ServerSendsNonceLate ==
  /\ Goes("server", "sendNonce", "recvAuth")
  /\ Sends("server", Message(Key(ServerNonce), "nonce"))
  /\ key' = [key EXCEPT !["server"] = Key(ServerNonce)]
  /\ Resets("server")
  /\ UNCHANGED <<configVars, principal, type, result, dataVars, historyVars>>

ServerSendsNonce ==
  /\ Goes("server", "sendNonce", "recvAuth")
  /\ Sends("server", Message(key["server"], "nonce"))
  /\ key' = [key EXCEPT !["server"] = Key(ServerNonce)]
  /\ Resets("server")
  /\ UNCHANGED <<configVars, principal, type, result, dataVars, historyVars>>

\* "#AUTH" is expected. For anything else "#KO" is sent, if it can be, the key as
\* it was, and the error returned.
ServerRecvAuth ==
  \E r \in Received("server") :
    LET u == Head(r[1])
        authentic == Opens("server", u) /\ u.body = "#AUTH"
    IN /\ Goes("server", "recvAuth", IF authentic THEN "sendOK" ELSE "closed")
       /\ result' = IF authentic THEN result ELSE [result EXCEPT !["server"] = "error"]
       /\ key' = IF authentic THEN [key EXCEPT !["server"] = Incremented(@)] ELSE key
       /\ buf' = [buf EXCEPT !["server"] = IF authentic THEN Tail(r[1]) ELSE <<>>]
       /\ \E answer \in IF authentic THEN {<<>>}
                         ELSE {<<>>, <<Message(key["server"], "#KO")>>} :
            stream' = [stream EXCEPT !["server"] = r[2],
                                     !["client"] = @ \o answer]
       /\ discarded' = (discarded \/ (~authentic /\ Tail(r[1]) # <<>>))
       /\ Notes("server", u)
       /\ UNCHANGED <<configVars, principal, type, dataVars>>

ServerSendsOK ==
  /\ Goes("server", "sendOK", "data")
  /\ Serializes("server", "#OK")
  /\ Returns("server", "ok")
  /\ Resets("server")
  /\ UNCHANGED <<configVars, principal, type, dataVars, historyVars>>

------------------------------------------------------------------------------
(* Errors of the connection. *)

\* What the server sends when it gives up: "#KO" in place of an answer to
\* "#AUTH", unless that fails too, and nothing before.
SendsKO(s) ==
  \/ pc[s] = "recvAuth" /\ Sends(s, Message(key[s], "#KO"))
  \/ UNCHANGED stream

\* Mutant: the socket has no timeout.
NoTimeout(s) ==
  /\ Waiting(s)
  /\ pc[Peer(s)] = "closed"
  /\ Fails(s, pc[s])
  /\ SendsKO(s)
  /\ Resets(s)
  /\ UNCHANGED historyVars

\* recv() fails or times out.
RecvFails(s) ==
  /\ Waiting(s)
  /\ Fails(s, pc[s])
  /\ SendsKO(s)
  /\ Resets(s)
  /\ UNCHANGED historyVars

\* send() finds the connection closed, or does not get rid of it in three seconds.
SendFails(s) ==
  /\ pc[s] \in {"hello", "sendNonce", "auth", "sendOK"}
  /\ Fails(s, pc[s])
  /\ Resets(s)
  /\ UNCHANGED <<stream, historyVars>>

Ended(s) == pc[Peer(s)] = "closed" /\ buf[s] = <<>> /\ stream[s] = <<>>

\* recv() finds the end of the stream: sendHandshake() makes an error of it.
ClientEnds ==
  /\ Waiting("client")
  /\ Ended("client")
  /\ Fails("client", pc["client"])
  /\ UNCHANGED <<buf, stream, discarded, historyVars>>

\* recvHandshake() returns the 0 of recv(), and its callers go on, because it
\* is not negative.
ServerEnds ==
  /\ Waiting("server")
  /\ Ended("server")
  /\ Goes("server", pc["server"], "data")
  /\ Returns("server", "zero")
  /\ SendsKO("server")
  /\ Resets("server")
  /\ UNCHANGED <<configVars, principal, type, key, dataVars, historyVars>>

------------------------------------------------------------------------------
(* The exchange of data. *)

\* The hub sends to a client that asked it to. hub2sgctp sends nothing more
\* from then on; the protocol does not forbid it.
MaySend(s) ==
  IF s = "server" THEN "server" \in started
                  ELSE Duplex \/ "client" \notin started

SendData(s) ==
  /\ pc[s] = "data" /\ result[s] = "ok"
  /\ sent[s] < MaxSent
  /\ MaySend(s)
  /\ sent' = [sent EXCEPT ![s] = @ + 1]
  /\ \E body \in {"data"} \union (IF s = "client" THEN {"#START"} ELSE {}) :
       /\ Serializes(s, body)
       /\ started' = IF body = "#START" THEN started \union {s} ELSE started
  /\ UNCHANGED <<configVars, principal, type, pc, result, buf, discarded,
                 historyVars>>

\* A message that does not open leaves the key, and the callers close the
\* connection.
RecvData(s) ==
  \E r \in Received(s) :
    LET u == Head(r[1])
        opens == Opens(s, u)
    IN /\ result[s] = "ok"
       /\ Goes(s, "data", IF opens THEN "data" ELSE "closed")
       /\ Notes(s, u)
       /\ Pulls(s, r)
       /\ key' = IF opens THEN [key EXCEPT ![s] = Incremented(@)] ELSE key
       /\ started' = IF opens /\ u.body = "#START" THEN started \union {s}
                                                   ELSE started
       /\ UNCHANGED <<configVars, principal, type, result, sent>>

\* The caller ends the session, for a reason of its own or at its end.
Close(s) ==
  /\ Goes(s, "data", "closed")
  /\ UNCHANGED <<configVars, principal, type, result, key, buf, stream,
                 dataVars, discarded, historyVars>>

------------------------------------------------------------------------------
(* The specification. *)

ClientHandshake ==
  \/ ClientHello \/ ClientUnknown \/ ClientSendsNonce \/ ClientRecvNonce
  \/ ClientAuth \/ ClientRecvOK \/ ClientRefuses \/ ClientEnds
  \/ RecvFails("client") \/ SendFails("client")

ServerHandshake ==
  \/ ServerRecvHello \/ ServerRefuses \/ ServerRecvNonce \/ ServerSendsNonce
  \/ ServerRecvAuth \/ ServerSendsOK \/ ServerEnds
  \/ RecvFails("server") \/ SendFails("server")

Next ==
  \/ ClientHandshake \/ ServerHandshake
  \/ \E s \in Sides : SendData(s) \/ RecvData(s) \/ Close(s)

Spec == Init /\ [][Next]_vars

\* The server's thread is scheduled, and its recv() ends by the timeout of
\* three seconds. Nothing is assumed of the client.
FairSpec == Spec /\ WF_vars(ServerHandshake)

------------------------------------------------------------------------------
(* Properties. *)

\* A message opens on the other side, unless the client does not have the
\* password of the principal the server found: both derive the same keys and
\* increment them in step. Only "#KO" may be lost on the client: the server
\* did not open the message it answers, and did not increment its key.
OpensWhatIsSent ==
  garbled \ {"#KO"} # {} => settings.password # principal.password

\* A message that opened opens no more: nobody is at its key again.
ReplayIsRefused ==
  \A s \in Sides : key[s] # NoKey => key[s] \notin opened

\* A server that answered "#OK" has a client that uses the payload type it
\* was granted, and for AES128 has the password; they agree on the principal,
\* as far as its ID fits in 32 bits. A client that returned has such a server.
Agreement ==
  /\ result["client"] = "ok" => result["server"] = "ok"
  /\ result["server"] = "ok" =>
       /\ type = settings.type
       /\ type = "AES128" => settings.password = principal.password
       /\ Allows(IF hasPath THEN Entry(principal.id).types
                              ELSE principal.types, type)
       /\ hasPath /\ settings.id[1] = {} => principal.id = settings.id

\* resetBuffer(), which both sides call several times in a handshake, never
\* throws away what the other side sent, except when the handshake fails.
NothingDiscarded ==
  discarded => \E s \in Sides : result[s] = "error"

\* The types, and nothing lost between two messages of a handshake.
Consistent == TypeOK /\ NothingDiscarded

\* A client cannot keep a server in its handshake: the thread that accepts
\* connections returns to the others.
ServerReturns == result["server"] = "none" ~> result["server"] # "none"

==============================================================================
