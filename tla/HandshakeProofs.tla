---------------------------- MODULE HandshakeProofs ----------------------------
(***************************************************************************)
(* Proofs about Handshake, for any IDs, passwords and principals and any   *)
(* number of messages: the two sides never lose step, whatever fails       *)
(* between them; no key opens twice; what the server granted is what the   *)
(* client asked for and proved to be entitled to.                          *)
(***************************************************************************)
EXTENDS Handshake, SequenceTheorems, TLAPS

------------------------------------------------------------------------------
(* The units and the keys. *)

Secrets == Passwords \union {Empty, ServerNonce}
Keys == {NoKey} \union Secrets \X Nat
Bodies == {"nonce", "#AUTH", "#OK", "#KO", "data", "#START"}
Units ==
  [kind : {"header"}, type : Types, hi : Halves, lo : Halves]
    \union {ClientNonce}
    \union [kind : {"message"}, key : Keys, body : Bodies]

\* The n-th key after the server's nonce.
SessionKey(n) == <<ServerNonce, n>>
IsSession(k) == k \in {ServerNonce} \X Nat

\* The key that is n messages after k.
Advanced(k, n) == IF k = NoKey THEN NoKey ELSE <<k[1], k[2] + n>>

\* A side at key l has left key k behind. (Without a key there is nothing to leave.)
Past(k, l) ==
  \/ k = NoKey /\ l = NoKey
  \/ /\ k # NoKey /\ IsSession(l)
     /\ IsSession(k) => k[2] < l[2]

\* What was sent to s and not pulled.
Queue(s) == buf[s] \o stream[s]
Nothing(s) == Len(Queue(s)) = 0
Only(s, u) == Len(Queue(s)) = 1 /\ Queue(s)[1] = u

\* The messages to s are sealed with the keys s will be at when it pulls them.
Consecutive(s) ==
  \A i \in 1 .. Len(Queue(s)) :
    Queue(s)[i].kind = "message" /\ Queue(s)[i].key = Advanced(key[s], i - 1)

Secret == settings.type = "AES128"
SamePassword == settings.password = principal.password

NonceMessage == Message(Key(principal.password), "nonce")
AuthMessage == Message(SessionKey(0), "#AUTH")
KOMessage == Message(SessionKey(0), "#KO")

------------------------------------------------------------------------------
(* The invariant. *)

WellTyped ==
  /\ TypeOK
  /\ pc \in [Sides -> ClientPCs \union ServerPCs]
  /\ key \in [Sides -> Keys]
  /\ buf \in [Sides -> Seq(Units)] /\ stream \in [Sides -> Seq(Units)]
  /\ opened \subseteq Keys

ClientShakes == {"hello", "sendNonce", "recvNonce", "auth", "recvOK"}
ServerShakes == {"recvHello", "recvNonce", "sendNonce", "recvAuth", "sendOK"}

\* What a side returned is a matter of where it is.
Results ==
  /\ pc["client"] \in ClientShakes <=> result["client"] = "none"
  /\ pc["client"] = "data" => result["client"] = "ok"
  /\ result["client"] # "zero"
  /\ pc["server"] \in ServerShakes <=> result["server"] = "none"
  /\ pc["server"] = "data" => result["server"] \in {"ok", "zero"}
  /\ result["client"] = "ok" => result["server"] = "ok"
  /\ \A s \in Sides : result[s] = "error" => pc[s] = "closed"
  /\ result["server"] = "zero" => pc["client"] = "closed"

\* What the server took from the header is what the client sent.
Granted ==
  /\ pc["server"] = "recvHello" => type = "none"
  /\ pc["server"] \in ServerShakes \ {"recvHello"} \/ result["server"] = "ok"
       => type = settings.type
  /\ (result["server"] = "ok" \/ pc["server"] = "sendOK") /\ Secret => SamePassword
  /\ type # "none" =>
       /\ Allows(IF hasPath THEN Entry(principal.id).types
                              ELSE principal.types, type)
       /\ hasPath /\ settings.id[1] = {} => principal.id = settings.id

\* "#START" comes from the client, and the server has it from there.
Starts ==
  /\ pc["client"] \in ClientShakes => "client" \notin started
  /\ result["server"] # "ok" => "server" \notin started
  /\ "server" \in started => "client" \in started
  /\ \A i \in 1 .. Len(Queue("server")) :
       Queue("server")[i].kind = "message" /\ Queue("server")[i].body = "#START"
         => "client" \in started

ServerLive == pc["server"] # "closed" /\ result["server"] \in {"none", "ok"}
ClientLive == pc["client"] # "closed"

\* What a server that goes on has before it, and the key it is at.
ServerHello ==
  pc["server"] = "recvHello" =>
    /\ key["server"] = NoKey
    /\ Len(Queue("server")) \in 0 .. (IF Secret THEN 2 ELSE 1)
    /\ Len(Queue("server")) > 0 => Queue("server")[1] = Header(settings)
    /\ Len(Queue("server")) > 1 => Queue("server")[2] = ClientNonce
ServerNonces ==
  /\ pc["server"] = "recvNonce" =>
       /\ Secret /\ key["server"] = NoKey
       /\ Nothing("server") \/ Only("server", ClientNonce)
  /\ pc["server"] = "sendNonce" =>
       /\ Secret /\ key["server"] = Key(principal.password)
       /\ Nothing("server")
ServerSilent ==
  pc["server"] \in {"recvHello", "recvNonce", "sendNonce"} =>
    Nothing("client") /\ opened = {} /\ garbled = {}
ServerAuth ==
  pc["server"] = "recvAuth" =>
    /\ Secret /\ key["server"] = SessionKey(0)
    /\ Nothing("server") \/ (Only("server", AuthMessage) /\ SamePassword)
ServerOK ==
  pc["server"] = "sendOK" =>
    /\ key["server"] = IF Secret THEN SessionKey(1) ELSE NoKey
    /\ Nothing("server")
ServerData ==
  pc["server"] = "data" /\ result["server"] = "ok" =>
    /\ IF Secret THEN IsSession(key["server"]) ELSE key["server"] = NoKey
    /\ \A i \in 1 .. Len(Queue("server")) : Queue("server")[i].kind = "message"
    /\ ~Duplex =>
         /\ Consecutive("server")
         /\ "server" \in started => Nothing("server")
         /\ \A i \in 1 .. Len(Queue("server")) :
              Queue("server")[i].body = "#START" => i = Len(Queue("server"))
ServerSide ==
  ServerHello /\ ServerNonces /\ ServerSilent /\ ServerAuth /\ ServerOK /\ ServerData

\* The same of a client.
ClientBegins ==
  /\ pc["client"] \in {"hello", "sendNonce"} =>
       key["client"] = NoKey /\ Nothing("client")
  /\ pc["client"] \in {"sendNonce", "recvNonce", "auth"} => Secret
ClientUnheard ==
  pc["client"] \in {"hello", "sendNonce", "recvNonce"} =>
    /\ opened = {}
    /\ \A i \in 1 .. Len(Queue("server")) : Queue("server")[i].kind # "message"
ClientNonces ==
  pc["client"] = "recvNonce" =>
    /\ key["client"] = Key(settings.password)
    /\ Len(Queue("client")) \in 0 .. 2
    /\ Len(Queue("client")) > 0 => Queue("client")[1] = NonceMessage
    /\ Len(Queue("client")) > 1 => Queue("client")[2] = KOMessage
ClientEntitled ==
  pc["client"] \in {"auth", "recvOK", "data"} /\ Secret => SamePassword
ClientAuths ==
  pc["client"] = "auth" =>
    /\ key["client"] = SessionKey(0)
    /\ Nothing("client") \/ Only("client", KOMessage)
ClientAwaitsOK ==
  pc["client"] = "recvOK" =>
    /\ key["client"] = IF Secret THEN SessionKey(1) ELSE NoKey
    /\ \/ Nothing("client")
       \/ Secret /\ Only("client", KOMessage)
       \/ Only("client", Message(key["client"], "#OK")) /\ result["server"] = "ok"
ClientData ==
  pc["client"] = "data" =>
    /\ IF Secret THEN IsSession(key["client"]) ELSE key["client"] = NoKey
    /\ \A i \in 1 .. Len(Queue("client")) :
         Queue("client")[i].kind = "message" /\ Queue("client")[i].body # "#KO"
    /\ ~Duplex =>
         /\ Consecutive("client")
         /\ ~Nothing("client") => "client" \in started
ClientSide ==
  /\ ClientBegins /\ ClientUnheard /\ ClientNonces /\ ClientEntitled
  /\ ClientAuths /\ ClientAwaitsOK /\ ClientData

\* How far two sides that both go on may be from each other.
Together ==
  ServerLive /\ ClientLive =>
    /\ pc["client"] = "hello" => pc["server"] = "recvHello" /\ Nothing("server")
    /\ pc["client"] = "sendNonce" =>
         \/ pc["server"] = "recvHello" /\ Len(Queue("server")) = 1
         \/ pc["server"] = "recvNonce" /\ Nothing("server")
    /\ pc["client"] = "recvNonce" =>
         \/ pc["server"] = "recvHello" /\ Len(Queue("server")) = 2
         \/ pc["server"] = "recvNonce" /\ Len(Queue("server")) = 1
         \/ pc["server"] = "sendNonce"
         \/ pc["server"] = "recvAuth" /\ Nothing("server") /\ Len(Queue("client")) = 1
    /\ pc["client"] = "auth" =>
         pc["server"] = "recvAuth" /\ Nothing("server") /\ Nothing("client")
    /\ pc["client"] = "recvOK" =>
         \/ pc["server"] = "recvHello" /\ ~Secret /\ Len(Queue("server")) = 1
         \/ pc["server"] = "recvAuth" /\ Len(Queue("server")) = 1 /\ Nothing("client")
         \/ pc["server"] = "sendOK" /\ Nothing("client")
         \/ /\ pc["server"] = "data" /\ Nothing("server")
            /\ Len(Queue("client")) = 1
            /\ key["server"] = Advanced(key["client"], 1)
    /\ pc["client"] = "data" =>
         /\ pc["server"] = "data"
         /\ ~Duplex /\ "server" \notin started =>
              /\ Nothing("client")
              /\ key["client"] = Advanced(key["server"], Len(Queue("server")))
         /\ ~Duplex /\ "server" \in started =>
              key["server"] = Advanced(key["client"], Len(Queue("client")))

\* A refusal is the last thing a server sends.
Refusals ==
  \A i \in 1 .. Len(Queue("client")) :
    /\ Queue("client")[i].kind = "message"
    /\ Queue("client")[i].body = "#KO" =>
         /\ Secret /\ Queue("client")[i].key = SessionKey(0)
         /\ ClientLive => result["server"] = "error"

\* The sender of a message has left its key behind, and so have both sides with a
\* key that opened one.
Behind ==
  /\ \A i \in 1 .. Len(Queue("server")) :
       Queue("server")[i].kind = "message"
         => Past(Queue("server")[i].key, key["client"])
  /\ \A i \in 1 .. Len(Queue("client")) :
       Queue("client")[i].body # "#KO"
         => Past(Queue("client")[i].key, key["server"])
  /\ \A k \in opened : Past(k, key["client"]) /\ Past(k, key["server"])

\* The inductive invariant.
IInv ==
  /\ WellTyped /\ Results /\ Granted /\ Starts
  /\ ServerSide /\ ClientSide /\ Together
  /\ Refusals /\ Behind /\ NothingDiscarded
  /\ Duplex \/ OpensWhatIsSent

------------------------------------------------------------------------------
(* Lemmas on keys and queues. *)

\* A key is none, or a secret and a number.
LEMMA KeyFacts ==
  /\ NoKey \in Keys
  /\ \A a \in Secrets, n \in Nat :
       <<a, n>> \in Keys /\ <<a, n>> # NoKey /\ <<a, n>>[1] = a /\ <<a, n>>[2] = n
  /\ \A k \in Keys : k # NoKey =>
       /\ k[1] \in Secrets /\ k[2] \in Nat /\ k = <<k[1], k[2]>>
       /\ IsSession(k) <=> k[1] = ServerNonce
  /\ ~IsSession(NoKey)
  /\ \A n \in Nat : SessionKey(n) \in Keys /\ IsSession(SessionKey(n))
                    /\ SessionKey(n)[2] = n
<1>1. \A a, n : Len(<<a, n>>) = 2 /\ Len(<<>>) = 0
  OBVIOUS
<1>2. \A a, n : <<a, n>> # <<>>
  BY <1>1
<1>3. \A a \in Secrets, n \in Nat : <<a, n>> \in Keys /\ <<a, n>> # NoKey
  BY <1>2 DEF Keys, NoKey
<1>4. ServerNonce \in Secrets
  BY DEF Secrets
<1>5. \A k \in Keys : k # NoKey => k \in Secrets \X Nat
  BY DEF Keys
<1>6. ~IsSession(NoKey)
  BY <1>2 DEF IsSession, NoKey
<1> QED
  BY <1>3, <1>4, <1>5, <1>6 DEF Keys, IsSession, SessionKey

\* How keys advance.
LEMMA AdvancedFacts ==
  ASSUME NEW k \in Keys
  PROVE  /\ \A n \in Nat : /\ Advanced(k, n) \in Keys
                           /\ Advanced(k, n) = NoKey <=> k = NoKey
                           /\ IsSession(Advanced(k, n)) <=> IsSession(k)
                           /\ Advanced(Advanced(k, 1), n) = Advanced(k, n + 1)
                           /\ Advanced(Advanced(k, n), 1) = Advanced(k, n + 1)
         /\ Advanced(k, 0) = k
         /\ Incremented(k) = Advanced(k, 1)
<1>1. CASE k = NoKey
  BY <1>1, KeyFacts DEF Advanced, Incremented
<1>2. CASE k # NoKey
  <2>1. k[1] \in Secrets /\ k[2] \in Nat /\ k = <<k[1], k[2]>>
    BY <1>2, KeyFacts
  <2>2. \A n \in Nat : Advanced(k, n) = <<k[1], k[2] + n>>
    BY <1>2 DEF Advanced
  <2>3. \A n \in Nat :
          /\ Advanced(k, n) \in Keys /\ Advanced(k, n) # NoKey
          /\ Advanced(k, n)[1] = k[1] /\ Advanced(k, n)[2] = k[2] + n
    BY <2>1, <2>2, KeyFacts
  <2>4. \A n \in Nat : IsSession(Advanced(k, n)) <=> IsSession(k)
    BY <1>2, <2>3, KeyFacts
  <2>5. \A n, m \in Nat : Advanced(Advanced(k, n), m) = <<k[1], k[2] + n + m>>
    BY <2>3 DEF Advanced
  <2>6. \A n \in Nat : /\ Advanced(Advanced(k, 1), n) = Advanced(k, n + 1)
                       /\ Advanced(Advanced(k, n), 1) = Advanced(k, n + 1)
    BY <2>1, <2>2, <2>5
  <2>7. Advanced(k, 0) = k
    <3>1. Advanced(k, 0) = <<k[1], k[2] + 0>> /\ k[2] + 0 = k[2]
      BY <2>1, <2>2
    <3> QED
      BY <2>1, <3>1
  <2>8. Incremented(k) = Advanced(k, 1)
    BY <1>2 DEF Advanced, Incremented
  <2> QED
    BY <1>2, <2>3, <2>4, <2>6, <2>7, <2>8
<1> QED
  BY <1>1, <1>2

\* A key left behind stays behind.
LEMMA PastFacts ==
  ASSUME NEW l \in Keys
  PROVE  /\ \A k \in Keys : Past(k, l) => Past(k, Advanced(l, 1))
         /\ \A k \in Keys : Past(k, l) /\ k # NoKey => k # l
         /\ IsSession(l) \/ l = NoKey => Past(l, Advanced(l, 1))
<1>1. CASE l = NoKey
  <2>1. Advanced(l, 1) = NoKey /\ ~IsSession(l)
    BY <1>1, KeyFacts DEF Advanced
  <2> QED
    BY <1>1, <2>1 DEF Past
<1>2. CASE l # NoKey
  <2>1. l[1] \in Secrets /\ l[2] \in Nat /\ (IsSession(l) <=> l[1] = ServerNonce)
    BY <1>2, KeyFacts
  <2>2. Advanced(l, 1) = <<l[1], l[2] + 1>>
    BY <1>2 DEF Advanced
  <2>3. /\ Advanced(l, 1) # NoKey /\ Advanced(l, 1)[2] = l[2] + 1
        /\ IsSession(Advanced(l, 1)) <=> IsSession(l)
    <3>1. l[2] + 1 \in Nat
      BY <2>1
    <3>2. /\ <<l[1], l[2] + 1>> # NoKey
          /\ <<l[1], l[2] + 1>>[2] = l[2] + 1
      BY <2>1, <3>1, KeyFacts
    <3>3. IsSession(Advanced(l, 1)) <=> IsSession(l)
      BY AdvancedFacts
    <3> QED
      BY <2>2, <3>2, <3>3
  <2>4. ASSUME NEW k \in Keys, Past(k, l)
        PROVE  Past(k, Advanced(l, 1)) /\ k # l
    <3>1. k # NoKey /\ IsSession(l) /\ (IsSession(k) => k[2] < l[2])
      BY <1>2, <2>4 DEF Past
    <3>2. IsSession(k) => k[2] \in Nat
      BY <3>1, KeyFacts
    <3> QED
      BY <2>1, <2>3, <3>1, <3>2 DEF Past
  <2> QED
    BY <1>2, <2>1, <2>3, <2>4 DEF Past
<1> QED
  BY <1>1, <1>2

\* The queue of a side, as what it holds and what is on its way.
LEMMA QueueFacts ==
  ASSUME WellTyped, NEW s \in Sides
  PROVE  /\ buf[s] \in Seq(Units) /\ stream[s] \in Seq(Units)
         /\ Queue(s) \in Seq(Units) /\ Len(Queue(s)) = Len(buf[s]) + Len(stream[s])
         /\ Len(buf[s]) \in Nat /\ Len(stream[s]) \in Nat /\ Len(Queue(s)) \in Nat
         /\ \A i \in 1 .. Len(Queue(s)) : Queue(s)[i] \in Units
         /\ \A i \in 1 .. Len(buf[s]) + Len(stream[s]) :
              Queue(s)[i] = IF i <= Len(buf[s]) THEN buf[s][i]
                                                ELSE stream[s][i - Len(buf[s])]
<1>1. buf[s] \in Seq(Units) /\ stream[s] \in Seq(Units)
  BY DEF WellTyped
<1>2. /\ Queue(s) \in Seq(Units) /\ Len(Queue(s)) = Len(buf[s]) + Len(stream[s])
      /\ \A i \in 1 .. Len(buf[s]) + Len(stream[s]) :
           Queue(s)[i] = IF i <= Len(buf[s]) THEN buf[s][i]
                                             ELSE stream[s][i - Len(buf[s])]
  BY <1>1, ConcatProperties DEF Queue
<1>3. \A i \in 1 .. Len(Queue(s)) : Queue(s)[i] \in Units
  BY <1>2, ElementOfSeq
<1> QED
  BY <1>1, <1>2, <1>3, LenProperties

\* The first unit of a queue is taken off, and what remains stays in its order.
LEMMA ReceivedFacts ==
  ASSUME WellTyped, NEW s \in Sides, NEW r \in Received(s)
  PROVE  /\ Len(Queue(s)) \in Nat \ {0}
         /\ Head(r[1]) = Queue(s)[1] /\ Head(r[1]) \in Units
         /\ Tail(r[1]) \in Seq(Units) /\ r[2] \in Seq(Units)
         /\ Len(Tail(r[1])) + Len(r[2]) = Len(Queue(s)) - 1
         /\ Len(Tail(r[1])) \in Nat /\ Len(r[2]) \in Nat
         /\ Tail(r[1]) \o r[2] \in Seq(Units)
         /\ \A i \in 1 .. Len(Queue(s)) - 1 : (Tail(r[1]) \o r[2])[i] = Queue(s)[i + 1]
         /\ \A i \in 1 .. Len(r[2]) : \E j \in 1 .. Len(Queue(s)) : r[2][i] = Queue(s)[j]
<1> DEFINE front == r[1]
           rest == r[2]
<1>1. /\ front \in Seq(Units) /\ rest \in Seq(Units) /\ front # <<>>
      /\ front \o rest = Queue(s)
  <2>1. /\ buf[s] \in Seq(Units) /\ stream[s] \in Seq(Units)
        /\ Len(buf[s]) \in Nat /\ Len(stream[s]) \in Nat
    BY QueueFacts
  <2>2. CASE buf[s] # <<>>
    <3>1. r = <<buf[s], stream[s]>>
      BY <2>2 DEF Received
    <3> QED
      BY <2>1, <2>2, <3>1 DEF Queue
  <2>3. CASE buf[s] = <<>>
    <3> DEFINE t == stream[s]
    <3>1. PICK k \in 1 .. Len(t) :
            r = <<SubSeq(t, 1, k), SubSeq(t, k + 1, Len(t))>>
      BY <2>3 DEF Received
    <3>2. Queue(s) = t
      BY <2>1, <2>3, ConcatEmptySeq DEF Queue
    <3>3. t \in Seq(Units) /\ Len(t) \in Nat /\ k \in Nat /\ k >= 1 /\ k <= Len(t)
      BY <2>1
    <3> HIDE DEF t
    <3>4. /\ SubSeq(t, 1, k) \in Seq(Units)
          /\ Len(SubSeq(t, 1, k)) = IF 1 <= k THEN k - 1 + 1 ELSE 0
      <4>1. 1 \in Int /\ k \in Int /\ \A i \in 1 .. k : t[i] \in Units
        BY <3>3, ElementOfSeq
      <4> QED
        BY <4>1, SubSeqProperties
    <3>5. SubSeq(t, k + 1, Len(t)) \in Seq(Units)
      <4>1. k + 1 \in Int /\ Len(t) \in Int /\ \A i \in k + 1 .. Len(t) : t[i] \in Units
        BY <3>3, ElementOfSeq
      <4> QED
        BY <4>1, SubSeqProperties
    <3>6. SubSeq(t, 1, k) \o SubSeq(t, k + 1, Len(t)) = t
      <4>1. /\ 1 \in 1 .. Len(t) + 1 /\ k \in 1 - 1 .. Len(t) /\ Len(t) \in k .. Len(t)
        BY <3>3
      <4>2. SubSeq(t, 1, k) \o SubSeq(t, k + 1, Len(t)) = SubSeq(t, 1, Len(t))
        BY <3>3, <4>1, ConcatAdjacentSubSeq
      <4> QED
        BY <3>3, <4>2, SubSeqFull
    <3>7. SubSeq(t, 1, k) # <<>>
      BY <3>3, <3>4, EmptySeq
    <3> QED
      BY <3>1, <3>2, <3>4, <3>5, <3>6, <3>7
  <2> QED
    BY <2>2, <2>3
<1> HIDE DEF front, rest
<1> DEFINE tail == Tail(front)
<1>2. /\ Head(front) = front[1] /\ front[1] \in Units
      /\ tail \in Seq(Units) /\ Len(tail) = Len(front) - 1
      /\ Len(front) \in Nat \ {0} /\ Len(rest) \in Nat
      /\ \A i \in 1 .. Len(tail) : tail[i] = front[i + 1]
  <2>1. Len(front) \in Nat /\ Len(front) # 0 /\ Len(rest) \in Nat
    BY <1>1, LenProperties, EmptySeq
  <2>2. /\ Head(front) \in Units /\ tail \in Seq(Units)
        /\ Len(tail) = Len(front) - 1 /\ Head(front) = front[1]
    BY <1>1, HeadTailProperties, <2>1
  <2>3. \A i \in 1 .. Len(tail) : tail[i] = front[i + 1]
    BY <1>1, HeadTailProperties
  <2> QED
    BY <2>1, <2>2, <2>3
<1> HIDE DEF tail
<1>3. /\ Len(Queue(s)) = Len(front) + Len(rest)
      /\ \A i \in 1 .. Len(front) + Len(rest) :
           Queue(s)[i] = IF i <= Len(front) THEN front[i] ELSE rest[i - Len(front)]
  BY <1>1, ConcatProperties
<1>4. /\ tail \o rest \in Seq(Units)
      /\ \A i \in 1 .. Len(tail) + Len(rest) :
           (tail \o rest)[i] = IF i <= Len(tail) THEN tail[i] ELSE rest[i - Len(tail)]
  BY <1>1, <1>2, ConcatProperties
<1>5. Queue(s)[1] = front[1]
  BY <1>2, <1>3
<1>6. ASSUME NEW i \in 1 .. Len(Queue(s)) - 1
      PROVE  (tail \o rest)[i] = Queue(s)[i + 1]
  <2>1. /\ i \in 1 .. Len(tail) + Len(rest) /\ i + 1 \in 1 .. Len(front) + Len(rest)
        /\ i <= Len(tail) <=> i + 1 <= Len(front)
        /\ i - Len(tail) = i + 1 - Len(front)
        /\ i <= Len(tail) => i \in 1 .. Len(tail)
    BY <1>2, <1>3
  <2> QED
    BY <1>2, <1>3, <1>4, <2>1
<1>7. ASSUME NEW i \in 1 .. Len(rest)
      PROVE  \E j \in 1 .. Len(Queue(s)) : rest[i] = Queue(s)[j]
  <2>1. /\ Len(front) + i \in 1 .. Len(front) + Len(rest)
        /\ ~(Len(front) + i <= Len(front)) /\ Len(front) + i - Len(front) = i
    BY <1>2
  <2> QED
    BY <1>3, <2>1
<1>8. /\ Len(Queue(s)) \in Nat \ {0} /\ Len(tail) + Len(rest) = Len(Queue(s)) - 1
      /\ Len(tail) \in Nat
  BY <1>2, <1>3
<1> QED
  BY <1>1, <1>2, <1>4, <1>5, <1>6, <1>7, <1>8 DEF front, rest, tail

------------------------------------------------------------------------------
(* What steps do to a queue. *)

Still(s) == Queue(s)' = Queue(s)

Grown(s, u) ==
  /\ Len(Queue(s)') = Len(Queue(s)) + 1
  /\ Queue(s)'[Len(Queue(s)) + 1] = u
  /\ \A i \in 1 .. Len(Queue(s)) : Queue(s)'[i] = Queue(s)[i]

Shrunk(s) ==
  /\ Len(Queue(s)') = Len(Queue(s)) - 1
  /\ \A i \in 1 .. Len(Queue(s)) - 1 : Queue(s)'[i] = Queue(s)[i + 1]

\* Some of it may be gone.
Left(s) ==
  /\ Len(Queue(s)') \in 0 .. Len(Queue(s))
  /\ \A i \in 1 .. Len(Queue(s)') :
       \E j \in 1 .. Len(Queue(s)) : Queue(s)'[i] = Queue(s)[j]

BuffersTyped == buf \in [Sides -> Seq(Units)] /\ stream \in [Sides -> Seq(Units)]

\* The two sides.
LEMMA SidesFacts ==
  /\ Sides = {"client", "server"} /\ "client" \in Sides /\ "server" \in Sides
  /\ Peer("client") = "server" /\ Peer("server") = "client"
  /\ \A s \in Sides : Peer(s) \in Sides /\ Peer(s) # s
BY DEF Sides, Peer

\* A queue nothing is done to.
LEMMA StillFacts ==
  ASSUME NEW s, buf'[s] = buf[s], stream'[s] = stream[s]
  PROVE  Still(s)
BY DEF Still, Queue

\* The second part of a sequence is in the whole.
LEMMA SecondPart ==
  ASSUME NEW b \in Seq(Units), NEW t \in Seq(Units)
  PROVE  /\ \A i \in 1 .. Len(t) : \E j \in 1 .. Len(b \o t) : t[i] = (b \o t)[j]
         /\ Len(b \o t) = 0 => b = <<>> /\ Len(t) = 0
         /\ Len(t) \in 0 .. Len(b \o t)
<1> DEFINE w == b \o t
           m == Len(b)
           n == Len(t)
<1>1. /\ m \in Nat /\ n \in Nat /\ Len(w) = m + n
      /\ \A i \in 1 .. m + n : w[i] = IF i <= m THEN b[i] ELSE t[i - m]
      /\ m = 0 => b = <<>>
  BY ConcatProperties, LenProperties, EmptySeq
<1> HIDE DEF w, m, n
<1>2. ASSUME NEW i \in 1 .. n PROVE \E j \in 1 .. Len(w) : t[i] = w[j]
  <2>1. m + i \in 1 .. m + n /\ ~(m + i <= m) /\ (m + i) - m = i
    BY <1>1
  <2>2. w[m + i] = t[i]
    BY <1>1, <2>1
  <2> QED
    BY <1>1, <2>1, <2>2
<1>3. (Len(w) = 0 => m = 0 /\ n = 0) /\ n \in 0 .. Len(w)
  BY <1>1
<1> QED
  BY <1>1, <1>2, <1>3 DEF w, m, n

\* A buffer that is reset, or not, before what is on its way.
LEMMA LeftFacts ==
  ASSUME WellTyped, NEW s \in Sides, buf'[s] = buf[s] \/ buf'[s] = <<>>,
         stream'[s] = stream[s]
  PROVE  /\ Left(s)
         /\ Nothing(s) => Len(Queue(s)') = 0 /\ buf[s] = <<>>
<1>1. /\ \A i \in 1 .. Len(stream[s]) :
           \E j \in 1 .. Len(Queue(s)) : stream[s][i] = Queue(s)[j]
      /\ Nothing(s) => buf[s] = <<>> /\ Len(stream[s]) = 0
      /\ Len(stream[s]) \in 0 .. Len(Queue(s))
  BY QueueFacts, SecondPart DEF Queue, Nothing
<1>2. CASE buf'[s] = buf[s]
  <2>1. Queue(s)' = Queue(s)
    BY <1>2, StillFacts DEF Still
  <2> QED
    BY <1>1, <2>1, QueueFacts DEF Left, Nothing
<1>3. CASE buf'[s] = <<>>
  <2>1. Queue(s)' = stream[s]
    <3>1. <<>> \o stream[s] = stream[s]
      BY QueueFacts, ConcatEmptySeq
    <3> QED
      BY <1>3, <3>1 DEF Queue
  <2> QED
    BY <1>1, <2>1, QueueFacts DEF Left
<1> QED
  BY <1>2, <1>3

\* A unit sent is the last of the other side's queue; the sender's buffer may be
\* reset.
LEMMA Sending ==
  ASSUME WellTyped, NEW s \in Sides, NEW u \in Units, Sends(s, u),
         buf' = buf \/ buf' = [buf EXCEPT ![s] = <<>>]
  PROVE  /\ BuffersTyped'
         /\ Grown(Peer(s), u) /\ Left(s)
         /\ buf' = buf => Still(s)
         /\ Nothing(s) => Len(Queue(s)') = 0 /\ buf[s] = <<>>
<1> DEFINE p == Peer(s)
<1>1. p \in Sides /\ p # s
  BY SidesFacts
<1>2. /\ buf'[p] = buf[p] /\ stream'[s] = stream[s]
      /\ stream'[p] = Append(stream[p], u)
      /\ buf'[s] = buf[s] \/ buf'[s] = <<>>
  BY <1>1 DEF Sends, WellTyped
<1>3. buf[p] \in Seq(Units) /\ stream[p] \in Seq(Units) /\ Queue(p) \in Seq(Units)
  BY <1>1, QueueFacts
<1>4. BuffersTyped'
  <2>1. <<>> \in Seq(Units) /\ Append(stream[p], u) \in Seq(Units)
    BY <1>3, EmptySeq, AppendProperties
  <2> QED
    BY <1>1, <2>1 DEF BuffersTyped, Sends, WellTyped
<1>5. Queue(p)' = Append(Queue(p), u)
  <2>1. <<u>> \in Seq(Units)
    OBVIOUS
  <2>2. Append(stream[p], u) = stream[p] \o <<u>>
    BY <1>3, AppendIsConcat
  <2>3. Append(Queue(p), u) = Queue(p) \o <<u>>
    BY <1>3, AppendIsConcat
  <2>4. (buf[p] \o stream[p]) \o <<u>> = buf[p] \o (stream[p] \o <<u>>)
    <3> DEFINE b == buf[p]
               t == stream[p]
               v == <<u>>
    <3>1. b \in Seq(Units) /\ t \in Seq(Units) /\ v \in Seq(Units)
      BY <1>3, <2>1
    <3> HIDE DEF b, t, v
    <3>2. (b \o t) \o v = b \o (t \o v)
      BY <3>1, ConcatAssociative
    <3> QED
      BY <3>2 DEF b, t, v
  <2> QED
    BY <1>2, <2>2, <2>3, <2>4 DEF Queue
<1>6. Grown(p, u)
  BY <1>3, <1>5, AppendProperties DEF Grown
<1>7. Left(s) /\ (Nothing(s) => Len(Queue(s)') = 0 /\ buf[s] = <<>>)
  BY <1>2, LeftFacts
<1>8. buf' = buf => Still(s)
  BY <1>2, StillFacts
<1> QED
  BY <1>4, <1>6, <1>7, <1>8

\* A queue that grew by a unit.
LEMMA GrownFacts ==
  ASSUME NEW s, NEW u, Grown(s, u), Len(Queue(s)) \in Nat
  PROVE  \A i \in 1 .. Len(Queue(s)') :
           \/ i \in 1 .. Len(Queue(s)) /\ Queue(s)'[i] = Queue(s)[i]
           \/ i = Len(Queue(s)) + 1 /\ Queue(s)'[i] = u
BY DEF Grown

\* Queues of one unit or two.
LEMMA ShortQueues ==
  ASSUME NEW s, NEW u
  PROVE  /\ Grown(s, u) /\ Len(Queue(s)) = 0
              => Len(Queue(s)') = 1 /\ Queue(s)'[1] = u
         /\ Grown(s, u) /\ Len(Queue(s)) = 1
              => /\ Len(Queue(s)') = 2
                 /\ Queue(s)'[1] = Queue(s)[1] /\ Queue(s)'[2] = u
         /\ Shrunk(s) /\ Len(Queue(s)) = 1 => Len(Queue(s)') = 0
         /\ Shrunk(s) /\ Len(Queue(s)) = 2
              => Len(Queue(s)') = 1 /\ Queue(s)'[1] = Queue(s)[2]
<1> DEFINE l == Len(Queue(s))
           m == Len(Queue(s)')
           G == /\ m = l + 1
                /\ Queue(s)'[l + 1] = u
                /\ \A i \in 1 .. l : Queue(s)'[i] = Queue(s)[i]
           S == /\ m = l - 1
                /\ \A i \in 1 .. l - 1 : Queue(s)'[i] = Queue(s)[i + 1]
<1>1. (Grown(s, u) => G) /\ (Shrunk(s) => S)
  BY DEF Grown, Shrunk
<1> HIDE DEF l, m
<1>2. G /\ l = 0 => m = 1 /\ Queue(s)'[1] = u
  OBVIOUS
<1>3. G /\ l = 1 => m = 2 /\ Queue(s)'[1] = Queue(s)[1] /\ Queue(s)'[2] = u
  OBVIOUS
<1>4. S /\ l = 1 => m = 0
  OBVIOUS
<1>5. S /\ l = 2 => m = 1 /\ Queue(s)'[1] = Queue(s)[2]
  OBVIOUS
<1> HIDE DEF G, S
<1> QED
  BY <1>1, <1>2, <1>3, <1>4, <1>5 DEF l, m

\* What remains of a queue was in it.
LEMMA ShrunkFacts ==
  ASSUME NEW s, Shrunk(s), Len(Queue(s)) \in Nat \ {0}
  PROVE  Left(s)
<1> DEFINE l == Len(Queue(s))
           m == Len(Queue(s)')
<1>1. /\ l \in Nat \ {0} /\ m = l - 1
      /\ \A i \in 1 .. l - 1 : Queue(s)'[i] = Queue(s)[i + 1]
  BY DEF Shrunk
<1> HIDE DEF l, m
<1>2. m \in 0 .. l /\ \A i \in 1 .. m : i \in 1 .. l - 1 /\ i + 1 \in 1 .. l
  BY <1>1
<1> QED
  BY <1>1, <1>2 DEF Left, l, m

\* The first unit is pulled.
LEMMA Pulling ==
  ASSUME WellTyped, NEW s \in Sides, NEW r \in Received(s), Pulls(s, r)
  PROVE  /\ BuffersTyped' /\ Shrunk(s) /\ Left(s) /\ Still(Peer(s))
         /\ discarded' = discarded
<1>1. Peer(s) \in Sides /\ Peer(s) # s
  BY SidesFacts
<1>2. /\ Tail(r[1]) \in Seq(Units) /\ r[2] \in Seq(Units)
      /\ Len(Tail(r[1])) + Len(r[2]) = Len(Queue(s)) - 1
      /\ \A i \in 1 .. Len(Queue(s)) - 1 : (Tail(r[1]) \o r[2])[i] = Queue(s)[i + 1]
  BY ReceivedFacts
<1>3. /\ buf' = [buf EXCEPT ![s] = Tail(r[1])]
      /\ stream' = [stream EXCEPT ![s] = r[2]]
      /\ discarded' = discarded
  BY DEF Pulls
<1> DEFINE front == Tail(r[1])
           rest == r[2]
<1>4. /\ buf'[s] = front /\ stream'[s] = rest
      /\ buf'[Peer(s)] = buf[Peer(s)] /\ stream'[Peer(s)] = stream[Peer(s)]
  BY <1>1, <1>3 DEF WellTyped
<1>5. BuffersTyped'
  BY <1>2, <1>3 DEF BuffersTyped, WellTyped
<1> HIDE DEF front, rest
<1>6. Queue(s)' = front \o rest
  BY <1>4 DEF Queue
<1>7. Len(front \o rest) = Len(Queue(s)) - 1
  BY <1>2, ConcatProperties DEF front, rest
<1>8. Shrunk(s)
  BY <1>2, <1>6, <1>7 DEF Shrunk, front, rest
<1>9. Left(s)
  BY <1>8, ReceivedFacts, ShrunkFacts
<1> QED
  BY <1>3, <1>4, <1>5, <1>8, <1>9, StillFacts

\* It is pulled, and the buffer reset: with no other nothing is lost.
LEMMA PullingAndResetting ==
  ASSUME WellTyped, NEW s \in Sides, NEW r \in Received(s), PullsAndResets(s, r)
  PROVE  /\ BuffersTyped' /\ Left(s) /\ Still(Peer(s))
         /\ Len(Queue(s)) = 1 => Len(Queue(s)') = 0 /\ discarded' = discarded
<1>1. Peer(s) \in Sides /\ Peer(s) # s
  BY SidesFacts
<1>2. /\ Tail(r[1]) \in Seq(Units) /\ r[2] \in Seq(Units)
      /\ Len(Tail(r[1])) + Len(r[2]) = Len(Queue(s)) - 1
      /\ Len(Tail(r[1])) \in Nat /\ Len(r[2]) \in Nat
      /\ \A i \in 1 .. Len(r[2]) : \E j \in 1 .. Len(Queue(s)) : r[2][i] = Queue(s)[j]
  BY ReceivedFacts
<1>3. /\ buf' = [buf EXCEPT ![s] = <<>>]
      /\ stream' = [stream EXCEPT ![s] = r[2]]
      /\ discarded' = (discarded \/ Tail(r[1]) # <<>>)
  BY DEF PullsAndResets
<1>4. /\ buf'[s] = <<>> /\ stream'[s] = r[2]
      /\ buf'[Peer(s)] = buf[Peer(s)] /\ stream'[Peer(s)] = stream[Peer(s)]
  BY <1>1, <1>3 DEF WellTyped
<1>5. BuffersTyped'
  <2>1. <<>> \in Seq(Units)
    BY EmptySeq
  <2> QED
    BY <1>2, <1>3, <2>1 DEF BuffersTyped, WellTyped
<1> DEFINE rest == r[2]
<1>6. Queue(s)' = rest
  <2>1. <<>> \o rest = rest
    BY <1>2, ConcatEmptySeq
  <2> HIDE DEF rest
  <2>2. stream'[s] = rest
    BY <1>4 DEF rest
  <2> QED
    BY <1>4, <2>1, <2>2 DEF Queue
<1>7. Left(s)
  <2>1. Len(r[2]) \in 0 .. Len(Queue(s))
    <3> DEFINE l == Len(Queue(s))
               m == Len(Tail(r[1]))
               n == Len(r[2])
    <3>1. m \in Nat /\ n \in Nat /\ m + n = l - 1 /\ l \in Nat
      BY <1>2, QueueFacts
    <3> HIDE DEF l, m, n
    <3>2. n \in 0 .. l
      BY <3>1
    <3> QED
      BY <3>2 DEF l, n
  <2> QED
    BY <1>2, <1>6, <2>1 DEF Left
<1>8. Len(Queue(s)) = 1 => Len(rest) = 0 /\ Tail(r[1]) = <<>>
  <2>1. Len(Queue(s)) = 1 => Len(r[2]) = 0 /\ Len(Tail(r[1])) = 0
    <3> DEFINE l == Len(Queue(s))
               m == Len(Tail(r[1]))
               n == Len(r[2])
    <3>1. m \in Nat /\ n \in Nat /\ m + n = l - 1 /\ l \in Nat
      BY <1>2, QueueFacts
    <3> HIDE DEF l, m, n
    <3>2. l = 1 => n = 0 /\ m = 0
      BY <3>1
    <3> QED
      BY <3>2 DEF l, m, n
  <2>2. Len(Tail(r[1])) = 0 => Tail(r[1]) = <<>>
    BY <1>2, EmptySeq
  <2> QED
    BY <2>1, <2>2
<1>9. discarded \in BOOLEAN
  BY DEF WellTyped, TypeOK
<1> QED
  BY <1>3, <1>4, <1>5, <1>6, <1>7, <1>8, <1>9, StillFacts

------------------------------------------------------------------------------
(* What the steps of the invariant's proof share. *)

\* The units by their kinds.
LEMMA UnitFacts ==
  /\ \A u \in Units : u.kind \in {"header", "nonce", "message"}
  /\ \A u \in Units : u.kind = "message" => u.key \in Keys /\ u.body \in Bodies
  /\ ClientNonce \in Units /\ ClientNonce.kind = "nonce"
  /\ \A k \in Keys, b \in Bodies :
       /\ Message(k, b) \in Units
       /\ Message(k, b).kind = "message" /\ Message(k, b).key = k
       /\ Message(k, b).body = b
BY DEF Units, ClientNonce, Message

\* The header of the client.
LEMMA HeaderFacts ==
  ASSUME TypeOK
  PROVE  /\ Header(settings) \in Units /\ Header(settings).kind = "header"
         /\ Header(settings).type = settings.type
         /\ settings.type \in Types /\ (Secret <=> settings.type # "RAW")
         /\ ReadID(Header(settings)) \in IDs
         /\ settings.id[1] = {} => ReadID(Header(settings)) = settings.id
<1>1. /\ settings.id \in Halves \X Halves /\ settings.type \in Types
      /\ settings.id = <<settings.id[1], settings.id[2]>>
      /\ settings.id[1] \in Halves /\ settings.id[2] \in Halves
  BY DEF TypeOK, IDs
<1> DEFINE hi == settings.id[1]
           lo == settings.id[2]
<1>2. Header(settings) = [kind |-> "header", type |-> settings.type, hi |-> hi, lo |-> lo]
  BY DEF Header
<1>3. hi \in Halves /\ lo \in Halves /\ settings.id = <<hi, lo>>
  BY <1>1
<1> HIDE DEF hi, lo
<1>4. /\ Header(settings) \in Units /\ Header(settings).kind = "header"
      /\ Header(settings).type = settings.type
      /\ Header(settings).hi = hi /\ Header(settings).lo = lo
  BY <1>1, <1>2, <1>3 DEF Units
<1>5. ReadID(Header(settings)) = <<{}, hi \union lo>>
  BY <1>4 DEF ReadID
<1>6. {} \in Halves /\ hi \union lo \in Halves
  BY <1>3 DEF Halves
<1>7. <<{}, hi \union lo>> \in IDs
  BY <1>6 DEF IDs
<1>8. hi = {} => <<{}, hi \union lo>> = <<hi, lo>>
  <2>1. hi = {} => hi \union lo = lo
    OBVIOUS
  <2> QED
    BY <2>1
<1> QED
  BY <1>1, <1>3, <1>4, <1>5, <1>7, <1>8 DEF Secret, Types, hi

\* The types that do not depend on the step.
LEMMA TypedFacts ==
  ASSUME WellTyped
  PROVE  /\ key["client"] \in Keys /\ key["server"] \in Keys
         /\ settings.password \in Secrets /\ settings.password # ServerNonce
         /\ principal.password \in Secrets /\ principal.password # ServerNonce
         /\ Key(principal.password) \in Keys /\ Key(settings.password) \in Keys
         /\ NonceMessage \in Units /\ AuthMessage \in Units /\ KOMessage \in Units
<1>1. /\ settings.password \in Secrets /\ settings.password # ServerNonce
      /\ principal.password \in Secrets /\ principal.password # ServerNonce
  BY NonceAssumption DEF WellTyped, TypeOK, Principals, Secrets
<1>2. Key(principal.password) \in Keys /\ Key(settings.password) \in Keys
  BY <1>1, KeyFacts DEF Key
<1>3. SessionKey(0) \in Keys
  BY KeyFacts
<1> QED
  BY <1>1, <1>2, <1>3, UnitFacts, SidesFacts
  DEF WellTyped, NonceMessage, AuthMessage, KOMessage, Bodies

\* The kinds of what is on its way, as the type invariant has it.
LEMMA KindFacts ==
  ASSUME NEW f \in [Sides -> Seq(Units)]
  PROVE  /\ DOMAIN f = Sides
         /\ \A s \in Sides : \A i \in 1 .. Len(f[s]) :
              f[s][i].kind \in {"header", "nonce", "message"}
<1> SUFFICES ASSUME NEW s \in Sides, NEW i \in 1 .. Len(f[s])
             PROVE  f[s][i].kind \in {"header", "nonce", "message"}
  OBVIOUS
<1>1. f[s] \in Seq(Units)
  OBVIOUS
<1>2. f[s][i] \in Units
  BY <1>1, ElementOfSeq
<1> QED
  BY <1>2, UnitFacts

\* The steps that end the client's handshake: some of what it had received may be
\* gone, and what it took last may have opened, or not.
LEMMA ClientFailsInv ==
  ASSUME IInv, result["client"] = "none",
         pc' = [pc EXCEPT !["client"] = "closed"],
         result' = [result EXCEPT !["client"] = "error"],
         UNCHANGED <<settings, hasPath, principal, type, key, sent, started>>,
         BuffersTyped', Left("client"), Still("server"),
         discarded' \in BOOLEAN,
         \/ opened' = opened /\ garbled' = garbled
         \/ /\ ~Nothing("client")
            /\ opened' \subseteq Keys
            /\ \A k \in opened' : Past(k, key["client"]) /\ Past(k, key["server"])
            /\ garbled' \subseteq Bodies
            /\ Duplex \/ OpensWhatIsSent'
  PROVE  IInv'
<1>1. /\ pc \in [Sides -> ClientPCs \union ServerPCs]
      /\ result \in [Sides -> {"none", "ok", "zero", "error"}]
  BY DEF IInv, WellTyped, TypeOK
<1>2. /\ pc'["client"] = "closed" /\ pc'["server"] = pc["server"]
      /\ result'["client"] = "error" /\ result'["server"] = result["server"]
      /\ pc["client"] \in ClientShakes
  BY <1>1, SidesFacts DEF IInv, Results
<1>3. WellTyped'
  <2>1. pc' \in [Sides -> ClientPCs \union ServerPCs]
    BY <1>1 DEF ClientPCs
  <2>2. pc'["client"] \in ClientPCs /\ pc'["server"] \in ServerPCs
    BY <1>1, <1>2 DEF IInv, WellTyped, TypeOK, ClientPCs
  <2>3. result' \in [Sides -> {"none", "ok", "zero", "error"}]
    BY <1>1
  <2>4. opened' \subseteq Keys /\ garbled' \subseteq Bodies
    BY DEF IInv, WellTyped, TypeOK, Bodies
  <2>5. buf' \in [Sides -> Seq(Units)] /\ stream' \in [Sides -> Seq(Units)]
    BY DEF BuffersTyped
  <2>6. /\ DOMAIN pc' = Sides /\ DOMAIN buf' = Sides /\ DOMAIN stream' = Sides
        /\ \A t \in Sides : \A i \in 1 .. Len(stream'[t]) :
             stream'[t][i].kind \in {"header", "nonce", "message"}
    BY <2>1, <2>5, KindFacts
  <2> QED
    BY <2>1, <2>2, <2>3, <2>4, <2>5, <2>6 DEF IInv, WellTyped, TypeOK, Bodies
<1>4. Queue("server")' = Queue("server")
  BY DEF Still
<1>5. Results'
  BY <1>1, <1>2, SidesFacts DEF IInv, Results, ClientShakes
<1>6. Granted'
  BY <1>2 DEF IInv, Granted, Results, Secret, SamePassword
<1>7. Starts'
  BY <1>2, <1>4 DEF IInv, Starts, ClientShakes
<1>8. ServerSide'
  <2>1. pc["server"] \in {"recvHello", "recvNonce", "sendNonce"} =>
          Nothing("client")' /\ opened' = {} /\ garbled' = {}
    BY DEF IInv, ServerSide, ServerSilent, Nothing, Left
  <2> QED
    BY <1>2, <1>4, <2>1
    DEF IInv, ServerSide, ServerHello, ServerNonces, ServerSilent, ServerAuth,
        ServerOK, ServerData, Nothing, Only, Consecutive, Secret, SamePassword
<1>9. ClientSide' /\ Together'
  BY <1>2 DEF ClientSide, ClientBegins, ClientUnheard, ClientNonces, ClientEntitled,
              ClientAuths, ClientAwaitsOK, ClientData, Together, ClientLive
<1>10. Refusals'
  BY <1>2 DEF IInv, Refusals, Left, Secret, ClientLive
<1>11. Behind'
  BY <1>2, <1>4 DEF IInv, Behind, Left
<1>12. NothingDiscarded'
  BY <1>2, SidesFacts DEF NothingDiscarded
<1>13. Duplex \/ OpensWhatIsSent'
  BY DEF IInv, OpensWhatIsSent
<1> QED
  BY <1>3, <1>5, <1>6, <1>7, <1>8, <1>9, <1>10, <1>11, <1>12, <1>13 DEF IInv

\* The steps that end the server's handshake with an error: some of what it had
\* received may be gone, and where "#AUTH" was due it says "#KO".
LEMMA ServerFailsInv ==
  ASSUME IInv, result["server"] = "none",
         pc' = [pc EXCEPT !["server"] = "closed"],
         result' = [result EXCEPT !["server"] = "error"],
         UNCHANGED <<settings, hasPath, principal, type, key, sent, started,
                     opened, garbled>>,
         BuffersTyped', Left("server"),
         \/ Still("client")
         \/ pc["server"] = "recvAuth" /\ Grown("client", KOMessage),
         discarded' \in BOOLEAN
  PROVE  IInv'
<1>1. /\ pc \in [Sides -> ClientPCs \union ServerPCs]
      /\ result \in [Sides -> {"none", "ok", "zero", "error"}]
  BY DEF IInv, WellTyped, TypeOK
<1>2. /\ pc'["server"] = "closed" /\ pc'["client"] = pc["client"]
      /\ result'["server"] = "error" /\ result'["client"] = result["client"]
      /\ pc["server"] \in ServerShakes
  BY <1>1, SidesFacts DEF IInv, Results
<1>3. WellTyped'
  <2>1. pc' \in [Sides -> ClientPCs \union ServerPCs]
    BY <1>1 DEF ClientPCs
  <2>2. pc'["client"] \in ClientPCs /\ pc'["server"] \in ServerPCs
    BY <1>1, <1>2 DEF IInv, WellTyped, TypeOK, ServerPCs
  <2>3. result' \in [Sides -> {"none", "ok", "zero", "error"}]
    BY <1>1
  <2>4. buf' \in [Sides -> Seq(Units)] /\ stream' \in [Sides -> Seq(Units)]
    BY DEF BuffersTyped
  <2>5. /\ DOMAIN pc' = Sides /\ DOMAIN buf' = Sides /\ DOMAIN stream' = Sides
        /\ \A t \in Sides : \A i \in 1 .. Len(stream'[t]) :
             stream'[t][i].kind \in {"header", "nonce", "message"}
    BY <2>1, <2>4, KindFacts
  <2> QED
    BY <2>1, <2>2, <2>3, <2>4, <2>5 DEF IInv, WellTyped, TypeOK
<1>4. Results'
  BY <1>1, <1>2, SidesFacts DEF IInv, Results, ServerShakes
<1>5. Granted'
  BY <1>2 DEF IInv, Granted, ServerShakes, Secret, SamePassword
<1>6. Starts'
  BY <1>2 DEF IInv, Starts, Left, Results, ServerShakes
<1>7. ServerSide' /\ Together'
  BY <1>2 DEF ServerSide, ServerHello, ServerNonces, ServerSilent, ServerAuth,
              ServerOK, ServerData, Together, ServerLive
<1>8. Len(Queue("client")) \in Nat
  BY QueueFacts, SidesFacts DEF IInv
<1>9. /\ KOMessage.kind = "message" /\ KOMessage.body = "#KO"
      /\ KOMessage.key = SessionKey(0)
  BY KeyFacts, UnitFacts DEF KOMessage, Bodies
<1>10. ClientSide'
  <2>1. \A i \in 1 .. Len(Queue("server")') :
          \E j \in 1 .. Len(Queue("server")) : Queue("server")'[i] = Queue("server")[j]
    BY DEF Left
  <2>2. ClientBegins' /\ ClientUnheard' /\ ClientEntitled'
    <3>1. Nothing("client") /\ pc["client"] \in {"hello", "sendNonce"}
            => Still("client")
      BY DEF IInv, Together, ServerLive, ClientLive
    <3> QED
      BY <1>2, <2>1, <3>1
      DEF IInv, ClientSide, ClientBegins, ClientUnheard, ClientEntitled, Still,
          Nothing, Secret, SamePassword
  <2>3. CASE Still("client")
    <3>1. Queue("client")' = Queue("client")
      BY <2>3 DEF Still
    <3>2. ClientNonces' /\ ClientAuths'
      BY <1>2, <3>1 DEF IInv, ClientSide, ClientNonces, ClientAuths, Nothing, Only,
                        NonceMessage, KOMessage
    <3>3. ClientAwaitsOK'
      BY <1>2, <3>1 DEF IInv, ClientSide, ClientAwaitsOK, Nothing, Only, Secret,
                        KOMessage
    <3>4. ClientData'
      BY <1>2, <3>1 DEF IInv, ClientSide, ClientData, Nothing, Consecutive, Secret
    <3> QED
      BY <2>2, <3>2, <3>3, <3>4 DEF ClientSide
  <2>4. CASE pc["server"] = "recvAuth" /\ Grown("client", KOMessage)
    <3>1. pc["client"] = "closed" \/ pc["client"] \in {"recvNonce", "auth", "recvOK"}
      BY <2>4 DEF IInv, Together, ServerLive, ClientLive, Results, WellTyped, TypeOK,
                  ClientPCs
    <3>2. pc["client"] = "recvNonce" => Len(Queue("client")) = 1
      BY <2>4 DEF IInv, Together, ServerLive, ClientLive, Results
    <3>3. pc["client"] \in {"auth", "recvOK"} => Len(Queue("client")) = 0
      BY <2>4 DEF IInv, Together, ServerLive, ClientLive, Results, Nothing
    <3>4. Secret
      BY <2>4 DEF IInv, ServerSide, ServerAuth
    <3>5. pc["client"] = "recvNonce" =>
            /\ Len(Queue("client")') = 2
            /\ Queue("client")'[1] = NonceMessage /\ Queue("client")'[2] = KOMessage
      <4>1. pc["client"] = "recvNonce" => Queue("client")[1] = NonceMessage
        BY <3>2 DEF IInv, ClientSide, ClientNonces
      <4> QED
        BY <2>4, <3>2, <4>1, ShortQueues
    <3>6. pc["client"] \in {"auth", "recvOK"} =>
            Len(Queue("client")') = 1 /\ Queue("client")'[1] = KOMessage
      BY <2>4, <3>3, ShortQueues
    <3>7. ClientNonces' /\ ClientAuths'
      BY <1>2, <3>5, <3>6 DEF IInv, ClientSide, ClientNonces, ClientAuths, Nothing,
                              Only, NonceMessage, KOMessage
    <3>8. ClientAwaitsOK'
      BY <1>2, <3>4, <3>6 DEF IInv, ClientSide, ClientAwaitsOK, Nothing, Only, Secret,
                              KOMessage
    <3>9. ClientData'
      BY <1>2, <3>1 DEF ClientData
    <3> QED
      BY <2>2, <3>7, <3>8, <3>9 DEF ClientSide
  <2> QED
    BY <2>3, <2>4
<1>11. Refusals'
  <2>1. pc["server"] = "recvAuth" => Secret
    BY DEF IInv, ServerSide, ServerAuth
  <2> QED
    BY <1>2, <1>8, <1>9, <2>1 DEF IInv, Refusals, Still, Grown, Secret, ClientLive
<1>12. Behind'
  <2>1. CASE Still("client")
    BY <1>2, <2>1 DEF IInv, Behind, Left, Still
  <2>2. CASE Grown("client", KOMessage)
    <3>1. \A i \in 1 .. Len(Queue("client")') :
            \/ i \in 1 .. Len(Queue("client")) /\ Queue("client")'[i] = Queue("client")[i]
            \/ Queue("client")'[i] = KOMessage
      BY <1>8, <2>2, GrownFacts
    <3>2. \A i \in 1 .. Len(Queue("client")') : Queue("client")'[i].body # "#KO"
            => Past(Queue("client")'[i].key, key["server"])
      BY <1>9, <3>1 DEF IInv, Behind
    <3> QED
      BY <1>2, <3>2 DEF IInv, Behind, Left
  <2> QED
    BY <2>1, <2>2
<1>13. NothingDiscarded' /\ (Duplex \/ OpensWhatIsSent')
  BY <1>2, SidesFacts DEF IInv, NothingDiscarded, OpensWhatIsSent
<1> QED
  BY <1>3, <1>4, <1>5, <1>6, <1>7, <1>10, <1>11, <1>12, <1>13 DEF IInv


\* What the steps take from the invariant.
LEMMA Context ==
  ASSUME IInv
  PROVE  /\ pc \in [Sides -> ClientPCs \union ServerPCs]
         /\ pc["client"] \in ClientPCs /\ pc["server"] \in ServerPCs
         /\ result \in [Sides -> {"none", "ok", "zero", "error"}]
         /\ key \in [Sides -> Keys] /\ key["client"] \in Keys /\ key["server"] \in Keys
         /\ sent \in [Sides -> 0 .. MaxSent] /\ started \subseteq Sides
         /\ Len(Queue("client")) \in Nat /\ Len(Queue("server")) \in Nat
         /\ pc["client"] # "closed" /\ pc["server"] # "closed"
              => ServerLive /\ ClientLive
         /\ discarded \in BOOLEAN /\ garbled \subseteq Bodies /\ opened \subseteq Keys
<1>1. WellTyped
  BY DEF IInv
<1>2. Len(Queue("client")) \in Nat /\ Len(Queue("server")) \in Nat
  BY <1>1, QueueFacts, SidesFacts
<1>3. /\ result \in [Sides -> {"none", "ok", "zero", "error"}]
      /\ pc["server"] \in ServerPCs
  BY <1>1 DEF WellTyped, TypeOK
<1>4. pc["client"] # "closed" /\ pc["server"] # "closed" => ServerLive /\ ClientLive
  BY <1>3 DEF IInv, Results, ServerLive, ClientLive, ServerPCs, ServerShakes
<1>5. key["client"] \in Keys /\ key["server"] \in Keys
  BY <1>1, TypedFacts
<1> QED
  BY <1>1, <1>2, <1>3, <1>4, <1>5 DEF WellTyped, TypeOK, Bodies

\* The types after a step.
LEMMA NextTyped ==
  ASSUME WellTyped, settings' = settings, hasPath' = hasPath,
         principal' \in Principals,
         type' \in Types \union {"none"},
         pc' \in [Sides -> ClientPCs \union ServerPCs],
         pc'["client"] \in ClientPCs, pc'["server"] \in ServerPCs,
         result' \in [Sides -> {"none", "ok", "zero", "error"}],
         key' \in [Sides -> Keys], BuffersTyped',
         sent' \in [Sides -> 0 .. MaxSent], started' \subseteq Sides,
         discarded' \in BOOLEAN, garbled' \subseteq Bodies, opened' \subseteq Keys
  PROVE  WellTyped'
<1>1. buf' \in [Sides -> Seq(Units)] /\ stream' \in [Sides -> Seq(Units)]
  BY DEF BuffersTyped
<1>2. /\ DOMAIN buf' = Sides /\ DOMAIN stream' = Sides
      /\ \A t \in Sides : \A i \in 1 .. Len(stream'[t]) :
           stream'[t][i].kind \in {"header", "nonce", "message"}
  BY <1>1, KindFacts
<1>3. DOMAIN pc' = Sides /\ DOMAIN key' = Sides
  OBVIOUS
<1> QED
  BY <1>1, <1>2, <1>3 DEF WellTyped, TypeOK, Bodies

------------------------------------------------------------------------------
(* sendHandshake(). *)

\* The header: the server, if it still waits for one, has nothing before it.
LEMMA ClientHelloInv ==
  ASSUME IInv, ClientHello
  PROVE  IInv'
<1> DEFINE next == IF Secret THEN "sendNonce" ELSE "recvOK"
<1>1. /\ pc["client"] = "hello" /\ pc' = [pc EXCEPT !["client"] = next]
      /\ Sends("client", Header(settings)) /\ Resets("client")
      /\ UNCHANGED <<settings, hasPath, principal, type, result, key, sent,
                     started, garbled, opened>>
  BY DEF ClientHello, Goes, configVars, dataVars, historyVars, Secret
<1>2. /\ pc'["client"] = next /\ pc'["server"] = pc["server"]
      /\ next \in {"sendNonce", "recvOK"} /\ (next = "sendNonce" <=> Secret)
  BY <1>1, SidesFacts, Context
<1> HIDE DEF next
<1>3. WellTyped /\ TypeOK
  BY DEF IInv, WellTyped
<1>4. key["client"] = NoKey /\ Nothing("client")
  BY <1>1 DEF IInv, ClientSide, ClientBegins
<1>5. pc["server"] # "closed" => pc["server"] = "recvHello" /\ Nothing("server")
  BY <1>1, Context DEF IInv, Together
<1>6. Header(settings) \in Units /\ Header(settings).kind = "header"
  BY <1>3, HeaderFacts
<1>7. /\ BuffersTyped' /\ Grown("server", Header(settings))
      /\ Len(Queue("client")') = 0 /\ discarded' = discarded
  <2>1. /\ BuffersTyped' /\ Grown("server", Header(settings))
        /\ Len(Queue("client")') = 0 /\ buf["client"] = <<>>
    BY <1>1, <1>3, <1>4, <1>6, Sending, SidesFacts DEF Resets
  <2> QED
    BY <1>1, <2>1, Context DEF Resets
<1>8. /\ Nothing("server") => Len(Queue("server")') = 1
                              /\ Queue("server")'[1] = Header(settings)
      /\ \A i \in 1 .. Len(Queue("server")') :
           \/ i \in 1 .. Len(Queue("server")) /\ Queue("server")'[i] = Queue("server")[i]
           \/ Queue("server")'[i].kind = "header"
  BY <1>6, <1>7, ShortQueues, GrownFacts, Context DEF Nothing
<1>9. WellTyped'
  <2>1. pc' \in [Sides -> ClientPCs \union ServerPCs] /\ next \in ClientPCs
    BY <1>1, <1>2, Context DEF ClientPCs
  <2> QED
    BY <1>1, <1>2, <1>3, <1>7, <2>1, NextTyped, Context DEF WellTyped, TypeOK
<1>10. Results' /\ Granted'
  BY <1>1, <1>2, SidesFacts
  DEF IInv, Results, Granted, ClientShakes, ServerShakes, Secret, SamePassword
<1>11. Starts'
  BY <1>1, <1>2, <1>8 DEF IInv, Starts, ClientShakes
<1>12. ServerSide'
  <2>1. ServerSilent'
    BY <1>1, <1>2, <1>7 DEF IInv, ServerSide, ServerSilent, Nothing
  <2>2. ServerHello'
    BY <1>1, <1>2, <1>5, <1>8 DEF IInv, ServerSide, ServerHello, Nothing, Secret
  <2> QED
    BY <1>2, <1>5, <2>1, <2>2
    DEF ServerSide, ServerNonces, ServerAuth, ServerOK, ServerData
<1>13. ClientSide'
  BY <1>1, <1>2, <1>4, <1>7, <1>8
  DEF IInv, ClientSide, ClientBegins, ClientUnheard, ClientNonces, ClientEntitled,
      ClientAuths, ClientAwaitsOK, ClientData, Nothing, Secret, SamePassword
<1>14. Together'
  BY <1>1, <1>2, <1>5, <1>8 DEF Together, ServerLive, Nothing, Secret
<1>15. Refusals' /\ Behind'
  BY <1>1, <1>7, <1>8 DEF IInv, Refusals, Behind
<1>16. NothingDiscarded' /\ (Duplex \/ OpensWhatIsSent')
  BY <1>1, <1>7 DEF IInv, NothingDiscarded, OpensWhatIsSent
<1> QED
  BY <1>9, <1>10, <1>11, <1>12, <1>13, <1>14, <1>15, <1>16 DEF IInv

\* The client's nonce: under AES128 only, and the server has not answered yet.
LEMMA ClientSendsNonceInv ==
  ASSUME IInv, ClientSendsNonce
  PROVE  IInv'
<1>1. /\ pc["client"] = "sendNonce" /\ pc' = [pc EXCEPT !["client"] = "recvNonce"]
      /\ Sends("client", ClientNonce) /\ Resets("client")
      /\ key' = [key EXCEPT !["client"] = Key(settings.password)]
      /\ UNCHANGED <<settings, hasPath, principal, type, result, sent,
                     started, garbled, opened>>
  BY DEF ClientSendsNonce, Goes, configVars, dataVars, historyVars
<1>2. /\ pc'["client"] = "recvNonce" /\ pc'["server"] = pc["server"]
      /\ key'["client"] = Key(settings.password) /\ key'["server"] = key["server"]
      /\ key' \in [Sides -> Keys]
  BY <1>1, SidesFacts, Context, TypedFacts DEF IInv
<1>3. WellTyped /\ TypeOK
  BY DEF IInv, WellTyped
<1>4. /\ Nothing("client") /\ Secret /\ opened = {}
      /\ \A i \in 1 .. Len(Queue("server")) : Queue("server")[i].kind # "message"
  BY <1>1 DEF IInv, ClientSide, ClientBegins, ClientUnheard
<1>5. pc["server"] # "closed" =>
        \/ pc["server"] = "recvHello" /\ Len(Queue("server")) = 1
        \/ pc["server"] = "recvNonce" /\ Nothing("server")
  BY <1>1, Context DEF IInv, Together
<1>6. /\ BuffersTyped' /\ Grown("server", ClientNonce)
      /\ Len(Queue("client")') = 0 /\ discarded' = discarded
  <2>1. /\ BuffersTyped' /\ Grown("server", ClientNonce)
        /\ Len(Queue("client")') = 0 /\ buf["client"] = <<>>
    BY <1>1, <1>3, <1>4, UnitFacts, Sending, SidesFacts DEF Resets
  <2> QED
    BY <1>1, <2>1, Context DEF Resets
<1>7. /\ Len(Queue("server")) = 0 => Len(Queue("server")') = 1
                                     /\ Queue("server")'[1] = ClientNonce
      /\ Len(Queue("server")) = 1 => /\ Len(Queue("server")') = 2
                                     /\ Queue("server")'[1] = Queue("server")[1]
                                     /\ Queue("server")'[2] = ClientNonce
      /\ \A i \in 1 .. Len(Queue("server")') : Queue("server")'[i].kind # "message"
  BY <1>4, <1>6, UnitFacts, ShortQueues, GrownFacts, Context
<1>8. WellTyped'
  <2>1. pc' \in [Sides -> ClientPCs \union ServerPCs] /\ "recvNonce" \in ClientPCs
    BY <1>1, Context DEF ClientPCs
  <2> QED
    BY <1>1, <1>2, <1>3, <1>6, <2>1, NextTyped, Context DEF WellTyped, TypeOK
<1>9. Results' /\ Granted'
  BY <1>1, <1>2, SidesFacts
  DEF IInv, Results, Granted, ClientShakes, ServerShakes, Secret, SamePassword
<1>10. Starts'
  BY <1>1, <1>2, <1>7 DEF IInv, Starts, ClientShakes
<1>11. ServerSide'
  <2>1. ServerSilent'
    BY <1>1, <1>2, <1>6 DEF IInv, ServerSide, ServerSilent, Nothing
  <2>2. ServerHello' /\ ServerNonces'
    BY <1>1, <1>2, <1>4, <1>5, <1>7
    DEF IInv, ServerSide, ServerHello, ServerNonces, Nothing, Only, Secret
  <2> QED
    BY <1>2, <1>5, <2>1, <2>2 DEF ServerSide, ServerAuth, ServerOK, ServerData
<1>12. ClientSide'
  BY <1>1, <1>2, <1>4, <1>6, <1>7
  DEF ClientSide, ClientBegins, ClientUnheard, ClientNonces, ClientEntitled,
      ClientAuths, ClientAwaitsOK, ClientData, Secret
<1>13. Together'
  BY <1>2, <1>5, <1>7 DEF Together, ServerLive, Nothing
<1>14. Refusals' /\ Behind'
  BY <1>1, <1>4, <1>6, <1>7 DEF Refusals, Behind
<1>15. NothingDiscarded' /\ (Duplex \/ OpensWhatIsSent')
  BY <1>1, <1>6 DEF IInv, NothingDiscarded, OpensWhatIsSent
<1> QED
  BY <1>8, <1>9, <1>10, <1>11, <1>12, <1>13, <1>14, <1>15 DEF IInv

\* The server's nonce: it opens under the client's password, so that the server has
\* the same one.
LEMMA ClientRecvNonceInv ==
  ASSUME IInv, ClientRecvNonce
  PROVE  IInv'
<1>1. PICK r \in Received("client") :
        /\ Opens("client", Head(r[1])) /\ Notes("client", Head(r[1]))
        /\ pc["client"] = "recvNonce" /\ pc' = [pc EXCEPT !["client"] = "auth"]
        /\ Pulls("client", r)
        /\ key' = [key EXCEPT !["client"] = SessionKey(0)]
        /\ UNCHANGED <<settings, hasPath, principal, type, result, sent, started>>
  BY Zenon DEF ClientRecvNonce, Goes, configVars, dataVars, Key, SessionKey
<1>2. /\ pc'["client"] = "auth" /\ pc'["server"] = pc["server"]
      /\ key'["client"] = SessionKey(0) /\ key'["server"] = key["server"]
      /\ key' \in [Sides -> Keys]
  BY <1>1, SidesFacts, Context, KeyFacts
<1>3. WellTyped /\ TypeOK
  BY DEF IInv, WellTyped
<1>4. /\ BuffersTyped' /\ Shrunk("client") /\ Still("server")
      /\ discarded' = discarded /\ Len(Queue("client")) > 0
      /\ Head(r[1]) = Queue("client")[1]
  <2>1. Len(Queue("client")) \in Nat \ {0} /\ Head(r[1]) = Queue("client")[1]
    BY <1>3, ReceivedFacts, SidesFacts
  <2>2. Len(Queue("client")) > 0
    BY <2>1
  <2> QED
    BY <1>1, <1>3, <2>1, <2>2, Pulling, SidesFacts
<1>5. /\ key["client"] = Key(settings.password)
      /\ Len(Queue("client")) \in 1 .. 2
      /\ Queue("client")[1] = NonceMessage
      /\ Len(Queue("client")) = 2 => Queue("client")[2] = KOMessage
  BY <1>1, <1>4 DEF IInv, ClientSide, ClientNonces
<1>6. /\ Secret /\ opened = {}
      /\ \A i \in 1 .. Len(Queue("server")) : Queue("server")[i].kind # "message"
  BY <1>1 DEF IInv, ClientSide, ClientBegins, ClientUnheard
<1>7. /\ NonceMessage.kind = "message" /\ NonceMessage.body = "nonce"
      /\ NonceMessage.key = Key(principal.password)
  BY <1>3, TypedFacts, UnitFacts DEF NonceMessage, Bodies
<1>8. SamePassword /\ opened' = {Key(principal.password)} /\ garbled' = garbled
  <2>1. Key(principal.password) = Key(settings.password)
    BY <1>1, <1>4, <1>5, <1>7 DEF Opens
  <2>2. Key(principal.password)[1] = principal.password
        /\ Key(settings.password)[1] = settings.password
    BY DEF Key
  <2>3. SamePassword
    BY <2>1, <2>2 DEF SamePassword
  <2> QED
    BY <1>1, <1>4, <1>5, <1>6, <1>7, <2>3 DEF Notes
<1>9. pc["server"] # "closed" =>
        pc["server"] = "recvAuth" /\ Nothing("server") /\ Len(Queue("client")) = 1
  BY <1>1, <1>5, Context DEF IInv, Together, ServerSide, ServerSilent, Nothing
<1>10. /\ Len(Queue("client")) = 1 => Len(Queue("client")') = 0
       /\ Len(Queue("client")) = 2 => Len(Queue("client")') = 1
                                      /\ Queue("client")'[1] = KOMessage
       /\ Queue("server")' = Queue("server")
  BY <1>4, <1>5, ShortQueues DEF Still
<1>11. WellTyped'
  <2>1. pc' \in [Sides -> ClientPCs \union ServerPCs] /\ "auth" \in ClientPCs
    BY <1>1, Context DEF ClientPCs
  <2>2. opened' \subseteq Keys
    BY <1>3, <1>8, TypedFacts
  <2> QED
    BY <1>1, <1>2, <1>3, <1>4, <1>8, <2>1, <2>2, NextTyped, Context
    DEF WellTyped, TypeOK
<1>12. Results' /\ Granted'
  BY <1>1, <1>2, SidesFacts
  DEF IInv, Results, Granted, ClientShakes, ServerShakes, Secret, SamePassword
<1>13. Starts'
  BY <1>1, <1>2, <1>10 DEF IInv, Starts, ClientShakes
<1>14. ServerSide'
  BY <1>1, <1>2, <1>9, <1>10
  DEF IInv, ServerSide, ServerHello, ServerNonces, ServerSilent, ServerAuth, ServerOK,
      ServerData, Nothing, Only, Secret, SamePassword
<1>15. ClientSide'
  BY <1>1, <1>2, <1>5, <1>6, <1>8, <1>10
  DEF ClientSide, ClientBegins, ClientUnheard, ClientNonces, ClientEntitled,
      ClientAuths, ClientAwaitsOK, ClientData, Nothing, Only, Secret, SamePassword,
      KOMessage
<1>16. Together'
  BY <1>2, <1>9, <1>10 DEF Together, ServerLive, Nothing
<1>17. Refusals'
  <2>1. /\ KOMessage.kind = "message" /\ KOMessage.key = SessionKey(0)
    BY KeyFacts, UnitFacts DEF KOMessage, Bodies
  <2>2. Len(Queue("client")') = 1 => result["server"] = "error"
    <3>1. Len(Queue("client")') = 1 => Len(Queue("client")) = 2
      BY <1>5, <1>10
    <3>2. KOMessage.body = "#KO"
      BY KeyFacts, UnitFacts DEF KOMessage, Bodies
    <3> QED
      BY <1>1, <1>5, <3>1, <3>2 DEF IInv, Refusals, ClientLive
  <2>3. \A i \in 1 .. Len(Queue("client")') : i = 1 /\ Queue("client")'[i] = KOMessage
                                              /\ Len(Queue("client")') = 1
    <3> DEFINE m == Len(Queue("client")')
    <3>1. m = 0 \/ (m = 1 /\ Queue("client")'[1] = KOMessage)
      BY <1>5, <1>10
    <3> HIDE DEF m
    <3>2. \A i \in 1 .. m : i = 1 /\ m = 1
      BY <3>1
    <3> QED
      BY <3>1, <3>2 DEF m
  <2> QED
    BY <1>1, <1>6, <2>1, <2>2, <2>3 DEF Refusals, Secret
<1>18. Behind'
  <2>1. \A i \in 1 .. Len(Queue("client")') : Queue("client")'[i] = KOMessage
    BY <1>5, <1>10
  <2>2. KOMessage.body = "#KO"
    BY KeyFacts, UnitFacts DEF KOMessage, Bodies
  <2>3. Past(Key(principal.password), SessionKey(0))
    <3>1. /\ Key(principal.password) # NoKey
          /\ Key(principal.password)[1] # ServerNonce
          /\ Key(principal.password) \in Keys
      BY <1>3, TypedFacts, KeyFacts DEF Key
    <3>2. ~IsSession(Key(principal.password))
      BY <3>1, KeyFacts
    <3> QED
      BY <3>1, <3>2, KeyFacts DEF Past
  <2>4. Past(Key(principal.password), key["server"])
    BY <1>5, <1>7 DEF IInv, Behind
  <2> QED
    BY <1>2, <1>6, <1>8, <1>10, <2>1, <2>2, <2>3, <2>4 DEF Behind
<1>19. NothingDiscarded' /\ (Duplex \/ OpensWhatIsSent')
  BY <1>1, <1>4, <1>8 DEF IInv, NothingDiscarded, OpensWhatIsSent
<1> QED
  BY <1>11, <1>12, <1>13, <1>14, <1>15, <1>16, <1>17, <1>18, <1>19 DEF IInv

\* "#AUTH", under the first session key. A refusal the client has already received is
\* thrown away: then the server has failed.
LEMMA ClientAuthInv ==
  ASSUME IInv, ClientAuth
  PROVE  IInv'
<1>1. /\ pc["client"] = "auth" /\ pc' = [pc EXCEPT !["client"] = "recvOK"]
      /\ Sends("client", Message(key["client"], "#AUTH")) /\ Resets("client")
      /\ key' = [key EXCEPT !["client"] = Incremented(@)]
      /\ UNCHANGED <<settings, hasPath, principal, type, result, sent,
                     started, garbled, opened>>
  BY DEF ClientAuth, Goes, Serializes, configVars, dataVars, historyVars
<1>2. /\ Secret /\ SamePassword /\ key["client"] = SessionKey(0)
      /\ Nothing("client") \/ Only("client", KOMessage)
  BY <1>1 DEF IInv, ClientSide, ClientBegins, ClientAuths, ClientEntitled
<1>3. /\ pc'["client"] = "recvOK" /\ pc'["server"] = pc["server"]
      /\ key'["client"] = SessionKey(1) /\ key'["client"] = Advanced(key["client"], 1)
      /\ key'["server"] = key["server"] /\ key' \in [Sides -> Keys]
  <2>1. Incremented(key["client"]) = Advanced(key["client"], 1)
    BY AdvancedFacts, Context
  <2>2. Advanced(SessionKey(0), 1) = SessionKey(1)
    BY KeyFacts DEF Advanced, SessionKey
  <2> QED
    BY <1>1, <1>2, <2>1, <2>2, SidesFacts, Context, KeyFacts
<1>4. WellTyped /\ TypeOK
  BY DEF IInv, WellTyped
<1>5. Message(key["client"], "#AUTH") = AuthMessage
  BY <1>2 DEF AuthMessage
<1>6. /\ AuthMessage \in Units /\ AuthMessage.kind = "message"
      /\ AuthMessage.body = "#AUTH" /\ AuthMessage.key = SessionKey(0)
      /\ KOMessage.body = "#KO"
  BY KeyFacts, UnitFacts DEF AuthMessage, KOMessage, Bodies
<1>7. /\ BuffersTyped' /\ Grown("server", AuthMessage) /\ Left("client")
      /\ Nothing("client") => Len(Queue("client")') = 0 /\ buf["client"] = <<>>
  BY <1>1, <1>4, <1>5, <1>6, Sending, SidesFacts DEF Resets
<1>8. pc["server"] # "closed" =>
        pc["server"] = "recvAuth" /\ Nothing("server") /\ Nothing("client")
  BY <1>1, Context DEF IInv, Together
<1>9. /\ Nothing("server") => Only("server", AuthMessage)'
      /\ \A i \in 1 .. Len(Queue("server")') :
           \/ i \in 1 .. Len(Queue("server")) /\ Queue("server")'[i] = Queue("server")[i]
           \/ Queue("server")'[i] = AuthMessage
      /\ Nothing("client")' \/ Only("client", KOMessage)'
  <2>1. /\ Len(Queue("server")) = 0 => Len(Queue("server")') = 1
                                       /\ Queue("server")'[1] = AuthMessage
        /\ \A i \in 1 .. Len(Queue("server")') :
           \/ i \in 1 .. Len(Queue("server")) /\ Queue("server")'[i] = Queue("server")[i]
           \/ Queue("server")'[i] = AuthMessage
    BY <1>7, ShortQueues, GrownFacts, Context
  <2>2. \/ Len(Queue("client")') = 0
        \/ Len(Queue("client")') = 1 /\ Queue("client")'[1] = KOMessage
    <3>1. CASE Len(Queue("client")) = 0
      BY <1>7, <3>1 DEF Nothing
    <3>2. CASE Len(Queue("client")) = 1 /\ Queue("client")[1] = KOMessage
      <4> DEFINE m == Len(Queue("client")')
                 l == Len(Queue("client"))
      <4>1. /\ m \in 0 .. l /\ l = 1 /\ Queue("client")[1] = KOMessage
            /\ \A i \in 1 .. m : \E j \in 1 .. l : Queue("client")'[i] = Queue("client")[j]
        BY <1>7, <3>2 DEF Left
      <4> HIDE DEF m, l
      <4>2. m = 0 \/ (m = 1 /\ Queue("client")'[1] = KOMessage)
        BY <4>1
      <4> QED
        BY <4>2 DEF m
    <3> QED
      BY <1>2, <3>1, <3>2 DEF Nothing, Only
  <2> QED
    BY <2>1, <2>2 DEF Nothing, Only, AuthMessage, KOMessage
<1>10. WellTyped'
  <2>1. pc' \in [Sides -> ClientPCs \union ServerPCs] /\ "recvOK" \in ClientPCs
    BY <1>1, Context DEF ClientPCs
  <2>2. discarded' \in BOOLEAN
    BY <1>1, Context DEF Resets
  <2> QED
    BY <1>1, <1>3, <1>4, <1>7, <2>1, <2>2, NextTyped, Context DEF WellTyped, TypeOK
<1>11. Results' /\ Granted'
  BY <1>1, <1>3, SidesFacts
  DEF IInv, Results, Granted, ClientShakes, ServerShakes, Secret, SamePassword
<1>12. Starts'
  BY <1>1, <1>3, <1>6, <1>9 DEF IInv, Starts, ClientShakes
<1>13. ServerSide'
  <2>1. ServerAuth'
    BY <1>1, <1>2, <1>3, <1>8, <1>9
    DEF IInv, ServerSide, ServerAuth, Secret, SamePassword
  <2> QED
    BY <1>3, <1>8, <2>1
    DEF ServerSide, ServerHello, ServerNonces, ServerSilent, ServerOK, ServerData
<1>14. ClientSide'
  BY <1>1, <1>2, <1>3, <1>9
  DEF ClientSide, ClientBegins, ClientUnheard, ClientNonces, ClientEntitled,
      ClientAuths, ClientAwaitsOK, ClientData, Secret, SamePassword
<1>15. Together'
  BY <1>3, <1>7, <1>8, <1>9 DEF Together, ServerLive, Nothing, Only
<1>16. Refusals'
  BY <1>1, <1>3, <1>7 DEF IInv, Refusals, Left, Secret, ClientLive
<1>17. Behind'
  <2>1. /\ Past(SessionKey(0), SessionKey(1))
        /\ \A k \in Keys : Past(k, key["client"]) => Past(k, key'["client"])
    <3>1. /\ Past(SessionKey(0), SessionKey(1))
      <4>1. /\ SessionKey(0) # NoKey /\ SessionKey(0)[2] = 0 /\ SessionKey(1)[2] = 1
            /\ IsSession(SessionKey(1))
        BY KeyFacts
      <4> QED
        BY <4>1 DEF Past
    <3> QED
      BY <1>3, <3>1, PastFacts, Context
  <2>2. \A i \in 1 .. Len(Queue("server")) :
          Queue("server")[i].kind = "message" => Queue("server")[i].key \in Keys
    BY <1>4, QueueFacts, UnitFacts, SidesFacts
  <2>3. \A k \in opened : k \in Keys
    BY Context
  <2> QED
    BY <1>1, <1>3, <1>6, <1>7, <1>9, <2>1, <2>2, <2>3 DEF IInv, Behind, Left
<1>18. NothingDiscarded'
  <2>1. CASE Nothing("client")
    BY <1>1, <1>7, <2>1, Context DEF IInv, NothingDiscarded, Resets
  <2>2. CASE Only("client", KOMessage)
    <3>1. result["server"] = "error"
      BY <1>1, <1>6, <2>2 DEF IInv, Refusals, ClientLive, Only
    <3> QED
      BY <1>1, <3>1, SidesFacts DEF NothingDiscarded
  <2> QED
    BY <1>2, <2>1, <2>2
<1>19. Duplex \/ OpensWhatIsSent'
  BY <1>1 DEF IInv, OpensWhatIsSent
<1> QED
  BY <1>10, <1>11, <1>12, <1>13, <1>14, <1>15, <1>16, <1>17, <1>18, <1>19 DEF IInv

\* "#OK": the client returns, one key behind the server.
LEMMA ClientRecvOKInv ==
  ASSUME IInv, ClientRecvOK
  PROVE  IInv'
<1>1. PICK r \in Received("client") :
        /\ Opens("client", Head(r[1])) /\ Head(r[1]).body = "#OK"
        /\ Notes("client", Head(r[1]))
        /\ pc["client"] = "recvOK" /\ pc' = [pc EXCEPT !["client"] = "data"]
        /\ PullsAndResets("client", r)
        /\ key' = [key EXCEPT !["client"] = Incremented(@)]
        /\ result' = [result EXCEPT !["client"] = "ok"]
        /\ UNCHANGED <<settings, hasPath, principal, type, sent, started>>
  BY Zenon DEF ClientRecvOK, Goes, Returns, configVars, dataVars
<1> DEFINE k == key["client"]
<1>2. /\ k = IF Secret THEN SessionKey(1) ELSE NoKey
      /\ Secret => SamePassword
      /\ k \in Keys /\ (IsSession(k) \/ k = NoKey) /\ (IsSession(k) <=> Secret)
      /\ Incremented(k) = Advanced(k, 1) /\ Advanced(k, 1) \in Keys
      /\ (IsSession(Advanced(k, 1)) <=> IsSession(k))
      /\ (Advanced(k, 1) = NoKey <=> k = NoKey)
  <2>1. /\ k = IF Secret THEN SessionKey(1) ELSE NoKey
        /\ Secret => SamePassword
    BY <1>1 DEF IInv, ClientSide, ClientAwaitsOK, ClientEntitled
  <2>2. /\ k \in Keys /\ (IsSession(k) \/ k = NoKey) /\ (IsSession(k) <=> Secret)
    BY <2>1, KeyFacts, Context
  <2> QED
    BY <2>1, <2>2, AdvancedFacts
<1>3. /\ pc'["client"] = "data" /\ pc'["server"] = pc["server"]
      /\ key'["client"] = Advanced(k, 1)
      /\ key'["server"] = key["server"] /\ key' \in [Sides -> Keys]
      /\ result'["client"] = "ok" /\ result'["server"] = result["server"]
      /\ result' \in [Sides -> {"none", "ok", "zero", "error"}]
  BY <1>1, <1>2, SidesFacts, Context
<1>4. WellTyped /\ TypeOK
  BY DEF IInv, WellTyped
<1>5. /\ Len(Queue("client")) # 0 /\ Head(r[1]) = Queue("client")[1]
      /\ Head(r[1]).kind = "message" /\ Head(r[1]).key = k
  BY <1>1, <1>4, ReceivedFacts, SidesFacts DEF Opens
<1>6. Len(Queue("client")) = 1 /\ result["server"] = "ok"
  <2>1. KOMessage.body = "#KO"
    BY KeyFacts, UnitFacts DEF KOMessage, Bodies
  <2> QED
    BY <1>1, <1>5, <2>1 DEF IInv, ClientSide, ClientAwaitsOK, Only, Nothing
<1>7. /\ BuffersTyped' /\ Len(Queue("client")') = 0 /\ discarded' = discarded
      /\ Queue("server")' = Queue("server")
  BY <1>1, <1>4, <1>6, PullingAndResetting, SidesFacts DEF Still
<1>8. opened' = opened \union {k} /\ garbled' = garbled
  BY <1>1, <1>5 DEF Notes
<1>9. pc["server"] \in {"data", "closed"} /\ "server" \notin started
  <2>1. pc["server"] \in {"data", "closed"}
    BY <1>6, Context DEF IInv, Results, ServerShakes, ServerPCs
  <2> QED
    BY <1>1, <2>1 DEF IInv, Starts, ClientShakes
<1>10. pc["server"] # "closed" =>
         pc["server"] = "data" /\ Nothing("server") /\ key["server"] = Advanced(k, 1)
  BY <1>1, <1>6, <1>9, Context DEF IInv, Together, Nothing
<1>11. WellTyped'
  <2>1. pc' \in [Sides -> ClientPCs \union ServerPCs] /\ "data" \in ClientPCs
    BY <1>1, Context DEF ClientPCs
  <2>2. opened' \subseteq Keys /\ garbled' \subseteq Bodies
    BY <1>2, <1>8, Context
  <2> QED
    BY <1>1, <1>3, <1>4, <1>7, <2>1, <2>2, NextTyped, Context DEF WellTyped, TypeOK
<1>12. Results' /\ Granted'
  BY <1>1, <1>3, <1>6, SidesFacts
  DEF IInv, Results, Granted, ClientShakes, ServerShakes, Secret, SamePassword
<1>13. Starts'
  BY <1>1, <1>3, <1>7 DEF IInv, Starts, ClientShakes
<1>14. ServerSide'
  BY <1>1, <1>3, <1>7, <1>9
  DEF IInv, ServerSide, ServerHello, ServerNonces, ServerSilent, ServerAuth, ServerOK,
      ServerData, Nothing, Consecutive, Secret
<1>15. ClientSide'
  BY <1>1, <1>2, <1>3, <1>7
  DEF ClientSide, ClientBegins, ClientUnheard, ClientNonces, ClientEntitled,
      ClientAuths, ClientAwaitsOK, ClientData, Nothing, Consecutive, Secret,
      SamePassword
<1>16. Together'
  <2>1. Advanced(Advanced(k, 1), 0) = Advanced(k, 1)
    BY <1>2, AdvancedFacts
  <2> QED
    BY <1>1, <1>3, <1>7, <1>9, <1>10, <2>1 DEF Together, ServerLive, Nothing
<1>17. Refusals'
  BY <1>7 DEF Refusals
<1>18. Behind'
  <2>1. /\ Past(k, Advanced(k, 1))
        /\ \A j \in Keys : Past(j, k) => Past(j, Advanced(k, 1))
    BY <1>2, PastFacts
  <2>2. \A i \in 1 .. Len(Queue("server")) :
          Queue("server")[i].kind = "message" => Queue("server")[i].key \in Keys
    BY <1>4, QueueFacts, UnitFacts, SidesFacts
  <2>3. \A j \in opened : j \in Keys
    BY Context
  <2>4. Past(k, key["server"])
    <3>1. 1 \in 1 .. Len(Queue("client"))
      <4> DEFINE l == Len(Queue("client"))
      <4>1. l = 1
        BY <1>6
      <4> HIDE DEF l
      <4>2. 1 \in 1 .. l
        BY <4>1
      <4> QED
        BY <4>2 DEF l
    <3> QED
      BY <1>1, <1>5, <3>1 DEF IInv, Behind
  <2> QED
    BY <1>1, <1>3, <1>7, <1>8, <2>1, <2>2, <2>3, <2>4 DEF IInv, Behind
<1>19. NothingDiscarded' /\ (Duplex \/ OpensWhatIsSent')
  <2>1. discarded => result["server"] = "error" \/ result["client"] = "error"
    BY SidesFacts DEF IInv, NothingDiscarded
  <2>2. result["client"] # "error"
    BY <1>1 DEF IInv, Results, ClientShakes
  <2> QED
    BY <1>1, <1>3, <1>7, <1>8, <2>1, <2>2, SidesFacts
    DEF IInv, NothingDiscarded, OpensWhatIsSent
<1> QED
  BY <1>11, <1>12, <1>13, <1>14, <1>15, <1>16, <1>17, <1>18, <1>19 DEF IInv

\* What ends the client's handshake before it took anything more.
LEMMA ClientEndsInv ==
  ASSUME IInv,
         ClientUnknown \/ ClientEnds \/ RecvFails("client") \/ SendFails("client")
  PROVE  IInv'
<1>1. /\ pc["client"] \in ClientShakes /\ pc' = [pc EXCEPT !["client"] = "closed"]
      /\ result' = [result EXCEPT !["client"] = "error"]
      /\ UNCHANGED <<settings, hasPath, principal, type, key, sent, started,
                     garbled, opened, stream>>
      /\ (buf' = buf /\ discarded' = discarded) \/ Resets("client")
  <2>1. CASE ClientUnknown
    BY <2>1 DEF ClientUnknown, Fails, Goes, Returns, configVars, dataVars,
                historyVars, ClientShakes
  <2>2. CASE ClientEnds
    BY <2>2 DEF ClientEnds, Fails, Goes, Returns, configVars, dataVars, historyVars,
                ClientShakes, Waiting
  <2>3. CASE RecvFails("client")
    BY <2>3 DEF RecvFails, Fails, Goes, Returns, configVars, dataVars, historyVars,
                ClientShakes, Waiting, SendsKO
  <2>4. CASE SendFails("client")
    <3>1. pc["client"] \in {"hello", "sendNonce", "auth", "sendOK"}
      BY <2>4 DEF SendFails
    <3>2. pc["client"] \in ClientShakes
      BY <3>1, Context DEF ClientPCs, ClientShakes
    <3> QED
      BY <2>4, <3>2
      DEF SendFails, Fails, Goes, Returns, configVars, dataVars, historyVars
  <2> QED
    BY <2>1, <2>2, <2>3, <2>4
<1>2. WellTyped /\ result["client"] = "none"
  BY <1>1 DEF IInv, Results
<1>3. discarded' \in BOOLEAN
  BY <1>1, Context DEF Resets
<1>4. /\ buf'["client"] = buf["client"] \/ buf'["client"] = <<>>
      /\ buf'["server"] = buf["server"]
      /\ buf' \in [Sides -> Seq(Units)]
  <2>1. <<>> \in Seq(Units)
    BY EmptySeq
  <2> QED
    BY <1>1, <1>2, <2>1, SidesFacts DEF Resets, WellTyped
<1>5. Left("client") /\ Still("server")
  BY <1>1, <1>2, <1>4, LeftFacts, StillFacts, SidesFacts
<1>6. BuffersTyped'
  BY <1>1, <1>2, <1>4 DEF BuffersTyped, WellTyped
<1> QED
  BY <1>1, <1>2, <1>3, <1>5, <1>6, ClientFailsInv

\* What the client refuses: a nonce under another password, or "#KO".
LEMMA ClientRefusesInv ==
  ASSUME IInv, ClientRefuses
  PROVE  IInv'
<1>1. PICK r \in Received("client") :
        /\ Waiting("client")
        /\ ~ /\ Opens("client", Head(r[1]))
             /\ Head(r[1]).body = (IF pc["client"] = "recvOK" THEN "#OK" ELSE "nonce")
        /\ pc' = [pc EXCEPT !["client"] = "closed"]
        /\ result' = [result EXCEPT !["client"] = "error"]
        /\ UNCHANGED <<settings, hasPath, principal, type, key, sent, started>>
        /\ PullsAndResets("client", r) /\ Notes("client", Head(r[1]))
  BY Zenon DEF ClientRefuses, Fails, Goes, Returns, configVars, dataVars
<1> DEFINE u == Queue("client")[1]
<1>2. WellTyped /\ TypeOK /\ result["client"] = "none"
  BY <1>1 DEF IInv, WellTyped, Results, Waiting, ClientShakes
<1>3. /\ Len(Queue("client")) \in Nat \ {0} /\ Head(r[1]) = u /\ u \in Units
  BY <1>2, ReceivedFacts, SidesFacts
<1>4. 1 \in 1 .. Len(Queue("client")) /\ ~Nothing("client")
      /\ Len(Queue("client")) > 0
  BY <1>3 DEF Nothing
<1>5. u.kind = "message" /\ u.body \in Bodies
  BY <1>3, <1>4, UnitFacts DEF IInv, Refusals
<1>6. BuffersTyped' /\ Left("client") /\ Still("server") /\ discarded' \in BOOLEAN
  <2>1. BuffersTyped' /\ Left("client") /\ Still("server")
    BY <1>1, <1>2, PullingAndResetting, SidesFacts
  <2>2. discarded' \in BOOLEAN
    BY <1>1 DEF PullsAndResets
  <2> QED
    BY <2>1, <2>2
<1>7. /\ NonceMessage.key = Key(principal.password) /\ NonceMessage.body = "nonce"
      /\ KOMessage.key = SessionKey(0) /\ KOMessage.body = "#KO"
      /\ SessionKey(1) # SessionKey(0)
      /\ Message(key["client"], "#OK").body = "#OK"
      /\ Message(key["client"], "#OK").key = key["client"]
  <2>1. SessionKey(1) # SessionKey(0)
    BY DEF SessionKey
  <2> QED
    BY <2>1 DEF NonceMessage, KOMessage, Message
<1>8. /\ u.key # key["client"]
      /\ u.body # "#KO" => settings.password # principal.password
  <2>1. CASE pc["client"] = "recvNonce"
    <3>1. key["client"] = Key(settings.password) /\ u = NonceMessage
      BY <1>4, <2>1 DEF IInv, ClientSide, ClientNonces
    <3>2. u.key # key["client"]
      BY <1>1, <1>3, <1>5, <1>7, <2>1, <3>1 DEF Opens
    <3> QED
      BY <1>7, <3>1, <3>2
  <2>2. CASE pc["client"] = "recvOK"
    <3>1. \/ Secret /\ u = KOMessage
          \/ u = Message(key["client"], "#OK")
      BY <1>4, <2>2 DEF IInv, ClientSide, ClientAwaitsOK, Only
    <3>2. Secret => key["client"] = SessionKey(1)
      BY <2>2 DEF IInv, ClientSide, ClientAwaitsOK
    <3>3. u # Message(key["client"], "#OK")
      BY <1>1, <1>3, <1>5, <1>7, <2>2 DEF Opens
    <3> QED
      BY <1>7, <3>1, <3>2, <3>3
  <2> QED
    BY <1>1, <2>1, <2>2 DEF Waiting
<1>9. opened' = opened /\ garbled' = garbled \union {u.body}
  BY <1>1, <1>3, <1>8 DEF Notes, Opens
<1>10. /\ opened' \subseteq Keys /\ garbled' \subseteq Bodies
       /\ \A k \in opened' : Past(k, key["client"]) /\ Past(k, key["server"])
  BY <1>5, <1>9, Context DEF IInv, Behind
<1>11. Duplex \/ OpensWhatIsSent'
  BY <1>1, <1>8, <1>9 DEF IInv, OpensWhatIsSent
<1> HIDE DEF u
<1> QED
  BY <1>1, <1>2, <1>4, <1>6, <1>10, <1>11, ClientFailsInv

------------------------------------------------------------------------------
(* recvHandshake(). *)

\* What ends the server's handshake with an error before "#AUTH" is pulled.
LEMMA ServerErrsInv ==
  ASSUME IInv, ServerRefuses \/ RecvFails("server") \/ SendFails("server")
  PROVE  IInv'
<1>1. WellTyped
  BY DEF IInv
<1>2. CASE ServerRefuses
  <2>1. PICK r \in Received("server") :
          /\ pc["server"] = "recvHello" /\ pc' = [pc EXCEPT !["server"] = "closed"]
          /\ result' = [result EXCEPT !["server"] = "error"]
          /\ UNCHANGED <<settings, hasPath, principal, type, key, sent, started,
                         garbled, opened>>
          /\ PullsAndResets("server", r)
    BY <1>2, Zenon
    DEF ServerRefuses, Fails, Goes, Returns, configVars, dataVars, historyVars
  <2>2. BuffersTyped' /\ Left("server") /\ Still("client")
    BY <1>1, <2>1, PullingAndResetting, SidesFacts
  <2>3. discarded' \in BOOLEAN /\ result["server"] = "none"
    BY <2>1 DEF PullsAndResets, IInv, Results, ServerShakes
  <2> QED
    BY <2>1, <2>2, <2>3, ServerFailsInv
<1>3. CASE RecvFails("server") \/ SendFails("server")
  <2>1. /\ pc["server"] \in ServerShakes /\ pc' = [pc EXCEPT !["server"] = "closed"]
        /\ result' = [result EXCEPT !["server"] = "error"]
        /\ UNCHANGED <<settings, hasPath, principal, type, key, sent, started,
                       garbled, opened>>
        /\ Resets("server")
        /\ \/ stream' = stream
           \/ /\ pc["server"] = "recvAuth"
              /\ Sends("server", Message(key["server"], "#KO"))
    <3>1. CASE RecvFails("server")
      BY <3>1 DEF RecvFails, Fails, Goes, Returns, configVars, dataVars, historyVars,
                  ServerShakes, Waiting, SendsKO
    <3>2. CASE SendFails("server")
      <4>1. pc["server"] \in {"hello", "sendNonce", "auth", "sendOK"}
        BY <3>2 DEF SendFails
      <4>2. pc["server"] \in ServerShakes
        BY <4>1, Context DEF ServerPCs, ServerShakes
      <4> QED
        BY <3>2, <4>2
        DEF SendFails, Fails, Goes, Returns, configVars, dataVars, historyVars
    <3> QED
      BY <1>3, <3>1, <3>2
  <2>2. discarded' \in BOOLEAN /\ result["server"] = "none"
    BY <2>1, Context DEF Resets, IInv, Results
  <2>3. CASE stream' = stream
    <3>1. /\ buf'["server"] = <<>> /\ buf'["client"] = buf["client"]
          /\ buf' \in [Sides -> Seq(Units)]
      <4>1. <<>> \in Seq(Units)
        BY EmptySeq
      <4> QED
        BY <1>1, <2>1, <4>1, SidesFacts DEF Resets, WellTyped
    <3>2. BuffersTyped' /\ Left("server") /\ Still("client")
      BY <1>1, <2>3, <3>1, LeftFacts, StillFacts, SidesFacts
      DEF BuffersTyped, WellTyped
    <3> QED
      BY <2>1, <2>2, <3>2, ServerFailsInv
  <2>4. CASE /\ pc["server"] = "recvAuth"
             /\ Sends("server", Message(key["server"], "#KO"))
    <3>1. Message(key["server"], "#KO") = KOMessage
      BY <2>4 DEF IInv, ServerSide, ServerAuth, KOMessage
    <3>2. BuffersTyped' /\ Left("server") /\ Grown("client", KOMessage)
      BY <1>1, <2>1, <2>4, <3>1, TypedFacts, Sending, SidesFacts DEF Resets
    <3> QED
      BY <2>1, <2>2, <2>4, <3>2, ServerFailsInv
  <2> QED
    BY <2>1, <2>3, <2>4
<1> QED
  BY <1>2, <1>3

\* The header: the server takes up the principal and the type the client asked for.
LEMMA ServerRecvHelloInv ==
  ASSUME IInv, ServerRecvHello
  PROVE  IInv'
<1> DEFINE h == Header(settings)
           next == IF Secret THEN "recvNonce" ELSE "sendOK"
<1>1. WellTyped /\ TypeOK
  BY DEF IInv, WellTyped
<1>2. /\ h.type = settings.type /\ settings.type \in Types
      /\ Secret <=> settings.type # "RAW"
      /\ ReadID(h) \in IDs /\ (settings.id[1] = {} => ReadID(h) = settings.id)
  BY <1>1, HeaderFacts
<1>3. PICK r \in Received("server") :
        /\ pc["server"] = "recvHello"
        /\ Accepted(Head(r[1]))
        /\ pc' = [pc EXCEPT !["server"] = IF Head(r[1]).type = "AES128"
                                            THEN "recvNonce" ELSE "sendOK"]
        /\ IF Head(r[1]).type = "AES128" THEN Pulls("server", r)
                                         ELSE PullsAndResets("server", r)
        /\ principal' = LookedUp(Head(r[1]))
        /\ type' = Head(r[1]).type
        /\ UNCHANGED <<settings, hasPath, result, key, sent, started, garbled, opened>>
  BY Zenon DEF ServerRecvHello, Goes, configVars, dataVars, historyVars
<1>4. Len(Queue("server")) \in Nat \ {0} /\ Head(r[1]) = Queue("server")[1]
  BY <1>1, ReceivedFacts, SidesFacts
<1>5. /\ key["server"] = NoKey /\ Head(r[1]) = h
      /\ Len(Queue("server")) = 1 \/ (Secret /\ Len(Queue("server")) = 2)
      /\ Len(Queue("server")) = 2 => Queue("server")[2] = ClientNonce
      /\ Nothing("client") /\ opened = {} /\ garbled = {}
  <2>1. /\ key["server"] = NoKey
        /\ Len(Queue("server")) \in 0 .. (IF Secret THEN 2 ELSE 1)
        /\ Len(Queue("server")) > 0 => Queue("server")[1] = h
        /\ Len(Queue("server")) > 1 => Queue("server")[2] = ClientNonce
        /\ Nothing("client") /\ opened = {} /\ garbled = {}
    BY <1>3 DEF IInv, ServerSide, ServerHello, ServerSilent
  <2>2. Len(Queue("server")) = 1 \/ (Secret /\ Len(Queue("server")) = 2)
    <3> DEFINE l == Len(Queue("server"))
    <3>1. l \in Nat \ {0} /\ l \in 0 .. (IF Secret THEN 2 ELSE 1)
      BY <1>4, <2>1
    <3> HIDE DEF l
    <3>2. l = 1 \/ (Secret /\ l = 2)
      BY <3>1
    <3> QED
      BY <3>2 DEF l
  <2> QED
    BY <1>4, <2>1, <2>2
<1>6. /\ pc' = [pc EXCEPT !["server"] = next]
      /\ IF Secret THEN Pulls("server", r) ELSE PullsAndResets("server", r)
      /\ principal' = LookedUp(h)
      /\ type' = settings.type /\ Accepted(h)
  BY <1>2, <1>3, <1>5 DEF Secret
<1> HIDE DEF h, next
<1>7. /\ pc'["server"] = next /\ pc'["client"] = pc["client"]
      /\ next = IF Secret THEN "recvNonce" ELSE "sendOK"
  BY <1>6, SidesFacts, Context DEF next
<1>8. /\ BuffersTyped' /\ Queue("client")' = Queue("client") /\ discarded' = discarded
      /\ Len(Queue("server")) = 1 => Len(Queue("server")') = 0
      /\ Len(Queue("server")) = 2 => Len(Queue("server")') = 1
                                     /\ Queue("server")'[1] = ClientNonce
  <2>1. CASE Secret
    <3>1. /\ BuffersTyped' /\ Shrunk("server") /\ Still("client")
          /\ discarded' = discarded
      BY <1>1, <1>6, <2>1, Pulling, SidesFacts
    <3> QED
      BY <1>5, <3>1, ShortQueues DEF Still
  <2>2. CASE ~Secret
    <3>1. Len(Queue("server")) = 1
      BY <1>5, <2>2
    <3> QED
      BY <1>1, <1>6, <2>2, <3>1, PullingAndResetting, SidesFacts DEF Still
  <2> QED
    BY <2>1, <2>2
<1>9. /\ \/ Len(Queue("server")') = 0
         \/ Secret /\ Len(Queue("server")') = 1 /\ Queue("server")'[1] = ClientNonce
      /\ \A i \in 1 .. Len(Queue("server")') : Queue("server")'[i].kind # "message"
  <2> DEFINE m == Len(Queue("server")')
  <2>1. m = 0 \/ (Secret /\ m = 1 /\ Queue("server")'[1] = ClientNonce)
    BY <1>5, <1>8
  <2>2. ClientNonce.kind # "message"
    BY UnitFacts
  <2> HIDE DEF m
  <2>3. \A i \in 1 .. m : Queue("server")'[i].kind # "message"
    BY <2>1, <2>2
  <2> QED
    BY <2>1, <2>3 DEF m
<1>10. pc["client"] # "closed" =>
         \/ pc["client"] = "sendNonce" /\ Secret /\ Len(Queue("server")') = 0
         \/ pc["client"] = "recvNonce" /\ Secret /\ Len(Queue("server")') = 1
         \/ pc["client"] = "recvOK" /\ ~Secret /\ Len(Queue("server")') = 0
  <2>1. pc["client"] # "closed" =>
          \/ pc["client"] = "sendNonce" /\ Len(Queue("server")) = 1
          \/ pc["client"] = "recvNonce" /\ Len(Queue("server")) = 2
          \/ pc["client"] = "recvOK" /\ ~Secret /\ Len(Queue("server")) = 1
    BY <1>3, <1>4, Context DEF IInv, Together, Nothing, ClientPCs
  <2>2. pc["client"] \in {"sendNonce", "recvNonce"} => Secret
    BY DEF IInv, ClientSide, ClientBegins
  <2> QED
    BY <1>8, <2>1, <2>2
<1>11. /\ principal' \in Principals
       /\ hasPath => /\ principal'.id = ReadID(h)
                     /\ principal'.types = Entry(ReadID(h)).types
       /\ ~hasPath => principal' = principal
  <2>1. Entry(ReadID(h)).password \in Passwords \union {Empty}
    BY HandshakeAssumption DEF Entry
  <2>2. Entry(ReadID(h)).types \in SUBSET Types
    BY HandshakeAssumption DEF Entry
  <2> QED
    BY <1>1, <1>2, <1>6, <2>1, <2>2 DEF TypeOK, Principals, LookedUp, h
<1>12. WellTyped'
  <2>1. /\ pc' \in [Sides -> ClientPCs \union ServerPCs] /\ next \in ServerPCs
    BY <1>6, <1>7, Context DEF ServerPCs
  <2> QED
    BY <1>1, <1>2, <1>3, <1>6, <1>7, <1>8, <1>11, <2>1, NextTyped, Context
    DEF WellTyped, TypeOK
<1>13. Results'
  BY <1>3, <1>7, SidesFacts DEF IInv, Results, ServerShakes
<1>14. Granted'
  <2>1. /\ Allows(IF hasPath THEN Entry(principal'.id).types
                              ELSE principal'.types, type')
        /\ hasPath /\ settings.id[1] = {} => principal'.id = settings.id
    BY <1>2, <1>6, <1>11 DEF Accepted, h
  <2>2. result["server"] = "none"
    BY <1>3 DEF IInv, Results, ServerShakes
  <2> QED
    BY <1>3, <1>6, <1>7, <2>1, <2>2 DEF Granted, Secret
<1>15. Starts'
  BY <1>3, <1>7, <1>9 DEF IInv, Starts
<1>16. ServerSide'
  BY <1>3, <1>5, <1>7, <1>8, <1>9
  DEF ServerSide, ServerHello, ServerNonces, ServerSilent, ServerAuth, ServerOK,
      ServerData, Nothing, Only, Secret, ClientNonce
<1>17. ClientSide'
  <2>1. \A i \in 1 .. Len(Queue("server")') :
          \E j \in 1 .. Len(Queue("server")) : Queue("server")'[i] = Queue("server")[j]
    BY <1>1, <1>6, Pulling, PullingAndResetting, SidesFacts DEF Left
  <2> QED
    BY <1>3, <1>5, <1>7, <1>8, <1>9, <1>10, <2>1
    DEF IInv, ClientSide, ClientBegins, ClientUnheard, ClientNonces, ClientEntitled,
        ClientAuths, ClientAwaitsOK, ClientData, Nothing, Secret, Consecutive
<1>18. Together'
  BY <1>3, <1>5, <1>7, <1>8, <1>9, <1>10 DEF Together, Nothing, Secret, ClientLive
<1>19. Refusals'
  BY <1>5, <1>8 DEF Refusals, Nothing
<1>20. Behind'
  BY <1>3, <1>5, <1>8, <1>9 DEF Behind, Nothing
<1>21. NothingDiscarded' /\ (Duplex \/ OpensWhatIsSent')
  BY <1>3, <1>5, <1>8 DEF IInv, NothingDiscarded, OpensWhatIsSent
<1> QED
  BY <1>12, <1>13, <1>14, <1>15, <1>16, <1>17, <1>18, <1>19, <1>20, <1>21 DEF IInv

\* The client's nonce.
LEMMA ServerRecvNonceInv ==
  ASSUME IInv, ServerRecvNonce
  PROVE  IInv'
<1>1. PICK r \in Received("server") :
        /\ pc["server"] = "recvNonce" /\ pc' = [pc EXCEPT !["server"] = "sendNonce"]
        /\ Pulls("server", r)
        /\ key' = [key EXCEPT !["server"] = Key(principal.password)]
        /\ UNCHANGED <<settings, hasPath, principal, type, result, sent, started,
                       garbled, opened>>
  BY Zenon DEF ServerRecvNonce, Goes, configVars, dataVars, historyVars
<1>2. WellTyped /\ TypeOK
  BY DEF IInv, WellTyped
<1>3. /\ pc'["server"] = "sendNonce" /\ pc'["client"] = pc["client"]
      /\ key'["server"] = Key(principal.password) /\ key'["client"] = key["client"]
      /\ key' \in [Sides -> Keys]
  BY <1>1, <1>2, SidesFacts, Context, TypedFacts
<1>4. /\ Secret /\ Len(Queue("server")) = 1 /\ Nothing("client")
      /\ opened = {} /\ garbled = {} /\ ~Nothing("server")
  <2>1. Len(Queue("server")) # 0
    BY <1>2, ReceivedFacts, SidesFacts
  <2> QED
    BY <1>1, <2>1
    DEF IInv, ServerSide, ServerNonces, ServerSilent, Nothing, Only
<1>5. /\ BuffersTyped' /\ Queue("client")' = Queue("client") /\ discarded' = discarded
      /\ Len(Queue("server")') = 0
  BY <1>1, <1>2, <1>4, Pulling, ShortQueues, SidesFacts DEF Still
<1>6. pc["client"] \in {"closed", "recvNonce"}
  <2>1. Together /\ pc["client"] \in ClientPCs /\ ~Nothing("server")
    BY <1>4, Context DEF IInv
  <2>2. pc["client"] # "closed" => ServerLive /\ ClientLive
    BY <1>1, Context
  <2> QED
    BY <1>1, <2>1, <2>2 DEF Together, ClientPCs
<1>7. WellTyped'
  <2>1. /\ pc' \in [Sides -> ClientPCs \union ServerPCs] /\ "sendNonce" \in ServerPCs
    BY <1>1, Context DEF ServerPCs
  <2> QED
    BY <1>1, <1>2, <1>3, <1>5, <2>1, NextTyped, Context DEF WellTyped, TypeOK
<1>8. Results' /\ Granted'
  BY <1>1, <1>3, SidesFacts
  DEF IInv, Results, Granted, ServerShakes, Secret, SamePassword
<1>9. Starts'
  BY <1>1, <1>3, <1>5 DEF IInv, Starts
<1>10. ServerSide'
  BY <1>1, <1>3, <1>4, <1>5
  DEF ServerSide, ServerHello, ServerNonces, ServerSilent, ServerAuth, ServerOK,
      ServerData, Nothing, Secret
<1>11. ClientSide'
  BY <1>1, <1>3, <1>4, <1>5, <1>6
  DEF IInv, ClientSide, ClientBegins, ClientUnheard, ClientNonces, ClientEntitled,
      ClientAuths, ClientAwaitsOK, ClientData, Nothing, Secret, NonceMessage
<1>12. Together'
  BY <1>3, <1>6 DEF Together, ClientLive
<1>13. Refusals' /\ Behind'
  BY <1>1, <1>4, <1>5 DEF Refusals, Behind, Nothing
<1>14. NothingDiscarded' /\ (Duplex \/ OpensWhatIsSent')
  BY <1>1, <1>4, <1>5 DEF IInv, NothingDiscarded, OpensWhatIsSent
<1> QED
  BY <1>7, <1>8, <1>9, <1>10, <1>11, <1>12, <1>13, <1>14 DEF IInv

\* The server's nonce, sealed under the principal's password.
LEMMA ServerSendsNonceInv ==
  ASSUME IInv, ServerSendsNonce
  PROVE  IInv'
<1>1. /\ pc["server"] = "sendNonce" /\ pc' = [pc EXCEPT !["server"] = "recvAuth"]
      /\ Sends("server", Message(key["server"], "nonce")) /\ Resets("server")
      /\ key' = [key EXCEPT !["server"] = SessionKey(0)]
      /\ UNCHANGED <<settings, hasPath, principal, type, result, sent, started,
                     garbled, opened>>
  BY DEF ServerSendsNonce, Goes, configVars, dataVars, historyVars, Key, SessionKey
<1>2. WellTyped /\ TypeOK
  BY DEF IInv, WellTyped
<1>3. /\ pc'["server"] = "recvAuth" /\ pc'["client"] = pc["client"]
      /\ key'["server"] = SessionKey(0) /\ key'["client"] = key["client"]
      /\ key' \in [Sides -> Keys]
  BY <1>1, SidesFacts, Context, KeyFacts
<1>4. /\ Secret /\ key["server"] = Key(principal.password)
      /\ Nothing("server") /\ Nothing("client") /\ opened = {} /\ garbled = {}
  BY <1>1 DEF IInv, ServerSide, ServerNonces, ServerSilent
<1>5. Message(key["server"], "nonce") = NonceMessage
  BY <1>4 DEF NonceMessage
<1>6. /\ BuffersTyped' /\ Len(Queue("server")') = 0 /\ discarded' = discarded
      /\ Len(Queue("client")') = 1 /\ Queue("client")'[1] = NonceMessage
  <2>1. /\ BuffersTyped' /\ Grown("client", NonceMessage)
        /\ Len(Queue("server")') = 0 /\ buf["server"] = <<>>
    BY <1>1, <1>2, <1>4, <1>5, Sending, TypedFacts, SidesFacts DEF Resets
  <2>2. discarded' = discarded
    BY <1>1, <2>1, Context DEF Resets
  <2> QED
    BY <1>4, <2>1, <2>2, ShortQueues DEF Nothing
<1>7. pc["client"] \in {"closed", "recvNonce"}
  BY <1>1, Context DEF IInv, Together, ClientPCs
<1>8. /\ NonceMessage.kind = "message" /\ NonceMessage.body = "nonce"
      /\ NonceMessage.key = Key(principal.password)
  BY DEF NonceMessage, Message
<1>9. \A i \in 1 .. Len(Queue("client")') : Queue("client")'[i] = NonceMessage
  <2> DEFINE m == Len(Queue("client")')
  <2>1. m = 1
    BY <1>6
  <2> HIDE DEF m
  <2>2. \A i \in 1 .. m : i = 1
    BY <2>1
  <2> QED
    BY <1>6, <2>2 DEF m
<1>10. WellTyped'
  <2>1. /\ pc' \in [Sides -> ClientPCs \union ServerPCs] /\ "recvAuth" \in ServerPCs
    BY <1>1, Context DEF ServerPCs
  <2> QED
    BY <1>1, <1>2, <1>3, <1>6, <2>1, NextTyped, Context DEF WellTyped, TypeOK
<1>11. Results' /\ Granted'
  BY <1>1, <1>3, SidesFacts
  DEF IInv, Results, Granted, ServerShakes, Secret, SamePassword
<1>12. Starts'
  BY <1>1, <1>3, <1>6 DEF IInv, Starts
<1>13. ServerSide'
  BY <1>1, <1>3, <1>4, <1>6
  DEF ServerSide, ServerHello, ServerNonces, ServerSilent, ServerAuth, ServerOK,
      ServerData, Nothing, Secret
<1>14. ClientSide'
  <2>1. pc["client"] = "recvNonce" => key["client"] = Key(settings.password)
    BY DEF IInv, ClientSide, ClientNonces
  <2> QED
    BY <1>1, <1>3, <1>4, <1>6, <1>7, <2>1
    DEF ClientSide, ClientBegins, ClientUnheard, ClientNonces, ClientEntitled,
        ClientAuths, ClientAwaitsOK, ClientData, Nothing, Secret, NonceMessage
<1>15. Together'
  BY <1>3, <1>6, <1>7 DEF Together, ClientLive, Nothing
<1>16. Refusals'
  BY <1>8, <1>9 DEF Refusals
<1>17. Behind'
  <2>1. Past(Key(principal.password), SessionKey(0))
    <3>1. /\ Key(principal.password) # NoKey
          /\ Key(principal.password)[1] # ServerNonce
          /\ Key(principal.password) \in Keys
      BY <1>2, TypedFacts, KeyFacts DEF Key
    <3>2. ~IsSession(Key(principal.password))
      BY <3>1, KeyFacts
    <3> QED
      BY <3>1, <3>2, KeyFacts DEF Past
  <2> QED
    BY <1>1, <1>3, <1>4, <1>6, <1>8, <1>9, <2>1 DEF Behind
<1>18. NothingDiscarded' /\ (Duplex \/ OpensWhatIsSent')
  BY <1>1, <1>4, <1>6 DEF IInv, NothingDiscarded, OpensWhatIsSent
<1> QED
  BY <1>10, <1>11, <1>12, <1>13, <1>14, <1>15, <1>16, <1>17, <1>18 DEF IInv

\* "#AUTH": what comes is always that, for a client that sends it has opened the
\* server's nonce.
LEMMA ServerRecvAuthInv ==
  ASSUME IInv, ServerRecvAuth
  PROVE  IInv'
<1> DEFINE authentic(u) == Opens("server", u) /\ u.body = "#AUTH"
<1>1. PICK r \in Received("server") :
        LET a == authentic(Head(r[1]))
        IN /\ pc["server"] = "recvAuth"
           /\ pc' = [pc EXCEPT !["server"] = IF a THEN "sendOK" ELSE "closed"]
           /\ result' = IF a THEN result ELSE [result EXCEPT !["server"] = "error"]
           /\ key' = IF a THEN [key EXCEPT !["server"] = Incremented(@)] ELSE key
           /\ buf' = [buf EXCEPT !["server"] = IF a THEN Tail(r[1]) ELSE <<>>]
           /\ \E answer \in IF a THEN {<<>>}
                             ELSE {<<>>, <<Message(key["server"], "#KO")>>} :
                stream' = [stream EXCEPT !["server"] = r[2],
                                         !["client"] = @ \o answer]
           /\ discarded' = (discarded \/ (~a /\ Tail(r[1]) # <<>>))
           /\ Notes("server", Head(r[1]))
           /\ UNCHANGED <<settings, hasPath, principal, type, sent, started>>
  BY Zenon DEF ServerRecvAuth, Goes, configVars, dataVars
<1>2. WellTyped /\ TypeOK
  BY DEF IInv, WellTyped
<1>3. /\ AuthMessage.kind = "message" /\ AuthMessage.body = "#AUTH"
      /\ AuthMessage.key = SessionKey(0)
  BY DEF AuthMessage, Message
<1>4. /\ Secret /\ SamePassword /\ key["server"] = SessionKey(0)
      /\ Len(Queue("server")) = 1 /\ Queue("server")[1] = AuthMessage
      /\ Head(r[1]) = AuthMessage
  <2>1. Len(Queue("server")) # 0 /\ Head(r[1]) = Queue("server")[1]
    BY <1>2, ReceivedFacts, SidesFacts
  <2> QED
    BY <1>1, <2>1 DEF IInv, ServerSide, ServerAuth, Nothing, Only
<1>5. authentic(Head(r[1]))
  BY <1>3, <1>4 DEF Opens
<1> HIDE DEF authentic
<1>6. /\ pc["server"] = "recvAuth" /\ pc' = [pc EXCEPT !["server"] = "sendOK"]
      /\ key' = [key EXCEPT !["server"] = Incremented(@)]
      /\ UNCHANGED <<settings, hasPath, principal, type, result, sent, started>>
      /\ garbled' = garbled /\ opened' = opened \union {SessionKey(0)}
      /\ Pulls("server", r)
  <2>1. stream' = [stream EXCEPT !["server"] = r[2]]
    <3>1. stream' = [stream EXCEPT !["server"] = r[2], !["client"] = @ \o <<>>]
      BY <1>1, <1>5
    <3>2. stream["client"] \in Seq(Units) /\ stream["client"] \o <<>> = stream["client"]
      BY <1>2, SidesFacts, ConcatEmptySeq DEF WellTyped
    <3> QED
      BY <1>2, <3>1, <3>2, SidesFacts DEF WellTyped
  <2>2. discarded' = discarded
    BY <1>1, <1>5, Context
  <2>3. garbled' = garbled /\ opened' = opened \union {SessionKey(0)}
    BY <1>1, <1>3, <1>4 DEF Notes, Opens
  <2> QED
    BY <1>1, <1>5, <2>1, <2>2, <2>3 DEF Pulls
<1>7. /\ pc'["server"] = "sendOK" /\ pc'["client"] = pc["client"]
      /\ key'["server"] = SessionKey(1) /\ key'["server"] = Advanced(key["server"], 1)
      /\ key'["client"] = key["client"] /\ key' \in [Sides -> Keys]
  <2>1. Incremented(key["server"]) = Advanced(key["server"], 1)
    BY AdvancedFacts, Context
  <2>2. Advanced(SessionKey(0), 1) = SessionKey(1)
    BY KeyFacts DEF Advanced, SessionKey
  <2> QED
    BY <1>4, <1>6, <2>1, <2>2, SidesFacts, Context, KeyFacts
<1>8. /\ BuffersTyped' /\ Queue("client")' = Queue("client") /\ discarded' = discarded
      /\ Len(Queue("server")') = 0
  BY <1>2, <1>4, <1>6, Pulling, ShortQueues, SidesFacts DEF Still
<1>9. 1 \in 1 .. Len(Queue("server"))
  <2> DEFINE l == Len(Queue("server"))
  <2>1. l = 1
    BY <1>4
  <2> HIDE DEF l
  <2>2. 1 \in 1 .. l
    BY <2>1
  <2> QED
    BY <2>2 DEF l
<1>10. /\ pc["client"] \notin {"hello", "sendNonce", "recvNonce"}
       /\ pc["client"] # "closed" => pc["client"] = "recvOK" /\ Nothing("client")
  <2>1. pc["client"] \notin {"hello", "sendNonce", "recvNonce"}
    BY <1>3, <1>4, <1>9 DEF IInv, ClientSide, ClientUnheard
  <2> QED
    BY <1>4, <1>6, <2>1, Context DEF IInv, Together, Nothing, ClientPCs
<1>11. WellTyped'
  <2>1. /\ pc' \in [Sides -> ClientPCs \union ServerPCs] /\ "sendOK" \in ServerPCs
    BY <1>6, Context DEF ServerPCs
  <2>2. opened' \subseteq Keys
    BY <1>6, Context, KeyFacts
  <2> QED
    BY <1>2, <1>6, <1>7, <1>8, <2>1, <2>2, NextTyped, Context DEF WellTyped, TypeOK
<1>12. Results' /\ Granted'
  BY <1>4, <1>6, <1>7, SidesFacts
  DEF IInv, Results, Granted, ServerShakes, Secret, SamePassword
<1>13. Starts'
  BY <1>6, <1>7, <1>8 DEF IInv, Starts
<1>14. ServerSide'
  BY <1>4, <1>6, <1>7, <1>8
  DEF ServerSide, ServerHello, ServerNonces, ServerSilent, ServerAuth, ServerOK,
      ServerData, Nothing, Secret
<1>15. ClientSide'
  BY <1>6, <1>7, <1>8, <1>10
  DEF IInv, ClientSide, ClientBegins, ClientUnheard, ClientNonces, ClientEntitled,
      ClientAuths, ClientAwaitsOK, ClientData, Nothing, Secret, SamePassword
<1>16. Together'
  BY <1>7, <1>8, <1>10 DEF Together, ClientLive, Nothing
<1>17. Refusals'
  BY <1>6, <1>7, <1>8 DEF IInv, Refusals, Secret, ClientLive
<1>18. Behind'
  <2>1. /\ Past(SessionKey(0), SessionKey(1))
        /\ \A k \in Keys : Past(k, key["server"]) => Past(k, key'["server"])
    <3>1. /\ SessionKey(0) # NoKey /\ SessionKey(0)[2] = 0 /\ SessionKey(1)[2] = 1
          /\ IsSession(SessionKey(1))
      BY KeyFacts
    <3>2. Past(SessionKey(0), SessionKey(1))
      BY <3>1 DEF Past
    <3> QED
      BY <1>7, <3>2, PastFacts, Context
  <2>2. Past(SessionKey(0), key["client"])
    BY <1>3, <1>4, <1>9 DEF IInv, Behind
  <2>3. \A i \in 1 .. Len(Queue("client")) :
          Queue("client")[i].kind = "message" => Queue("client")[i].key \in Keys
    BY <1>2, QueueFacts, UnitFacts, SidesFacts
  <2>4. \A k \in opened : k \in Keys
    BY Context
  <2> QED
    BY <1>6, <1>7, <1>8, <2>1, <2>2, <2>3, <2>4 DEF IInv, Behind, Refusals
<1>19. NothingDiscarded' /\ (Duplex \/ OpensWhatIsSent')
  BY <1>6, <1>8 DEF IInv, NothingDiscarded, OpensWhatIsSent
<1> QED
  BY <1>11, <1>12, <1>13, <1>14, <1>15, <1>16, <1>17, <1>18, <1>19 DEF IInv

\* "#OK": the server returns, one key ahead of the client.
LEMMA ServerSendsOKInv ==
  ASSUME IInv, ServerSendsOK
  PROVE  IInv'
<1> DEFINE k == key["server"]
<1>1. /\ pc["server"] = "sendOK" /\ pc' = [pc EXCEPT !["server"] = "data"]
      /\ Sends("server", Message(k, "#OK")) /\ Resets("server")
      /\ key' = [key EXCEPT !["server"] = Incremented(@)]
      /\ result' = [result EXCEPT !["server"] = "ok"]
      /\ UNCHANGED <<settings, hasPath, principal, type, sent, started,
                     garbled, opened>>
  BY DEF ServerSendsOK, Goes, Serializes, Returns, configVars, dataVars, historyVars
<1>2. WellTyped /\ TypeOK
  BY DEF IInv, WellTyped
<1>3. /\ k = IF Secret THEN SessionKey(1) ELSE NoKey
      /\ Nothing("server") /\ (Secret => SamePassword) /\ type = settings.type
      /\ result["server"] = "none" /\ result["client"] # "ok"
      /\ "server" \notin started
  BY <1>1 DEF IInv, ServerSide, ServerOK, Granted, ServerShakes, Results, Starts
<1>4. /\ k \in Keys /\ (IsSession(k) \/ k = NoKey) /\ (IsSession(k) <=> Secret)
      /\ Incremented(k) = Advanced(k, 1) /\ Advanced(k, 1) \in Keys
      /\ (IsSession(Advanced(k, 1)) <=> IsSession(k))
      /\ (Advanced(k, 1) = NoKey <=> k = NoKey)
  <2>1. /\ k \in Keys /\ (IsSession(k) \/ k = NoKey) /\ (IsSession(k) <=> Secret)
    BY <1>3, KeyFacts, Context
  <2> QED
    BY <2>1, AdvancedFacts
<1>5. /\ pc'["server"] = "data" /\ pc'["client"] = pc["client"]
      /\ key'["server"] = Advanced(k, 1)
      /\ key'["client"] = key["client"] /\ key' \in [Sides -> Keys]
      /\ result'["server"] = "ok" /\ result'["client"] = result["client"]
      /\ result' \in [Sides -> {"none", "ok", "zero", "error"}]
  BY <1>1, <1>4, SidesFacts, Context
<1> DEFINE u == Message(k, "#OK")
<1>6. u \in Units /\ u.kind = "message" /\ u.body = "#OK" /\ u.key = k
  BY <1>4, UnitFacts DEF Bodies
<1>7. /\ BuffersTyped' /\ Len(Queue("server")') = 0 /\ discarded' = discarded
      /\ Grown("client", u)
  <2>1. /\ BuffersTyped' /\ Grown("client", u)
        /\ Len(Queue("server")') = 0 /\ buf["server"] = <<>>
    BY <1>1, <1>2, <1>3, <1>6, Sending, SidesFacts DEF Resets
  <2>2. discarded' = discarded
    BY <1>1, <2>1, Context DEF Resets
  <2> QED
    BY <2>1, <2>2
<1> HIDE DEF u, k
<1>8. /\ Len(Queue("client")) = 0
           => Len(Queue("client")') = 1 /\ Queue("client")'[1] = u
      /\ \A i \in 1 .. Len(Queue("client")') :
           \/ i \in 1 .. Len(Queue("client")) /\ Queue("client")'[i] = Queue("client")[i]
           \/ Queue("client")'[i] = u
  BY <1>7, ShortQueues, GrownFacts, Context
<1>9. /\ pc["client"] \in {"closed", "recvOK"}
      /\ pc["client"] = "recvOK" => Nothing("client") /\ key["client"] = k
  <2>1. Together /\ pc["client"] \in ClientPCs
    BY Context DEF IInv
  <2>2. pc["client"] # "closed" => ServerLive /\ ClientLive
    BY <1>1, Context
  <2>3. /\ pc["client"] \in {"closed", "recvOK"}
        /\ pc["client"] = "recvOK" => Nothing("client") \/ Len(Queue("server")) = 1
    BY <1>1, <2>1, <2>2 DEF Together, ClientPCs
  <2>4. pc["client"] = "recvOK" => Nothing("client")
    BY <1>1, <2>1, <2>2 DEF Together
  <2>5. pc["client"] = "recvOK" => key["client"] = k
    BY <1>3 DEF IInv, ClientSide, ClientAwaitsOK
  <2> QED
    BY <2>3, <2>4, <2>5
<1>10. WellTyped'
  <2>1. /\ pc' \in [Sides -> ClientPCs \union ServerPCs] /\ "data" \in ServerPCs
    BY <1>1, Context DEF ServerPCs
  <2> QED
    BY <1>1, <1>2, <1>5, <1>7, <2>1, NextTyped, Context DEF WellTyped, TypeOK
<1>11. Results' /\ Granted'
  BY <1>1, <1>3, <1>5, SidesFacts
  DEF IInv, Results, Granted, ServerShakes, Secret, SamePassword
<1>12. Starts'
  BY <1>1, <1>5, <1>7 DEF IInv, Starts
<1>13. ServerSide'
  BY <1>1, <1>3, <1>4, <1>5, <1>7
  DEF ServerSide, ServerHello, ServerNonces, ServerSilent, ServerAuth, ServerOK,
      ServerData, Nothing, Secret, Consecutive
<1>14. ClientSide'
  <2>1. pc["client"] = "recvOK" =>
          /\ Len(Queue("client")') = 1
          /\ Queue("client")'[1] = Message(key'["client"], "#OK")
    BY <1>5, <1>8, <1>9 DEF u, Nothing
  <2>2. pc["client"] = "recvOK" =>
          key["client"] = IF Secret THEN SessionKey(1) ELSE NoKey
    BY DEF IInv, ClientSide, ClientAwaitsOK
  <2>3. ClientAwaitsOK'
    BY <1>1, <1>5, <2>1, <2>2 DEF ClientAwaitsOK, Only, Secret
  <2> QED
    BY <1>1, <1>3, <1>5, <1>9, <2>3
    DEF IInv, ClientSide, ClientBegins, ClientUnheard, ClientNonces, ClientEntitled,
        ClientAuths, ClientData, Secret, SamePassword
<1>15. Together'
  BY <1>5, <1>7, <1>8, <1>9 DEF Together, ClientLive, Nothing
<1>16. Refusals'
  BY <1>1, <1>5, <1>6, <1>8, <1>3 DEF IInv, Refusals, Secret, ClientLive
<1>17. Behind'
  <2>1. /\ Past(k, Advanced(k, 1))
        /\ \A j \in Keys : Past(j, k) => Past(j, Advanced(k, 1))
    BY <1>4, PastFacts
  <2>2. \A i \in 1 .. Len(Queue("client")) :
          Queue("client")[i].kind = "message" => Queue("client")[i].key \in Keys
    BY <1>2, QueueFacts, UnitFacts, SidesFacts
  <2>3. \A j \in opened : j \in Keys
    BY Context
  <2> QED
    BY <1>1, <1>5, <1>6, <1>7, <1>8, <2>1, <2>2, <2>3 DEF IInv, Behind, Refusals, k
<1>18. NothingDiscarded' /\ (Duplex \/ OpensWhatIsSent')
  <2>1. discarded => result["client"] = "error"
    BY <1>3, SidesFacts DEF IInv, NothingDiscarded
  <2> QED
    BY <1>1, <1>5, <1>7, <2>1, SidesFacts
    DEF IInv, NothingDiscarded, OpensWhatIsSent
<1> QED
  BY <1>10, <1>11, <1>12, <1>13, <1>14, <1>15, <1>16, <1>17, <1>18 DEF IInv

\* The end of the stream is no error to the server: it goes on, and finds nobody.
LEMMA ServerEndsInv ==
  ASSUME IInv, ServerEnds
  PROVE  IInv'
<1>1. /\ pc["server"] \in ServerShakes /\ pc' = [pc EXCEPT !["server"] = "data"]
      /\ pc["client"] = "closed" /\ buf["server"] = <<>> /\ Resets("server")
      /\ result' = [result EXCEPT !["server"] = "zero"]
      /\ UNCHANGED <<settings, hasPath, principal, type, key, sent, started,
                     garbled, opened>>
      /\ \/ stream' = stream
         \/ /\ pc["server"] = "recvAuth"
            /\ Sends("server", Message(key["server"], "#KO"))
  BY DEF ServerEnds, Goes, Returns, Ended, Waiting, SendsKO, ServerShakes, Peer,
         configVars, dataVars, historyVars
<1>2. WellTyped /\ TypeOK
  BY DEF IInv, WellTyped
<1>3. /\ pc'["server"] = "data" /\ pc'["client"] = "closed"
      /\ result'["server"] = "zero" /\ result'["client"] = result["client"]
      /\ result' \in [Sides -> {"none", "ok", "zero", "error"}]
      /\ result["server"] = "none"
  BY <1>1, SidesFacts, Context DEF IInv, Results
<1>4. /\ buf' = [buf EXCEPT !["server"] = <<>>] /\ discarded' = discarded
      /\ buf'["server"] = <<>> /\ buf'["client"] = buf["client"]
      /\ buf' \in [Sides -> Seq(Units)]
  <2>1. <<>> \in Seq(Units)
    BY EmptySeq
  <2> QED
    BY <1>1, <1>2, <2>1, SidesFacts, Context DEF Resets, WellTyped
<1>5. /\ KOMessage.kind = "message" /\ KOMessage.body = "#KO"
      /\ KOMessage.key = SessionKey(0)
  BY DEF KOMessage, Message
<1>6. /\ BuffersTyped' /\ Left("server")
      /\ \/ Queue("client")' = Queue("client")
         \/ Grown("client", KOMessage) /\ Secret
  <2>1. CASE stream' = stream
    BY <1>2, <1>4, <2>1, LeftFacts, StillFacts, SidesFacts
    DEF BuffersTyped, WellTyped, Still
  <2>2. CASE /\ pc["server"] = "recvAuth"
             /\ Sends("server", Message(key["server"], "#KO"))
    <3>1. Message(key["server"], "#KO") = KOMessage /\ Secret
      BY <2>2 DEF IInv, ServerSide, ServerAuth, KOMessage
    <3> QED
      BY <1>2, <1>4, <2>2, <3>1, TypedFacts, Sending, SidesFacts
  <2> QED
    BY <1>1, <2>1, <2>2
<1>7. \A i \in 1 .. Len(Queue("client")') :
        \/ i \in 1 .. Len(Queue("client")) /\ Queue("client")'[i] = Queue("client")[i]
        \/ Secret /\ Queue("client")'[i] = KOMessage
  BY <1>6, GrownFacts, Context
<1>8. WellTyped'
  <2>1. /\ pc' \in [Sides -> ClientPCs \union ServerPCs] /\ "data" \in ServerPCs
    BY <1>1, Context DEF ServerPCs
  <2> QED
    BY <1>1, <1>2, <1>3, <1>4, <1>6, <2>1, NextTyped, Context DEF WellTyped, TypeOK
<1>9. Results'
  BY <1>1, <1>3, SidesFacts DEF IInv, Results, ServerShakes, ClientShakes
<1>10. Granted'
  BY <1>1, <1>3 DEF IInv, Granted, ServerShakes, Secret, SamePassword
<1>11. Starts'
  BY <1>1, <1>3, <1>6 DEF IInv, Starts, Left
<1>12. ServerSide' /\ ClientSide' /\ Together'
  BY <1>3 DEF ServerSide, ServerHello, ServerNonces, ServerSilent, ServerAuth,
              ServerOK, ServerData, ClientSide, ClientBegins, ClientUnheard,
              ClientNonces, ClientEntitled, ClientAuths, ClientAwaitsOK, ClientData,
              Together, ClientLive
<1>13. Refusals'
  BY <1>1, <1>3, <1>5, <1>7 DEF IInv, Refusals, Secret, ClientLive
<1>14. Behind'
  BY <1>1, <1>5, <1>6, <1>7 DEF IInv, Behind, Left
<1>15. NothingDiscarded' /\ (Duplex \/ OpensWhatIsSent')
  <2>1. discarded => result["client"] = "error"
    BY <1>3, SidesFacts DEF IInv, NothingDiscarded
  <2> QED
    BY <1>1, <1>3, <1>4, <2>1, SidesFacts
    DEF IInv, NothingDiscarded, OpensWhatIsSent
<1> QED
  BY <1>8, <1>9, <1>10, <1>11, <1>12, <1>13, <1>14, <1>15 DEF IInv

------------------------------------------------------------------------------
(* The exchange of data. *)

\* A key of the exchange, and the next one.
LEMMA DataKeys ==
  ASSUME NEW k \in Keys, IF Secret THEN IsSession(k) ELSE k = NoKey
  PROVE  /\ Incremented(k) = Advanced(k, 1) /\ Advanced(k, 1) \in Keys
         /\ IF Secret THEN IsSession(Advanced(k, 1)) ELSE Advanced(k, 1) = NoKey
         /\ Past(k, Advanced(k, 1))
         /\ \A j \in Keys : Past(j, k) => Past(j, Advanced(k, 1))
BY AdvancedFacts, PastFacts

\* The keys of what is on its way.
LEMMA QueuedKeys ==
  ASSUME WellTyped, NEW s \in Sides
  PROVE  \A i \in 1 .. Len(Queue(s)) :
           Queue(s)[i].kind = "message" => Queue(s)[i].key \in Keys
BY QueueFacts, UnitFacts

\* One more message, under the key that follows those before it.
LEMMA ConsecutiveGrows ==
  ASSUME NEW s \in Sides, NEW u, Grown(s, u), Len(Queue(s)) \in Nat,
         Consecutive(s), key'[s] = key[s],
         u.kind = "message", u.key = Advanced(key[s], Len(Queue(s)))
  PROVE  Consecutive(s)'
<1> DEFINE l == Len(Queue(s))
           m == Len(Queue(s)')
<1>1. /\ l \in Nat /\ m = l + 1 /\ Queue(s)'[l + 1] = u
      /\ u.key = Advanced(key[s], l)
      /\ \A i \in 1 .. l : Queue(s)'[i] = Queue(s)[i] /\ Queue(s)[i].kind = "message"
                           /\ Queue(s)[i].key = Advanced(key[s], i - 1)
  BY DEF Grown, Consecutive
<1> HIDE DEF l, m
<1>2. \A i \in 1 .. m : i \in 1 .. l \/ (i = l + 1 /\ i - 1 = l)
  BY <1>1
<1>3. \A i \in 1 .. m : /\ Queue(s)'[i].kind = "message"
                        /\ Queue(s)'[i].key = Advanced(key[s], i - 1)
  BY <1>1, <1>2
<1> QED
  BY <1>3 DEF Consecutive, m

\* The first message opens, and the next one will.
LEMMA ConsecutiveShrinks ==
  ASSUME NEW s \in Sides, Shrunk(s), Len(Queue(s)) \in Nat \ {0},
         Consecutive(s), key[s] \in Keys
  PROVE  /\ Queue(s)[1].key = key[s]
         /\ key'[s] = Advanced(key[s], 1) => Consecutive(s)'
         /\ Advanced(key[s], Len(Queue(s)))
              = Advanced(Advanced(key[s], 1), Len(Queue(s)'))
<1> DEFINE l == Len(Queue(s))
           m == Len(Queue(s)')
           k == key[s]
<1>1. /\ l \in Nat \ {0} /\ m = l - 1 /\ k \in Keys
      /\ \A i \in 1 .. l - 1 : Queue(s)'[i] = Queue(s)[i + 1]
      /\ \A i \in 1 .. l : Queue(s)[i].kind = "message"
                           /\ Queue(s)[i].key = Advanced(k, i - 1)
  BY DEF Shrunk, Consecutive
<1> HIDE DEF l, m, k
<1>2. Queue(s)[1].key = k
  <2>1. 1 \in 1 .. l /\ 1 - 1 = 0
    BY <1>1
  <2> QED
    BY <1>1, <2>1, AdvancedFacts
<1>3. \A i \in 1 .. m : /\ Queue(s)'[i].kind = "message"
                        /\ Queue(s)'[i].key = Advanced(Advanced(k, 1), i - 1)
  <2> SUFFICES ASSUME NEW i \in 1 .. m
               PROVE  /\ Queue(s)'[i].kind = "message"
                      /\ Queue(s)'[i].key = Advanced(Advanced(k, 1), i - 1)
    OBVIOUS
  <2>1. /\ i \in 1 .. l - 1 /\ i + 1 \in 1 .. l /\ (i + 1) - 1 = i
        /\ i - 1 \in Nat /\ (i - 1) + 1 = i
    BY <1>1
  <2>2. Advanced(Advanced(k, 1), i - 1) = Advanced(k, i)
    BY <1>1, <2>1, AdvancedFacts
  <2> QED
    BY <1>1, <2>1, <2>2
<1>4. Advanced(k, l) = Advanced(Advanced(k, 1), m)
  <2>1. m \in Nat /\ m + 1 = l
    BY <1>1
  <2> QED
    BY <1>1, <2>1, AdvancedFacts
<1> QED
  BY <1>2, <1>3, <1>4 DEF Consecutive, l, m, k

\* The client sends: the server, which goes on, is as many keys behind as there are
\* messages before it.
LEMMA ClientSendsInv ==
  ASSUME IInv, SendData("client")
  PROVE  IInv'
<1> DEFINE k == key["client"]
           l == Len(Queue("server"))
<1>1. PICK body \in {"data", "#START"} :
        /\ pc["client"] = "data" /\ result["client"] = "ok"
        /\ Duplex \/ "client" \notin started
        /\ sent' = [sent EXCEPT !["client"] = @ + 1] /\ sent["client"] < MaxSent
        /\ Sends("client", Message(k, body))
        /\ key' = [key EXCEPT !["client"] = Incremented(@)]
        /\ started' = IF body = "#START" THEN started \union {"client"} ELSE started
        /\ UNCHANGED <<settings, hasPath, principal, type, pc, result, buf,
                       discarded, garbled, opened>>
  BY DEF SendData, MaySend, Serializes, configVars, historyVars
<1>2. WellTyped /\ TypeOK
  BY DEF IInv, WellTyped
<1>3. /\ k \in Keys /\ (IF Secret THEN IsSession(k) ELSE k = NoKey)
      /\ \A i \in 1 .. Len(Queue("client")) :
           Queue("client")[i].kind = "message" /\ Queue("client")[i].body # "#KO"
      /\ ~Duplex => Consecutive("client") /\ Nothing("client")
  BY <1>1, Context DEF IInv, ClientSide, ClientData
<1>4. /\ Incremented(k) = Advanced(k, 1) /\ Advanced(k, 1) \in Keys
      /\ IF Secret THEN IsSession(Advanced(k, 1)) ELSE Advanced(k, 1) = NoKey
      /\ Past(k, Advanced(k, 1))
      /\ \A j \in Keys : Past(j, k) => Past(j, Advanced(k, 1))
  BY <1>3, DataKeys
<1>5. /\ key'["client"] = Advanced(k, 1) /\ key'["server"] = key["server"]
      /\ key' \in [Sides -> Keys]
  BY <1>1, <1>4, SidesFacts, Context
<1> DEFINE u == Message(k, body)
<1>6. u \in Units /\ u.kind = "message" /\ u.body = body /\ u.key = k
  BY <1>3, UnitFacts DEF Bodies
<1>7. BuffersTyped' /\ Queue("client")' = Queue("client") /\ Grown("server", u)
  BY <1>1, <1>2, <1>6, Sending, SidesFacts DEF Still
<1> HIDE DEF u, k
<1>8. /\ \A i \in 1 .. Len(Queue("server")') :
           \/ i \in 1 .. Len(Queue("server")) /\ Queue("server")'[i] = Queue("server")[i]
           \/ i = l + 1 /\ Queue("server")'[i] = u
      /\ Len(Queue("server")') = l + 1 /\ l \in Nat
  BY <1>7, GrownFacts, Context DEF Grown
<1>9. /\ pc["server"] \in {"data", "closed"} /\ result["server"] = "ok"
      /\ ~Duplex => "server" \notin started /\ "client" \notin started
      /\ ~Duplex /\ pc["server"] = "data" => k = Advanced(key["server"], l)
  <2>1. result["server"] = "ok" /\ pc["server"] \in {"data", "closed"}
    BY <1>1, Context DEF IInv, Results, ServerShakes, ServerPCs
  <2>2. ~Duplex => "server" \notin started /\ "client" \notin started
    BY <1>1 DEF IInv, Starts
  <2>3. ~Duplex /\ pc["server"] = "data" => k = Advanced(key["server"], l)
    BY <1>1, <2>2, Context DEF IInv, Together, k
  <2> QED
    BY <2>1, <2>2, <2>3
<1>10. WellTyped'
  <2>1. sent' \in [Sides -> 0 .. MaxSent]
    <3> DEFINE n == sent["client"]
    <3>1. n \in 0 .. MaxSent /\ n < MaxSent /\ MaxSent \in Nat
      BY <1>1, Context, SidesFacts, HandshakeAssumption
    <3> HIDE DEF n
    <3>2. n + 1 \in 0 .. MaxSent
      BY <3>1
    <3> QED
      BY <1>1, <3>2, Context DEF n
  <2>2. started' \subseteq Sides
    BY <1>1, SidesFacts, Context
  <2> QED
    BY <1>1, <1>2, <1>5, <1>7, <2>1, <2>2, NextTyped, Context DEF WellTyped, TypeOK
<1>11. Results' /\ Granted'
  BY <1>1, SidesFacts DEF IInv, Results, Granted, Secret, SamePassword
<1>12. Starts'
  <2>1. "server" \in started' => "client" \in started'
    BY <1>1, SidesFacts DEF IInv, Starts
  <2>2. \A i \in 1 .. Len(Queue("server")') :
          Queue("server")'[i].kind = "message" /\ Queue("server")'[i].body = "#START"
            => "client" \in started'
    BY <1>1, <1>6, <1>8 DEF IInv, Starts
  <2> QED
    BY <1>1, <1>9, <2>1, <2>2 DEF Starts, ClientShakes
<1>13. ServerSide'
  <2>1. SUFFICES ASSUME pc["server"] = "data"
                 PROVE  ServerData'
    BY <1>1, <1>9
    DEF ServerSide, ServerHello, ServerNonces, ServerSilent, ServerAuth, ServerOK,
        ServerData
  <2>2. /\ IF Secret THEN IsSession(key["server"]) ELSE key["server"] = NoKey
        /\ \A i \in 1 .. Len(Queue("server")) : Queue("server")[i].kind = "message"
        /\ ~Duplex => Consecutive("server")
    BY <1>9, <2>1 DEF IInv, ServerSide, ServerData
  <2>3. ~Duplex => Consecutive("server")'
    <3> SUFFICES ASSUME ~Duplex PROVE Consecutive("server")'
      OBVIOUS
    <3>1. u.key = Advanced(key["server"], Len(Queue("server")))
      BY <1>6, <1>9, <2>1
    <3> QED
      BY <1>5, <1>6, <1>7, <2>2, <3>1, ConsecutiveGrows, SidesFacts, Context
  <2>4. ~Duplex => \A i \in 1 .. Len(Queue("server")') :
                     Queue("server")'[i].body = "#START" => i = Len(Queue("server")')
    BY <1>8, <1>9, <2>2 DEF IInv, Starts
  <2>5. \A i \in 1 .. Len(Queue("server")') : Queue("server")'[i].kind = "message"
    BY <1>6, <1>8, <2>2
  <2>6. ~Duplex => "server" \notin started'
    BY <1>1, <1>9
  <2> QED
    BY <1>1, <1>5, <2>2, <2>3, <2>4, <2>5, <2>6 DEF ServerData, Secret
<1>14. ClientSide'
  BY <1>1, <1>3, <1>4, <1>5, <1>7
  DEF IInv, ClientSide, ClientBegins, ClientUnheard, ClientNonces, ClientEntitled,
      ClientAuths, ClientAwaitsOK, ClientData, Nothing, Consecutive, Secret,
      SamePassword
<1>15. Together'
  <2>1. ~Duplex => "server" \notin started'
    BY <1>1, <1>9
  <2>2. ~Duplex /\ pc["server"] = "data" =>
          Advanced(k, 1) = Advanced(key["server"], Len(Queue("server")'))
    <3>1. key["server"] \in Keys
      BY Context
    <3>2. \A n \in Nat : Advanced(Advanced(key["server"], n), 1)
                           = Advanced(key["server"], n + 1)
      BY <3>1, AdvancedFacts
    <3>3. l \in Nat /\ Len(Queue("server")') = l + 1
      BY <1>8
    <3> HIDE DEF l
    <3> QED
      BY <1>9, <3>2, <3>3
  <2> QED
    BY <1>1, <1>3, <1>5, <1>7, <1>9, <2>1, <2>2 DEF Together, ServerLive, Nothing
<1>16. Refusals'
  BY <1>1, <1>7 DEF IInv, Refusals, Secret, ClientLive
<1>17. Behind'
  <2>1. /\ \A j \in opened : j \in Keys
        /\ \A i \in 1 .. Len(Queue("server")) :
             Queue("server")[i].kind = "message" => Queue("server")[i].key \in Keys
    BY <1>2, QueuedKeys, SidesFacts, Context
  <2> QED
    BY <1>1, <1>4, <1>5, <1>6, <1>7, <1>8, <2>1 DEF IInv, Behind, k
<1>18. NothingDiscarded' /\ (Duplex \/ OpensWhatIsSent')
  BY <1>1 DEF IInv, NothingDiscarded, OpensWhatIsSent
<1> QED
  BY <1>10, <1>11, <1>12, <1>13, <1>14, <1>15, <1>16, <1>17, <1>18 DEF IInv

\* The server sends what it was asked for: the client is as many keys behind as there
\* are messages before it.
LEMMA ServerSendsInv ==
  ASSUME IInv, SendData("server")
  PROVE  IInv'
<1> DEFINE k == key["server"]
           l == Len(Queue("client"))
           u == Message(k, "data")
<1>1. /\ pc["server"] = "data" /\ result["server"] = "ok" /\ "server" \in started
      /\ sent' = [sent EXCEPT !["server"] = @ + 1] /\ sent["server"] < MaxSent
      /\ Sends("server", u)
      /\ key' = [key EXCEPT !["server"] = Incremented(@)]
      /\ UNCHANGED <<settings, hasPath, principal, type, pc, result, buf, started,
                     discarded, garbled, opened>>
  BY DEF SendData, MaySend, Serializes, configVars, historyVars
<1>2. WellTyped /\ TypeOK
  BY DEF IInv, WellTyped
<1>3. /\ k \in Keys /\ (IF Secret THEN IsSession(k) ELSE k = NoKey)
      /\ ~Duplex => Consecutive("server") /\ Nothing("server")
      /\ "client" \in started /\ pc["client"] \in {"data", "closed"}
  <2>1. "client" \in started /\ pc["client"] \in {"data", "closed"}
    BY <1>1, Context DEF IInv, Starts, ClientShakes, ClientPCs
  <2> QED
    BY <1>1, <2>1, Context DEF IInv, ServerSide, ServerData
<1>4. /\ Incremented(k) = Advanced(k, 1) /\ Advanced(k, 1) \in Keys
      /\ IF Secret THEN IsSession(Advanced(k, 1)) ELSE Advanced(k, 1) = NoKey
      /\ Past(k, Advanced(k, 1))
      /\ \A j \in Keys : Past(j, k) => Past(j, Advanced(k, 1))
  BY <1>3, DataKeys
<1>5. /\ key'["server"] = Advanced(k, 1) /\ key'["client"] = key["client"]
      /\ key' \in [Sides -> Keys]
  BY <1>1, <1>4, SidesFacts, Context
<1>6. u \in Units /\ u.kind = "message" /\ u.body = "data" /\ u.key = k
  BY <1>3, UnitFacts DEF Bodies
<1>7. BuffersTyped' /\ Queue("server")' = Queue("server") /\ Grown("client", u)
  BY <1>1, <1>2, <1>6, Sending, SidesFacts DEF Still
<1> HIDE DEF u, k
<1>8. /\ \A i \in 1 .. Len(Queue("client")') :
           \/ i \in 1 .. Len(Queue("client")) /\ Queue("client")'[i] = Queue("client")[i]
           \/ i = l + 1 /\ Queue("client")'[i] = u
      /\ Len(Queue("client")') = l + 1 /\ l \in Nat
  BY <1>7, GrownFacts, Context DEF Grown
<1>9. ~Duplex /\ pc["client"] = "data" => k = Advanced(key["client"], l)
  BY <1>1, Context DEF IInv, Together, k
<1>10. WellTyped'
  <2>1. sent' \in [Sides -> 0 .. MaxSent]
    <3> DEFINE n == sent["server"]
    <3>1. n \in 0 .. MaxSent /\ n < MaxSent /\ MaxSent \in Nat
      BY <1>1, Context, SidesFacts, HandshakeAssumption
    <3> HIDE DEF n
    <3>2. n + 1 \in 0 .. MaxSent
      BY <3>1
    <3> QED
      BY <1>1, <3>2, Context DEF n
  <2> QED
    BY <1>1, <1>2, <1>5, <1>7, <2>1, NextTyped, Context DEF WellTyped, TypeOK
<1>11. Results' /\ Granted'
  BY <1>1, SidesFacts DEF IInv, Results, Granted, Secret, SamePassword
<1>12. Starts'
  BY <1>1, <1>7 DEF IInv, Starts
<1>13. ServerSide'
  BY <1>1, <1>3, <1>4, <1>5, <1>7
  DEF IInv, ServerSide, ServerHello, ServerNonces, ServerSilent, ServerAuth, ServerOK,
      ServerData, Nothing, Consecutive, Secret
<1>14. ClientSide'
  <2>1. SUFFICES ASSUME pc["client"] = "data"
                 PROVE  ClientEntitled' /\ ClientData'
    BY <1>1, <1>3
    DEF ClientSide, ClientBegins, ClientUnheard, ClientNonces, ClientEntitled,
        ClientAuths, ClientAwaitsOK, ClientData
  <2>2. /\ IF Secret THEN IsSession(key["client"]) ELSE key["client"] = NoKey
        /\ \A i \in 1 .. Len(Queue("client")) :
             Queue("client")[i].kind = "message" /\ Queue("client")[i].body # "#KO"
        /\ ~Duplex => Consecutive("client")
    BY <2>1 DEF IInv, ClientSide, ClientData
  <2>3. ~Duplex => Consecutive("client")'
    <3> SUFFICES ASSUME ~Duplex PROVE Consecutive("client")'
      OBVIOUS
    <3>1. u.key = Advanced(key["client"], Len(Queue("client")))
      BY <1>6, <1>9, <2>1
    <3> QED
      BY <1>5, <1>6, <1>7, <2>2, <3>1, ConsecutiveGrows, SidesFacts, Context
  <2>4. \A i \in 1 .. Len(Queue("client")') :
          Queue("client")'[i].kind = "message" /\ Queue("client")'[i].body # "#KO"
    BY <1>6, <1>8, <2>2
  <2>5. ClientEntitled'
    BY <1>1 DEF IInv, ClientSide, ClientEntitled, Secret, SamePassword
  <2> QED
    BY <1>1, <1>3, <1>5, <2>2, <2>3, <2>4, <2>5 DEF ClientData, Secret
<1>15. Together'
  <2>1. ~Duplex /\ pc["client"] = "data" =>
          Advanced(k, 1) = Advanced(key["client"], Len(Queue("client")'))
    <3>1. key["client"] \in Keys
      BY Context
    <3>2. \A n \in Nat : Advanced(Advanced(key["client"], n), 1)
                           = Advanced(key["client"], n + 1)
      BY <3>1, AdvancedFacts
    <3>3. l \in Nat /\ Len(Queue("client")') = l + 1
      BY <1>8
    <3> HIDE DEF l
    <3> QED
      BY <1>9, <3>2, <3>3
  <2> QED
    BY <1>1, <1>3, <1>5, <2>1 DEF Together, ClientLive
<1>16. Refusals'
  BY <1>1, <1>6, <1>8 DEF IInv, Refusals, Secret, ClientLive
<1>17. Behind'
  <2>1. /\ \A j \in opened : j \in Keys
        /\ \A i \in 1 .. Len(Queue("client")) :
             Queue("client")[i].kind = "message" => Queue("client")[i].key \in Keys
    BY <1>2, QueuedKeys, SidesFacts, Context
  <2> QED
    BY <1>1, <1>4, <1>5, <1>6, <1>7, <1>8, <2>1 DEF IInv, Behind, Refusals, k
<1>18. NothingDiscarded' /\ (Duplex \/ OpensWhatIsSent')
  BY <1>1 DEF IInv, NothingDiscarded, OpensWhatIsSent
<1> QED
  BY <1>10, <1>11, <1>12, <1>13, <1>14, <1>15, <1>16, <1>17, <1>18 DEF IInv

\* The client receives: what opens is the first of what the server sent it.
LEMMA ClientReceivesInv ==
  ASSUME IInv, RecvData("client")
  PROVE  IInv'
<1> DEFINE k == key["client"]
           u == Queue("client")[1]
           opens == u.key = k
<1>1. PICK r \in Received("client") :
        /\ result["client"] = "ok" /\ pc["client"] = "data"
        /\ pc' = [pc EXCEPT !["client"] = IF Opens("client", Head(r[1])) THEN "data"
                                                                         ELSE "closed"]
        /\ Notes("client", Head(r[1])) /\ Pulls("client", r)
        /\ key' = IF Opens("client", Head(r[1]))
                    THEN [key EXCEPT !["client"] = Incremented(@)] ELSE key
        /\ started' = IF Opens("client", Head(r[1])) /\ Head(r[1]).body = "#START"
                        THEN started \union {"client"} ELSE started
        /\ UNCHANGED <<settings, hasPath, principal, type, result, sent>>
  BY Zenon DEF RecvData, Goes, configVars
<1>2. WellTyped /\ TypeOK
  BY DEF IInv, WellTyped
<1>3. /\ k \in Keys /\ (IF Secret THEN IsSession(k) ELSE k = NoKey)
      /\ \A i \in 1 .. Len(Queue("client")) :
           Queue("client")[i].kind = "message" /\ Queue("client")[i].body # "#KO"
      /\ ~Duplex => Consecutive("client")
      /\ ~Duplex /\ ~Nothing("client") => "client" \in started
  BY <1>1, Context DEF IInv, ClientSide, ClientData
<1>4. /\ Incremented(k) = Advanced(k, 1) /\ Advanced(k, 1) \in Keys
      /\ IF Secret THEN IsSession(Advanced(k, 1)) ELSE Advanced(k, 1) = NoKey
      /\ Past(k, Advanced(k, 1))
      /\ \A j \in Keys : Past(j, k) => Past(j, Advanced(k, 1))
  BY <1>3, DataKeys
<1>5. /\ Len(Queue("client")) \in Nat \ {0} /\ Head(r[1]) = u
      /\ u \in Units /\ ~Nothing("client") /\ 1 \in 1 .. Len(Queue("client"))
  <2>1. Len(Queue("client")) \in Nat \ {0} /\ Head(r[1]) = u /\ u \in Units
    BY <1>2, ReceivedFacts, SidesFacts
  <2>2. ~Nothing("client") /\ 1 \in 1 .. Len(Queue("client"))
    BY <2>1 DEF Nothing
  <2> QED
    BY <2>1, <2>2
<1>6. /\ u.kind = "message" /\ u.body # "#KO" /\ u.body \in Bodies
      /\ Past(u.key, key["server"])
  BY <1>3, <1>5, UnitFacts DEF IInv, Behind
<1>7. /\ BuffersTyped' /\ Shrunk("client") /\ Left("client")
      /\ Queue("server")' = Queue("server") /\ discarded' = discarded
  BY <1>1, <1>2, Pulling, SidesFacts DEF Still
<1>8. ~Duplex => /\ opens
                 /\ Advanced(k, Len(Queue("client")))
                      = Advanced(Advanced(k, 1), Len(Queue("client")'))
                 /\ key'["client"] = Advanced(k, 1) => Consecutive("client")'
  BY <1>3, <1>5, <1>7, ConsecutiveShrinks, SidesFacts
<1> HIDE DEF u
<1>9. Opens("client", Head(r[1])) <=> opens
  BY <1>5, <1>6 DEF Opens
<1>10. /\ pc["server"] \in {"data", "closed"}
       /\ result["server"] = "ok"
  BY <1>1, Context DEF IInv, Results, ServerShakes, ServerPCs
<1>11. CASE ~opens
  <2>1. /\ pc' = [pc EXCEPT !["client"] = "closed"] /\ Duplex
        /\ UNCHANGED <<settings, hasPath, principal, type, result, key, sent, started>>
        /\ opened' = opened /\ garbled' = garbled \union {u.body}
    BY <1>1, <1>5, <1>8, <1>9, <1>11 DEF Notes
  <2>2. pc'["client"] = "closed" /\ pc'["server"] = pc["server"]
    BY <2>1, SidesFacts, Context
  <2>3. WellTyped'
    <3>1. /\ pc' \in [Sides -> ClientPCs \union ServerPCs] /\ "closed" \in ClientPCs
      BY <2>1, Context DEF ClientPCs
    <3> QED
      BY <1>2, <1>6, <1>7, <2>1, <2>2, <3>1, NextTyped, Context DEF WellTyped, TypeOK
  <2>4. Results' /\ Granted' /\ Starts'
    BY <1>1, <1>7, <2>1, <2>2, SidesFacts
    DEF IInv, Results, Granted, Starts, ClientShakes, Secret, SamePassword
  <2>5. ServerSide'
    BY <1>7, <1>10, <2>1, <2>2
    DEF IInv, ServerSide, ServerHello, ServerNonces, ServerSilent, ServerAuth, ServerOK,
        ServerData, Nothing, Consecutive, Secret
  <2>6. ClientSide' /\ Together'
    BY <2>2 DEF ClientSide, ClientBegins, ClientUnheard, ClientNonces, ClientEntitled,
                ClientAuths, ClientAwaitsOK, ClientData, Together, ClientLive
  <2>7. Refusals' /\ Behind'
    BY <1>7, <2>1, <2>2 DEF IInv, Refusals, Behind, Left, Secret, ClientLive
  <2>8. NothingDiscarded'
    BY <1>7, <2>1 DEF IInv, NothingDiscarded
  <2> QED
    BY <2>1, <2>3, <2>4, <2>5, <2>6, <2>7, <2>8 DEF IInv
<1>12. CASE opens
  <2>1. /\ pc' = [pc EXCEPT !["client"] = "data"]
        /\ key' = [key EXCEPT !["client"] = Advanced(k, 1)]
        /\ started' \in {started, started \union {"client"}}
        /\ UNCHANGED <<settings, hasPath, principal, type, result, sent>>
        /\ opened' = opened \union {k} /\ garbled' = garbled
    BY <1>1, <1>4, <1>5, <1>9, <1>12 DEF Notes
  <2>2. /\ pc' = pc /\ pc'["client"] = "data" /\ pc'["server"] = pc["server"]
        /\ key'["client"] = Advanced(k, 1) /\ key'["server"] = key["server"]
        /\ key' \in [Sides -> Keys]
    BY <1>1, <1>4, <2>1, SidesFacts, Context
  <2> HIDE DEF k
  <2>3. WellTyped'
    <3>1. started' \subseteq Sides /\ opened' \subseteq Keys
      BY <1>3, <2>1, SidesFacts, Context
    <3> QED
      BY <1>2, <1>7, <2>1, <2>2, <3>1, NextTyped, Context DEF WellTyped, TypeOK
  <2>4. Results' /\ Granted' /\ Starts'
    BY <1>1, <1>7, <1>10, <2>1, <2>2, SidesFacts
    DEF IInv, Results, Granted, Starts, ClientShakes, Secret, SamePassword
  <2>5. ServerSide'
    BY <1>7, <1>10, <2>1, <2>2, SidesFacts
    DEF IInv, ServerSide, ServerHello, ServerNonces, ServerSilent, ServerAuth, ServerOK,
        ServerData, Nothing, Consecutive, Secret
  <2>6. ClientSide'
    <3>1. \A i \in 1 .. Len(Queue("client")') :
            Queue("client")'[i].kind = "message" /\ Queue("client")'[i].body # "#KO"
      BY <1>3, <1>7 DEF Left
    <3>2. ClientEntitled'
      BY <1>1, <2>1 DEF IInv, ClientSide, ClientEntitled, Secret, SamePassword
    <3> QED
      BY <1>3, <1>4, <1>5, <1>8, <2>1, <2>2, <3>1, <3>2
      DEF ClientSide, ClientBegins, ClientUnheard, ClientNonces, ClientAuths,
          ClientAwaitsOK, ClientData, Secret
  <2>7. Together'
    <3>1. pc["server"] # "closed" =>
            /\ pc["server"] = "data"
            /\ ~Duplex => /\ "server" \in started
                          /\ key["server"] = Advanced(k, Len(Queue("client")))
      BY <1>1, <1>5, <1>10, Context DEF IInv, Together, k
    <3> QED
      BY <1>8, <2>1, <2>2, <3>1, SidesFacts DEF Together, ServerLive
  <2>8. Refusals'
    BY <1>7, <2>1, <2>2 DEF IInv, Refusals, Left, Secret, ClientLive
  <2>9. Behind'
    <3>1. /\ \A j \in opened : j \in Keys
          /\ \A i \in 1 .. Len(Queue("server")) :
               Queue("server")[i].kind = "message" => Queue("server")[i].key \in Keys
      BY <1>2, QueuedKeys, SidesFacts, Context
    <3>2. Past(k, key["server"])
      BY <1>6, <1>12
    <3> QED
      BY <1>4, <1>7, <2>1, <2>2, <3>1, <3>2 DEF IInv, Behind, Left, k
  <2>10. NothingDiscarded' /\ (Duplex \/ OpensWhatIsSent')
    BY <1>7, <2>1 DEF IInv, NothingDiscarded, OpensWhatIsSent
  <2> QED
    BY <2>3, <2>4, <2>5, <2>6, <2>7, <2>8, <2>9, <2>10 DEF IInv
<1> QED
  BY <1>11, <1>12

\* The server receives: "#START" is the last message of a client that waits for what
\* it asked for.
LEMMA ServerReceivesInv ==
  ASSUME IInv, RecvData("server")
  PROVE  IInv'
<1> DEFINE k == key["server"]
           u == Queue("server")[1]
           opens == u.key = k
<1>1. PICK r \in Received("server") :
        /\ result["server"] = "ok" /\ pc["server"] = "data"
        /\ pc' = [pc EXCEPT !["server"] = IF Opens("server", Head(r[1])) THEN "data"
                                                                         ELSE "closed"]
        /\ Notes("server", Head(r[1])) /\ Pulls("server", r)
        /\ key' = IF Opens("server", Head(r[1]))
                    THEN [key EXCEPT !["server"] = Incremented(@)] ELSE key
        /\ started' = IF Opens("server", Head(r[1])) /\ Head(r[1]).body = "#START"
                        THEN started \union {"server"} ELSE started
        /\ UNCHANGED <<settings, hasPath, principal, type, result, sent>>
  BY Zenon DEF RecvData, Goes, configVars
<1>2. WellTyped /\ TypeOK
  BY DEF IInv, WellTyped
<1>3. /\ k \in Keys /\ (IF Secret THEN IsSession(k) ELSE k = NoKey)
      /\ \A i \in 1 .. Len(Queue("server")) : Queue("server")[i].kind = "message"
      /\ ~Duplex =>
           /\ Consecutive("server")
           /\ "server" \in started => Nothing("server")
           /\ \A i \in 1 .. Len(Queue("server")) :
                Queue("server")[i].body = "#START" => i = Len(Queue("server"))
  BY <1>1, Context DEF IInv, ServerSide, ServerData
<1>4. /\ Incremented(k) = Advanced(k, 1) /\ Advanced(k, 1) \in Keys
      /\ IF Secret THEN IsSession(Advanced(k, 1)) ELSE Advanced(k, 1) = NoKey
      /\ Past(k, Advanced(k, 1))
      /\ \A j \in Keys : Past(j, k) => Past(j, Advanced(k, 1))
  BY <1>3, DataKeys
<1>5. /\ Len(Queue("server")) \in Nat \ {0} /\ Head(r[1]) = u
      /\ u \in Units /\ ~Nothing("server") /\ 1 \in 1 .. Len(Queue("server"))
  <2>1. Len(Queue("server")) \in Nat \ {0} /\ Head(r[1]) = u /\ u \in Units
    BY <1>2, ReceivedFacts, SidesFacts
  <2>2. ~Nothing("server") /\ 1 \in 1 .. Len(Queue("server"))
    BY <2>1 DEF Nothing
  <2> QED
    BY <2>1, <2>2
<1>6. /\ u.kind = "message" /\ u.body \in Bodies
      /\ Past(u.key, key["client"])
      /\ u.body = "#START" => "client" \in started
  BY <1>3, <1>5, UnitFacts DEF IInv, Behind, Starts
<1>7. /\ BuffersTyped' /\ Shrunk("server") /\ Left("server")
      /\ Queue("client")' = Queue("client") /\ discarded' = discarded
  BY <1>1, <1>2, Pulling, SidesFacts DEF Still
<1>8. ~Duplex => /\ opens
                 /\ Advanced(k, Len(Queue("server")))
                      = Advanced(Advanced(k, 1), Len(Queue("server")'))
                 /\ key'["server"] = Advanced(k, 1) => Consecutive("server")'
  BY <1>3, <1>5, <1>7, ConsecutiveShrinks, SidesFacts
<1>9. ~Duplex /\ u.body = "#START" =>
        Len(Queue("server")) = 1 /\ Len(Queue("server")') = 0
  <2>1. ~Duplex /\ u.body = "#START" => Len(Queue("server")) = 1
    BY <1>3, <1>5
  <2> QED
    BY <1>7, <2>1, ShortQueues
<1>10. ~Duplex => \A i \in 1 .. Len(Queue("server")') :
         Queue("server")'[i].body = "#START" => i = Len(Queue("server")')
  <2> DEFINE l == Len(Queue("server"))
             m == Len(Queue("server")')
  <2>1. /\ l \in Nat \ {0} /\ m = l - 1
        /\ \A i \in 1 .. l - 1 : Queue("server")'[i] = Queue("server")[i + 1]
        /\ ~Duplex => \A i \in 1 .. l : Queue("server")[i].body = "#START" => i = l
    BY <1>3, <1>5, <1>7 DEF Shrunk
  <2> HIDE DEF l, m
  <2>2. \A i \in 1 .. m : i \in 1 .. l - 1 /\ i + 1 \in 1 .. l /\ (i + 1 = l => i = m)
    BY <2>1
  <2>3. ~Duplex => \A i \in 1 .. m : Queue("server")'[i].body = "#START" => i = m
    BY <2>1, <2>2
  <2> QED
    BY <2>3 DEF m
<1> HIDE DEF u
<1>11. Opens("server", Head(r[1])) <=> opens
  BY <1>5, <1>6 DEF Opens
<1>12. pc["client"] \notin {"hello", "sendNonce", "recvNonce"}
  <2>1. \E i \in 1 .. Len(Queue("server")) : Queue("server")[i].kind = "message"
    BY <1>3, <1>5
  <2> QED
    BY <2>1 DEF IInv, ClientSide, ClientUnheard
<1>13. CASE ~opens
  <2>1. /\ pc' = [pc EXCEPT !["server"] = "closed"] /\ Duplex
        /\ UNCHANGED <<settings, hasPath, principal, type, result, key, sent, started>>
        /\ opened' = opened /\ garbled' = garbled \union {u.body}
    BY <1>1, <1>5, <1>8, <1>11, <1>13 DEF Notes
  <2>2. pc'["server"] = "closed" /\ pc'["client"] = pc["client"]
    BY <2>1, SidesFacts, Context
  <2>3. WellTyped'
    <3>1. /\ pc' \in [Sides -> ClientPCs \union ServerPCs] /\ "closed" \in ServerPCs
      BY <2>1, Context DEF ServerPCs
    <3> QED
      BY <1>2, <1>6, <1>7, <2>1, <2>2, <3>1, NextTyped, Context DEF WellTyped, TypeOK
  <2>4. Results' /\ Granted'
    BY <1>1, <2>1, <2>2, SidesFacts
    DEF IInv, Results, Granted, ServerShakes, Secret, SamePassword
  <2>5. Starts'
    BY <1>7, <2>1, <2>2 DEF IInv, Starts, Left
  <2>6. ServerSide' /\ Together'
    BY <2>2 DEF ServerSide, ServerHello, ServerNonces, ServerSilent, ServerAuth,
                ServerOK, ServerData, Together, ServerLive
  <2>7. ClientSide'
    BY <1>7, <1>12, <2>1, <2>2
    DEF IInv, ClientSide, ClientBegins, ClientUnheard, ClientNonces, ClientEntitled,
        ClientAuths, ClientAwaitsOK, ClientData, Nothing, Only, KOMessage, Consecutive,
        Secret, SamePassword
  <2>8. Refusals' /\ Behind'
    BY <1>7, <2>1, <2>2 DEF IInv, Refusals, Behind, Left, Secret, ClientLive
  <2>9. NothingDiscarded'
    BY <1>7, <2>1 DEF IInv, NothingDiscarded
  <2> QED
    BY <2>1, <2>3, <2>4, <2>5, <2>6, <2>7, <2>8, <2>9 DEF IInv
<1>14. CASE opens
  <2>1. /\ pc' = [pc EXCEPT !["server"] = "data"]
        /\ key' = [key EXCEPT !["server"] = Advanced(k, 1)]
        /\ started' = IF u.body = "#START" THEN started \union {"server"} ELSE started
        /\ UNCHANGED <<settings, hasPath, principal, type, result, sent>>
        /\ opened' = opened \union {k} /\ garbled' = garbled
    BY <1>1, <1>4, <1>5, <1>11, <1>14 DEF Notes
  <2>2. /\ pc' = pc /\ pc'["server"] = "data" /\ pc'["client"] = pc["client"]
        /\ key'["server"] = Advanced(k, 1) /\ key'["client"] = key["client"]
        /\ key' \in [Sides -> Keys]
    BY <1>1, <1>4, <2>1, SidesFacts, Context
  <2>3. /\ started \subseteq started'
        /\ "client" \in started' <=> "client" \in started
        /\ "server" \in started' => "client" \in started'
        /\ "server" \in started' <=> "server" \in started \/ u.body = "#START"
    BY <1>6, <2>1, SidesFacts DEF IInv, Starts
  <2> HIDE DEF k
  <2>4. WellTyped'
    <3>1. started' \subseteq Sides /\ opened' \subseteq Keys
      BY <1>3, <2>1, SidesFacts, Context
    <3> QED
      BY <1>2, <1>7, <2>1, <2>2, <3>1, NextTyped, Context DEF WellTyped, TypeOK
  <2>5. Results' /\ Granted'
    BY <1>1, <2>1, <2>2, SidesFacts
    DEF IInv, Results, Granted, Secret, SamePassword
  <2>6. Starts'
    BY <1>1, <1>7, <2>1, <2>2, <2>3 DEF IInv, Starts, Left
  <2>7. ServerSide'
    <3>1. \A i \in 1 .. Len(Queue("server")') : Queue("server")'[i].kind = "message"
      BY <1>3, <1>7 DEF Left
    <3>2. ~Duplex /\ "server" \in started' => Len(Queue("server")') = 0
      BY <1>3, <1>5, <1>9, <2>3
    <3>3. ServerData'
      BY <1>4, <1>8, <1>10, <2>1, <2>2, <3>1, <3>2 DEF ServerData, Nothing, Secret
    <3> QED
      BY <2>2, <3>3
      DEF ServerSide, ServerHello, ServerNonces, ServerSilent, ServerAuth, ServerOK
  <2>8. ClientSide'
    BY <1>7, <1>12, <2>1, <2>2, <2>3
    DEF IInv, ClientSide, ClientBegins, ClientUnheard, ClientNonces, ClientEntitled,
        ClientAuths, ClientAwaitsOK, ClientData, Nothing, Only, KOMessage, Consecutive,
        Secret, SamePassword
  <2>9. Together'
    <3>1. pc["client"] # "closed" =>
            /\ pc["client"] = "data"
            /\ ~Duplex => /\ "server" \notin started
                          /\ Nothing("client")
                          /\ key["client"] = Advanced(k, Len(Queue("server")))
      <4>1. pc["client"] # "closed" => ServerLive /\ ClientLive
        BY <1>1, Context
      <4>2. pc["client"] # "closed" => pc["client"] = "data"
        BY <1>1, <1>5, <1>12, <4>1, Context DEF IInv, Together, ClientPCs
      <4>3. ~Duplex => "server" \notin started
        BY <1>3, <1>5
      <4> QED
        BY <4>1, <4>2, <4>3 DEF IInv, Together, k
    <3>2. ~Duplex /\ u.body = "#START" =>
            Advanced(k, Len(Queue("server"))) = Advanced(k, 1)
      BY <1>9
    <3>3. Advanced(key["client"], 0) = key["client"]
      BY AdvancedFacts, Context
    <3>4. SUFFICES ASSUME pc["client"] # "closed", ~Duplex
                   PROVE  /\ "server" \notin started' =>
                               /\ Nothing("client")'
                               /\ key'["client"] = Advanced(key'["server"],
                                                            Len(Queue("server")'))
                          /\ "server" \in started' =>
                               key'["server"] = Advanced(key'["client"],
                                                         Len(Queue("client")'))
      BY <2>2, <3>1 DEF Together, ClientLive
    <3>5. /\ Len(Queue("client")) = 0 /\ "server" \notin started
          /\ key["client"] = Advanced(k, Len(Queue("server")))
      BY <3>1, <3>4 DEF Nothing
    <3> QED
      BY <1>7, <1>8, <2>2, <2>3, <3>2, <3>3, <3>4, <3>5 DEF Nothing
  <2>10. Refusals'
    BY <1>7, <2>1, <2>2 DEF IInv, Refusals, Secret, ClientLive
  <2>11. Behind'
    <3>1. /\ \A j \in opened : j \in Keys
          /\ \A i \in 1 .. Len(Queue("client")) :
               Queue("client")[i].kind = "message" => Queue("client")[i].key \in Keys
      BY <1>2, QueuedKeys, SidesFacts, Context
    <3>2. Past(k, key["client"])
      BY <1>6, <1>14
    <3> QED
      BY <1>4, <1>7, <2>1, <2>2, <3>1, <3>2 DEF IInv, Behind, Refusals, Left, k
  <2>12. NothingDiscarded' /\ (Duplex \/ OpensWhatIsSent')
    BY <1>7, <2>1 DEF IInv, NothingDiscarded, OpensWhatIsSent
  <2> QED
    BY <2>4, <2>5, <2>6, <2>7, <2>8, <2>9, <2>10, <2>11, <2>12 DEF IInv
<1> QED
  BY <1>13, <1>14

\* A side ends the session.
LEMMA ClosesInv ==
  ASSUME IInv, NEW s \in Sides, Close(s)
  PROVE  IInv'
<1>1. /\ pc[s] = "data" /\ pc' = [pc EXCEPT ![s] = "closed"]
      /\ UNCHANGED <<settings, hasPath, principal, type, result, key, buf, stream,
                     sent, started, discarded, garbled, opened>>
  BY DEF Close, Goes, configVars, dataVars, historyVars
<1>2. WellTyped /\ TypeOK
  BY DEF IInv, WellTyped
<1>3. /\ Queue("client")' = Queue("client") /\ Queue("server")' = Queue("server")
      /\ BuffersTyped'
  BY <1>1, <1>2 DEF Queue, BuffersTyped, WellTyped
<1>4. NothingDiscarded' /\ (Duplex \/ OpensWhatIsSent')
  BY <1>1 DEF IInv, NothingDiscarded, OpensWhatIsSent
<1>5. Refusals' /\ Behind'
  <2>1. \/ pc'["client"] = pc["client"]
        \/ pc'["client"] = "closed"
    BY <1>1, SidesFacts, Context
  <2> QED
    BY <1>1, <1>3, <2>1 DEF IInv, Refusals, Behind, Secret, ClientLive
<1>6. CASE s = "client"
  <2>1. /\ pc["client"] = "data"
        /\ pc'["client"] = "closed" /\ pc'["server"] = pc["server"]
        /\ pc' \in [Sides -> ClientPCs \union ServerPCs]
    BY <1>1, <1>6, SidesFacts, Context DEF ClientPCs
  <2>2. WellTyped'
    BY <1>1, <1>2, <1>3, <2>1, NextTyped, Context DEF WellTyped, TypeOK, ClientPCs
  <2>3. Results' /\ Granted' /\ Starts'
    BY <1>1, <1>3, <2>1, SidesFacts
    DEF IInv, Results, Granted, Starts, ClientShakes, Secret, SamePassword
  <2>4. ServerSide'
    BY <1>1, <1>3, <2>1
    DEF IInv, ServerSide, ServerHello, ServerNonces, ServerSilent, ServerAuth, ServerOK,
        ServerData, Nothing, Only, Consecutive, Secret, SamePassword
  <2>5. ClientSide' /\ Together'
    BY <2>1 DEF ClientSide, ClientBegins, ClientUnheard, ClientNonces, ClientEntitled,
                ClientAuths, ClientAwaitsOK, ClientData, Together, ClientLive
  <2> QED
    BY <1>4, <1>5, <2>2, <2>3, <2>4, <2>5 DEF IInv
<1>7. CASE s = "server"
  <2>1. /\ pc["server"] = "data"
        /\ pc'["server"] = "closed" /\ pc'["client"] = pc["client"]
        /\ pc' \in [Sides -> ClientPCs \union ServerPCs]
    BY <1>1, <1>7, SidesFacts, Context DEF ServerPCs
  <2>2. WellTyped'
    BY <1>1, <1>2, <1>3, <2>1, NextTyped, Context DEF WellTyped, TypeOK, ServerPCs
  <2>3. Results' /\ Granted' /\ Starts'
    BY <1>1, <1>3, <2>1, SidesFacts
    DEF IInv, Results, Granted, Starts, ServerShakes, Secret, SamePassword
  <2>4. ServerSide' /\ Together'
    BY <2>1 DEF ServerSide, ServerHello, ServerNonces, ServerSilent, ServerAuth,
                ServerOK, ServerData, Together, ServerLive
  <2>5. ClientSide'
    BY <1>1, <1>3, <2>1
    DEF IInv, ClientSide, ClientBegins, ClientUnheard, ClientNonces, ClientEntitled,
        ClientAuths, ClientAwaitsOK, ClientData, Nothing, Only, NonceMessage, KOMessage,
        Consecutive, Secret, SamePassword
  <2> QED
    BY <1>4, <1>5, <2>2, <2>3, <2>4, <2>5 DEF IInv
<1> QED
  BY <1>6, <1>7 DEF Sides

------------------------------------------------------------------------------
(* The invariant, and the properties. *)

\* It holds before the client's first call,
LEMMA InitIInv == Init => IInv
<1> SUFFICES ASSUME Init PROVE IInv
  OBVIOUS
<1>1. /\ pc["client"] = "hello" /\ pc["server"] = "recvHello"
      /\ pc \in [Sides -> ClientPCs \union ServerPCs]
      /\ result = [s \in Sides |-> "none"] /\ key = [s \in Sides |-> NoKey]
      /\ result["client"] = "none" /\ result["server"] = "none"
      /\ key["client"] = NoKey /\ key["server"] = NoKey
      /\ type = "none" /\ started = {} /\ opened = {} /\ garbled = {}
      /\ discarded = FALSE
  BY DEF Init, Sides, ClientPCs, ServerPCs
<1>2. <<>> \in Seq(Units) /\ Len(<<>>) = 0 /\ <<>> \o <<>> = <<>>
  BY EmptySeq, ConcatEmptySeq
<1>3. /\ buf \in [Sides -> Seq(Units)] /\ stream \in [Sides -> Seq(Units)]
      /\ \A s \in Sides : buf[s] = <<>> /\ stream[s] = <<>>
  BY <1>2 DEF Init
<1>4. Len(Queue("client")) = 0 /\ Len(Queue("server")) = 0
  BY <1>2, <1>3, SidesFacts DEF Queue
<1>5. WellTyped
  <2>1. <<{}, {}>> \in IDs
    <3>1. {} \in Halves
      BY DEF Halves
    <3> QED
      BY <3>1 DEF IDs
  <2>2. sent \in [Sides -> 0 .. MaxSent]
    BY HandshakeAssumption DEF Init
  <2>3. principal \in Principals
    BY DEF Init
  <2>4. key \in [Sides -> Keys]
    BY <1>1, KeyFacts
  <2> QED
    BY <1>1, <1>2, <1>3, <2>1, <2>2, <2>3, <2>4, KindFacts
    DEF Init, WellTyped, TypeOK, ClientPCs, ServerPCs
<1>6. Results /\ Granted /\ Starts
  BY <1>1, <1>4, SidesFacts
  DEF Results, Granted, Starts, ClientShakes, ServerShakes
<1>7. ServerSide /\ ClientSide /\ Together
  BY <1>1, <1>4
  DEF ServerSide, ServerHello, ServerNonces, ServerSilent, ServerAuth, ServerOK,
      ServerData, ClientSide, ClientBegins, ClientUnheard, ClientNonces, ClientEntitled,
      ClientAuths, ClientAwaitsOK, ClientData, Together, Nothing
<1>8. Refusals /\ Behind /\ NothingDiscarded /\ OpensWhatIsSent
  BY <1>1, <1>4 DEF Refusals, Behind, NothingDiscarded, OpensWhatIsSent
<1> QED
  BY <1>5, <1>6, <1>7, <1>8 DEF IInv

\* and every step of either side keeps it.
LEMMA NextIInv == IInv /\ [Next]_vars => IInv'
<1> SUFFICES ASSUME IInv, [Next]_vars PROVE IInv'
  OBVIOUS
<1>1. CASE ClientHandshake
  BY <1>1, ClientHelloInv, ClientSendsNonceInv, ClientRecvNonceInv, ClientAuthInv,
     ClientRecvOKInv, ClientRefusesInv, ClientEndsInv
  DEF ClientHandshake
<1>2. CASE ServerHandshake
  BY <1>2, ServerRecvHelloInv, ServerRecvNonceInv, ServerSendsNonceInv,
     ServerRecvAuthInv, ServerSendsOKInv, ServerEndsInv, ServerErrsInv
  DEF ServerHandshake
<1>3. CASE \E s \in Sides : SendData(s) \/ RecvData(s) \/ Close(s)
  BY <1>3, ClientSendsInv, ServerSendsInv, ClientReceivesInv, ServerReceivesInv,
     ClosesInv
  DEF Sides
<1>4. CASE UNCHANGED vars
  <2>1. UNCHANGED <<settings, hasPath, principal, type, pc, result, key, buf, stream,
                    sent, started, discarded, garbled, opened>>
    BY <1>4 DEF vars
  <2>2. /\ Queue("client")' = Queue("client") /\ Queue("server")' = Queue("server")
        /\ BuffersTyped'
    BY <2>1 DEF Queue, BuffersTyped, IInv, WellTyped
  <2>3. WellTyped' /\ Results' /\ Granted' /\ Starts'
    BY <2>1, <2>2
    DEF IInv, WellTyped, TypeOK, Results, Granted, Starts, Secret, SamePassword
  <2>4. ServerSide'
    BY <2>1, <2>2
    DEF IInv, ServerSide, ServerHello, ServerNonces, ServerSilent, ServerAuth, ServerOK,
        ServerData, Nothing, Only, Consecutive, Secret, SamePassword
  <2>5. ClientSide'
    BY <2>1, <2>2
    DEF IInv, ClientSide, ClientBegins, ClientUnheard, ClientNonces, ClientEntitled,
        ClientAuths, ClientAwaitsOK, ClientData, Nothing, Only, NonceMessage, KOMessage,
        Consecutive, Secret, SamePassword
  <2>6. Together'
    BY <2>1, <2>2 DEF IInv, Together, ServerLive, ClientLive, Nothing, Secret
  <2>7. Refusals' /\ Behind' /\ NothingDiscarded' /\ (Duplex \/ OpensWhatIsSent')
    BY <2>1, <2>2
    DEF IInv, Refusals, Behind, NothingDiscarded, OpensWhatIsSent, Secret, ClientLive
  <2> QED
    BY <2>3, <2>4, <2>5, <2>6, <2>7 DEF IInv
<1> QED
  BY <1>1, <1>2, <1>3, <1>4 DEF Next

\* The two sides are never in a state that the invariant does not describe.
THEOREM HandshakeInvariant == Spec => []IInv
BY InitIInv, NextIInv, PTL DEF Spec

\* What resetBuffer() throws away was of a handshake that fails, and the rest is typed.
THEOREM HandshakeConsistent == Spec => []Consistent
<1>1. IInv => Consistent
  BY DEF IInv, WellTyped, Consistent
<1> QED
  BY <1>1, HandshakeInvariant, PTL

\* No side is ever again at a key that opened a message: each key is used once, in
\* whatever order the two sides send and receive.
THEOREM HandshakeReplay == Spec => []ReplayIsRefused
<1>1. ASSUME IInv PROVE ReplayIsRefused
  <2> SUFFICES ASSUME NEW s \in Sides, key[s] # NoKey, key[s] \in opened
               PROVE  FALSE
    BY DEF ReplayIsRefused
  <2>1. Past(key[s], key[s])
    BY <1>1 DEF IInv, Behind, Sides
  <2>2. key[s] \in Keys
    BY <1>1, Context, SidesFacts
  <2> QED
    BY <2>1, <2>2, PastFacts
<1> QED
  BY <1>1, HandshakeInvariant, PTL

\* A server that answered "#OK" has a client of the type it was granted, with the
\* principal's password; a client that returned has such a server.
THEOREM HandshakeAgreement == Spec => []Agreement
<1>1. ASSUME IInv PROVE Agreement
  <2>1. result["server"] = "ok" => type # "none" /\ type = settings.type
    BY <1>1 DEF IInv, Granted, WellTyped, TypeOK, Types
  <2> QED
    BY <1>1, <2>1 DEF IInv, Results, Granted, Agreement, Secret, SamePassword
<1> QED
  BY <1>1, HandshakeInvariant, PTL

\* As long as a client is silent once it sent "#START", whatever it sends and is sent
\* opens, unless it does not have the password; "#KO" excepted.
THEOREM HandshakeOpens == ASSUME ~Duplex PROVE Spec => []OpensWhatIsSent
<1>1. IInv => OpensWhatIsSent
  BY DEF IInv
<1> QED
  BY <1>1, HandshakeInvariant, PTL
==============================================================================
