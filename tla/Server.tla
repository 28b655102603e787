------------------------------- MODULE Server -------------------------------
(***************************************************************************)
(* The default frontend (server_mini.rs) over the request handler (app.rs) *)
(* and the rate limiter: one thread per connection reads what has arrived, *)
(* answers every complete request of it, and writes the replies at once.   *)
(*                                                                         *)
(* A stream of bytes is the sequence of what the parser finds in it:       *)
(* requests, or bytes that are none (junk).  A body that a method does not *)
(* have is to the parser what comes next: a request of its own, the        *)
(* beginning of the next one's method, or junk.  Each is two tokens for    *)
(* its head, so that a head may arrive in parts, and one for each unit of  *)
(* its body.                                                               *)
(*                                                                         *)
(* The store is the local one, reduced to the expiry of each row; a call   *)
(* of it and a call of the limiter are one step each.                      *)
(***************************************************************************)
EXTENDS RateLimiter, Integers, Sequences, SequencesExt

CONSTANTS
    None,
    Conns,       \* connections
    Codes,       \* codes: aliases, and those that gen_code draws
    Foreign,     \* codes whose row another instance owns
    Clients,     \* what the clients of all connections may do
    TrustProxy,  \* TRUST_PROXY is set
    LinkTtl,     \* LINK_TTL_MS
    MaxBody,     \* MAX_BODY
    MaxBulk      \* MAX_BULK_BODY

Gets  == {"health", "page", "stats", "resolve"}
Posts == {"shorten", "bulk", "post"}
Edits == {"update", "remove"}

(* A request.  form: its body is no JSON, a field of it is not valid, or   *)
(* it is fine; ttl: in half milliseconds, since ttl_ms is a float; close:  *)
(* the connection is to end with it; xff: X-Forwarded-For; len: its        *)
(* Content-Length.  The paths of some requests name a code.                *)
Requests ==
    {r \in [op : Gets \cup Posts \cup Edits \cup {"options", "other", "junk"},
            form : {"json", "field", "ok"}, code : Codes \cup {None}, ttl : Int \cup {None},
            urls : Nat, len : Nat, close : BOOLEAN, admin : BOOLEAN, xff : Ips \cup {None}] :
        r.op \in Edits \cup {"stats", "resolve"} /\ r.form = "ok" => r.code # None}

ASSUME ServerAssumption ==
    /\ None \notin Codes \cup Ips \cup Int
    /\ Foreign \subseteq Codes
    /\ Clients \subseteq [Conns -> [ip : Ips, sent : Seq(Requests), short : BOOLEAN]]
    /\ TrustProxy \in BOOLEAN
    /\ LinkTtl \in Nat \ {0} /\ MaxBody \in Nat /\ MaxBulk \in Nat

VARIABLES
    client,   \* connection -> address of its client, the requests in what it
              \* sends, and whether it leaves out the last token
    wire,     \* connection -> tokens sent and not read
    buf,      \* connection -> tokens read and not consumed
    out,      \* connection -> replies not written
    closing,  \* connections that end with the next write
    at,       \* connection -> what its thread does next
    links,    \* the store: code -> expiry, 0 for none, or None
    \* ----- history, read by no guard
    got,      \* connection -> replies written
    cut,      \* connections that broke: reading or writing failed
    forever,  \* codes whose ttl_ms was below one when it was last set
    made      \* how many links each address has created

limiter == <<buckets, start, granted>>
conns   == <<client, wire, buf, out, closing, at, got, cut>>
store   == <<links, forever, made>>

serverVars == <<now, limiter, conns, store>>

-----------------------------------------------------------------------------
(* Requests.                                                               *)

NeedsBody(r) == r.op \in Posts \cup {"update"}

Oversize(r) == NeedsBody(r) /\ r.len > (IF r.op = "bulk" THEN MaxBulk ELSE MaxBody)

(* Faulty variant, for mutation only: the body stays in the buffer.        *)
TotalHead(r) == 2

(* The body of a request: none unless the method has one, whatever the     *)
(* client announced.                                                       *)
BodyLen(r) == IF NeedsBody(r) THEN r.len ELSE 0

(* The tokens that a request takes.                                        *)
Total(r) == 2 + BodyLen(r)

Tokens(i, r) ==
    <<[k |-> "part", i |-> i], [k |-> "head", i |-> i]>>
        \o [j \in 1..BodyLen(r) |-> [k |-> "body", i |-> i]]

Stream(s) == FlattenSeq([i \in 1..Len(s) |-> Tokens(i, s[i])])

(* What the client of c sends: all of it, or all but the last token.       *)
Sent(c) ==
    LET s == Stream(client[c].sent) IN IF client[c].short THEN Front(s) ELSE s

(* The address that the limiter charges.                                   *)
Client(c, r) == IF TrustProxy /\ r.xff # None THEN r.xff ELSE client[c].ip

(* Faulty variant, for mutation only: a bulk request costs as any other.   *)
PriceFlat(r) == 1

Price(r) == IF r.op = "bulk" /\ r.urls > 0 THEN r.urls ELSE 1

(* The limiter is specified for what its callers ask for.                  *)
ASSUME PriceAssumption ==
    \A x \in Clients, c \in Conns :
        \A i \in 1..Len(x[c].sent) : Price(x[c].sent[i]) \in Costs

(* The limiter is asked once the body is known to be JSON, and before it   *)
(* is looked at.                                                           *)
Limited(r) == r.op \in {"shorten", "bulk"} /\ r.form # "json"

(* ttl_ms as an integer: towards zero.                                     *)
Millis(t) == IF t >= 0 THEN t \div 2 ELSE - ((- t) \div 2)

(* Faulty variant, for mutation only: the client's ttl as it comes.        *)
CappedNot(t) == Millis(t)

Capped(t) == Least(Millis(t), LinkTtl)

Lifetime(r) == IF r.ttl = None THEN LinkTtl ELSE Capped(r.ttl)

(* Faulty variant, for mutation only: a ttl that is not positive as well.  *)
ExpiryAny(ttl) == now + ttl

Expiry(ttl) == IF ttl > 0 THEN now + ttl ELSE 0

-----------------------------------------------------------------------------
(* The store.                                                              *)

Live(c) == links[c] # None /\ (links[c] = 0 \/ links[c] > now)

Free == {c \in Codes : links[c] = None}

Create(ip, S, ttl) ==
    /\ links' = [c \in Codes |-> IF c \in S THEN Expiry(ttl) ELSE links[c]]
    /\ forever' = IF ttl > 0 THEN forever \ S ELSE forever \cup S
    /\ made' = [made EXCEPT ![ip] = @ + Cardinality(S)]

Set(c, e, never) ==
    /\ links' = [links EXCEPT ![c] = e]
    /\ forever' = IF never THEN forever \cup {c} ELSE forever \ {c}
    /\ UNCHANGED made

(* What route answers without a look at the store, or {} if it looks.      *)
Unrouted(r) ==
    IF r.op = "options" THEN {204}
    ELSE IF r.op = "health" THEN {200, 503}
    ELSE IF r.op = "page" THEN {200, 404}
    ELSE IF r.op \in {"post", "other"} \/ (r.op \in Edits /\ ~ r.admin) THEN {404}
    ELSE IF r.form # "ok" THEN {IF r.op \in Gets THEN 404 ELSE 400}
    ELSE IF \/ r.op = "shorten" /\ r.ttl # None /\ r.ttl <= 0
            \/ r.op = "bulk" /\ r.urls = 0
    THEN {400}
    ELSE {}

(* The call of the store, and the status s that follows from it.           *)
Stored(ip, r, s) ==
    \/ /\ r.op = "resolve" /\ s = (IF Live(r.code) THEN 302 ELSE 404)
       /\ UNCHANGED store
    \/ /\ r.op = "stats" /\ s = (IF r.code \in Free THEN 404 ELSE 200)
       /\ UNCHANGED store
    \/ /\ r.op = "shorten" /\ r.code \notin Free \cup {None}
       /\ s = 409
       /\ UNCHANGED store
    \/ /\ r.op = "shorten" /\ s = 201
       /\ \E c \in IF r.code = None THEN Free ELSE Free \cap {r.code} : Create(ip, {c}, Lifetime(r))
    \/ /\ r.op = "bulk" /\ s = 201
       /\ \E S \in SUBSET Free : Cardinality(S) = r.urls /\ Create(ip, S, LinkTtl)
    \/ /\ r.op \in Edits /\ r.code \in Free
       /\ s = 404
       /\ UNCHANGED store
    \/ /\ r.op \in Edits /\ r.code \in Foreign \ Free
       /\ s = 409
       /\ UNCHANGED store
    \/ /\ r.op = "update" /\ r.code \notin Free \cup Foreign
       /\ s = 200
       /\ IF r.ttl = None THEN UNCHANGED store
          ELSE Set(r.code, Expiry(Capped(r.ttl)), Millis(r.ttl) <= 0)
    \/ /\ r.op = "remove" /\ r.code \notin Free \cup Foreign
       /\ s = 204
       /\ Set(r.code, None, FALSE)

-----------------------------------------------------------------------------
(* Clients send what they like, the last token of it perhaps never, and    *)
(* then close their side.                                                  *)
ServerInit ==
    /\ Init
    /\ client \in Clients
    /\ wire = [c \in Conns |-> Sent(c)]
    /\ buf = [c \in Conns |-> <<>>]
    /\ out = [c \in Conns |-> <<>>]
    /\ closing = {}
    /\ at = [c \in Conns |-> "read"]
    /\ links = [c \in Codes |-> IF c \in Foreign THEN 0 ELSE None]
    /\ got = [c \in Conns |-> <<>>]
    /\ cut = {}
    /\ forever = Foreign
    /\ made = [ip \in Ips |-> 0]

Go(c, to) == at' = [at EXCEPT ![c] = to]

(* A read returns some of what was sent, or nothing once all was read; the *)
(* thread then ends, at once or after a last look at what it has.          *)
Read(c) ==
    /\ at[c] = "read"
    /\ \/ \E n \in 1..Len(wire[c]) :
            /\ buf' = [buf EXCEPT ![c] = @ \o SubSeq(wire[c], 1, n)]
            /\ wire' = [wire EXCEPT ![c] = SubSeq(@, n + 1, Len(@))]
            /\ Go(c, "parse")
            /\ UNCHANGED closing
       \/ /\ wire[c] = <<>> /\ buf[c] = <<>>
          /\ Go(c, "closed")
          /\ UNCHANGED <<buf, wire, closing>>
       \/ /\ wire[c] = <<>> /\ buf[c] # <<>>
          /\ closing' = closing \cup {c}
          /\ Go(c, "parse")
          /\ UNCHANGED <<buf, wire>>
    /\ UNCHANGED <<now, limiter, client, out, got, cut, store>>

(* A read or a write fails: the connection ends with what it holds.        *)
Fail(c) ==
    /\ \/ at[c] = "read"
       \/ at[c] = "write" /\ out[c] # <<>>
    /\ cut' = cut \cup {c}
    /\ Go(c, "closed")
    /\ UNCHANGED <<now, limiter, client, wire, buf, out, closing, got, store>>

(* What is at the head of the buffer, once the parser can tell.            *)
Index(c) == buf[c][2].i
Req(c)   == client[c].sent[Index(c)]

Malformed(c) == Len(buf[c]) >= 2 /\ Req(c).op = "junk"
HasHead(c)   == Len(buf[c]) >= 2 /\ Req(c).op # "junk"

Complete(c) == HasHead(c) /\ ~ Oversize(Req(c)) /\ Len(buf[c]) >= Total(Req(c))

(* The buffer begins with something to act on.                             *)
Pending(c) == Malformed(c) \/ Complete(c) \/ (HasHead(c) /\ Oversize(Req(c)))

(* The head, or the body, has not arrived yet.                             *)
Partial(c) ==
    /\ at[c] = "parse" /\ ~ Pending(c)
    /\ Go(c, "write")
    /\ UNCHANGED <<now, limiter, client, wire, buf, out, closing, got, cut, store>>

(* What is no request ends the connection, with the replies not written.   *)
Drop(c) ==
    /\ at[c] = "parse" /\ Malformed(c)
    /\ Go(c, "closed")
    /\ UNCHANGED <<now, limiter, client, wire, buf, out, closing, got, cut, store>>

TooLarge(c) ==
    /\ at[c] = "parse" /\ HasHead(c) /\ Oversize(Req(c))
    /\ out' = [out EXCEPT ![c] = Append(@, [i |-> Index(c), s |-> 413])]
    /\ closing' = closing \cup {c}
    /\ Go(c, "write")
    /\ UNCHANGED <<now, limiter, client, wire, buf, got, cut, store>>

(* Faulty variant, for mutation only: one request for each read.           *)
AfterReplyWrite(r) == "write"

AfterReply(r) == IF r.close THEN "write" ELSE "parse"

Respond(c, s) ==
    /\ out' = [out EXCEPT ![c] = Append(@, [i |-> Index(c), s |-> s])]
    /\ buf' = [buf EXCEPT ![c] = SubSeq(@, Total(Req(c)) + 1, Len(@))]
    /\ closing' = IF Req(c).close THEN closing \cup {c} ELSE closing
    /\ Go(c, AfterReply(Req(c)))
    /\ UNCHANGED <<client, wire, got, cut>>

(* A creation first asks the limiter.                                      *)
Admit(c) ==
    /\ at[c] = "parse" /\ Complete(c) /\ Limited(Req(c))
    /\ LET ip == Client(c, Req(c))
       IN  \/ /\ Allow(ip, Price(Req(c)))
              /\ Go(c, "run")
              /\ UNCHANGED <<client, wire, buf, out, closing, got, cut>>
           \/ Deny(ip, Price(Req(c))) /\ Respond(c, 429)
    /\ UNCHANGED store

Run(c) ==
    /\ \/ at[c] = "run"
       \/ at[c] = "parse" /\ Complete(c) /\ ~ Limited(Req(c))
    /\ LET r == Req(c)
       IN  \/ \E s \in Unrouted(r) : Respond(c, s) /\ UNCHANGED store
           \/ /\ Unrouted(r) = {}
              /\ \E s \in {200, 201, 204, 302, 404, 409} :
                    Stored(Client(c, r), r, s) /\ Respond(c, s)
    /\ UNCHANGED <<now, limiter>>

(* Faulty variant, for mutation only: replies stay in the buffer.          *)
RestKept(c) == out[c]

(* What is left to write after a write.                                    *)
Rest(c) == <<>>

Write(c) ==
    /\ at[c] = "write"
    /\ got' = [got EXCEPT ![c] = @ \o out[c]]
    /\ out' = [out EXCEPT ![c] = Rest(c)]
    /\ Go(c, IF c \in closing THEN "closed" ELSE "read")
    /\ UNCHANGED <<now, limiter, client, wire, buf, closing, cut, store>>

ServerNext ==
    \/ \E c \in Conns :
        Read(c) \/ Fail(c) \/ Partial(c) \/ Drop(c) \/ TooLarge(c) \/ Admit(c) \/ Run(c) \/ Write(c)
    \/ (Tick \/ Observe) /\ UNCHANGED <<conns, store>>

ServerSpec == ServerInit /\ [][ServerNext]_serverVars

-----------------------------------------------------------------------------
Kinds   == {"part", "head", "body"}
Replies == [i : Nat, s : 200..599]

ServerTypeOK ==
    /\ client \in Clients
    /\ wire \in [Conns -> Seq([k : Kinds, i : Nat])]
    /\ buf \in [Conns -> Seq([k : Kinds, i : Nat])]
    /\ out \in [Conns -> Seq(Replies)] /\ got \in [Conns -> Seq(Replies)]
    /\ closing \subseteq Conns /\ cut \subseteq Conns
    /\ at \in [Conns -> {"read", "parse", "run", "write", "closed"}]
    /\ links \in [Codes -> Nat \cup {None}]
    /\ forever \subseteq Codes
    /\ made \in [Ips -> Nat]

(* The replies on a connection answer the requests in its stream in their  *)
(* order, none twice and none left out, however the stream was cut into    *)
(* reads.  A client that sends a body with a method that has none has one  *)
(* request more in its stream than it may think.                           *)
InOrder ==
    \A c \in Conns :
        LET replies == got[c] \o out[c]
        IN  \A j \in 1..Len(replies) : replies[j].i = j

(* A thread waits for its client only when the client has been told all it *)
(* can be: no reply is held back and no complete request is left in the    *)
(* buffer, else client and server wait for each other.                     *)
NoneWaits ==
    \A c \in Conns : at[c] = "read" => out[c] = <<>> /\ ~ Pending(c)

(* With request r the server ends the connection.                          *)
Ends(r) == r.close \/ Oversize(r)

(* There are only requests in the stream.                                  *)
Proper(c) == \A i \in 1..Len(client[c].sent) : client[c].sent[i].op # "junk"

(* A connection on which nothing failed ends with every request answered:  *)
(* all that its client sent, but for one that it did not send whole, or    *)
(* all up to the first that ends the connection, and none after that.  Not *)
(* so when something else is among them: the replies of its batch are then *)
(* dropped with the connection.                                            *)
CleanEnd ==
    \A c \in Conns :
        LET sent == client[c].sent
            n    == Len(got[c])
        IN  at[c] = "closed" /\ c \notin cut /\ Proper(c) =>
                /\ n <= Len(sent)
                /\ \A i \in 1..(n - 1) : ~ Ends(sent[i])
                /\ \/ n = Len(sent)
                   \/ n = Len(sent) - 1 /\ client[c].short
                   \/ n > 0 /\ Ends(sent[n])

(* However often it is written, no link lives longer than LINK_TTL_MS from *)
(* now ("default AND max link lifetime"), but for one whose ttl_ms was     *)
(* below one when it was last set: the integer is then not positive, and   *)
(* the store takes that for no expiry.                                     *)
LifetimeCapped ==
    \A c \in Codes : links[c] # None =>
        IF links[c] = 0 THEN c \in forever ELSE links[c] <= now + LinkTtl

(* An address creates no more links than its bucket allows, over however   *)
(* many connections, with single and bulk requests mixed, and although the *)
(* limiter and the store are asked one after the other.                    *)
CreationBound == \A ip \in Ips : Gives(now, now, made[ip])

-----------------------------------------------------------------------------
(* What the properties above need to be inductive.                         *)

(* Where request i of s begins in the stream: how many tokens go before.   *)
Start(s, i) == Len(Stream(SubSeq(s, 1, i - 1)))

Consumed(c) == Len(Sent(c)) - Len(buf[c]) - Len(wire[c])
Answered(c) == Len(got[c]) + Len(out[c])

(* The buffer and the wire hold the rest of the stream.                    *)
InStream(c) ==
    LET s == Stream(client[c].sent)
    IN  /\ Consumed(c) >= 0
        /\ \A p \in 1..Len(buf[c]) : buf[c][p] = s[Consumed(c) + p]
        /\ \A p \in 1..Len(wire[c]) : wire[c][p] = s[Consumed(c) + Len(buf[c]) + p]

(* That rest begins with what is to be looked at next; or with a request   *)
(* that is too large, and then the connection ends.                        *)
InPlace(c) ==
    LET s == client[c].sent
        d == Answered(c)
    IN  /\ d <= Len(s)
        /\ \/ Consumed(c) = Start(s, d + 1)
           \/ d > 0 /\ c \in closing /\ at[c] \in {"write", "closed"}

(* A request that was admitted stays in the buffer until it has run.       *)
Admitted(c) == at[c] = "run" => Complete(c) /\ Limited(Req(c))

(* Replies are written when there is nothing more to answer, or the        *)
(* connection ends; and a thread reads when they have been written.        *)
Settled(c) ==
    /\ at[c] = "write" => c \in closing \/ ~ Pending(c)
    /\ at[c] = "read" => out[c] = <<>> /\ ~ Pending(c)

(* All that came was answered, up to a request that is not complete.       *)
Exhausted(c) ==
    wire[c] = <<>> /\ ~ Pending(c) /\ Consumed(c) = Start(client[c].sent, Answered(c) + 1)

(* How a connection of such requests comes to its end.                     *)
Ending(c) ==
    LET s    == client[c].sent
        d    == Answered(c)
        over == d > 0 /\ Ends(s[d])
    IN  Proper(c) =>
            /\ \A i \in 1..(d - 1) : ~ Ends(s[i])
            /\ at[c] \in {"read", "parse", "run"} => ~ over
            /\ at[c] \in {"parse", "run"} /\ c \in closing => wire[c] = <<>>
            /\ at[c] = "read" => c \notin closing
            /\ at[c] = "write" => IF c \in closing THEN over \/ Exhausted(c) ELSE ~ over
            /\ at[c] = "closed" /\ c \notin cut => out[c] = <<>> /\ (over \/ Exhausted(c))

ConnHolds ==
    \A c \in Conns : InStream(c) /\ InPlace(c) /\ Admitted(c) /\ Settled(c) /\ Ending(c)
=============================================================================
