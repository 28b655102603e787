------------------------------ MODULE MCServer ------------------------------
(* Instances of Server for TLC.                                            *)
EXTENDS Server

CONSTANTS c1, ip1, ip2, a, f

Request(op) ==
    [op |-> op, form |-> "ok", code |-> None, ttl |-> None, urls |-> 0, len |-> 0,
     close |-> FALSE, admin |-> FALSE, xff |-> None]

Of(op, code)    == [Request(op) EXCEPT !.code = code]
Body(op, code)  == [Of(op, code) EXCEPT !.len = 1]
Admin(op, code) == [Of(op, code) EXCEPT !.admin = TRUE, !.len = IF op = "update" THEN 1 ELSE 0]
Via(r, ip)      == [r EXCEPT !.xff = ip]
Closing(r)      == [r EXCEPT !.close = TRUE]
Ttl(r, t)       == [r EXCEPT !.ttl = t]
Form(r, x)      == [r EXCEPT !.form = x]
BulkOf(n)       == [Request("bulk") EXCEPT !.len = 2, !.urls = n]

(* What the clients of two connections do, some of them not sending their  *)
(* last request whole: creations by one address on two connections, by two *)
(* addresses, and by way of a proxy; an alias that is created, read,       *)
(* changed and removed on both; bodies that are too large, or of a method  *)
(* that has none, which the parser then finds to be junk or takes for the  *)
(* method of the next request; what is refused; and requests that close.   *)
Sends(ip, sent)    == [ip |-> ip, sent |-> sent, short |-> FALSE]
SendsMost(ip, sent) == [ip |-> ip, sent |-> sent, short |-> TRUE]
Both(x, y)         == [c \in Conns |-> IF c = c1 THEN x ELSE y]

Make == Body("shorten", None)

MCClients ==
    {Both(Sends(ip1, <<Form(BulkOf(3), "field"), BulkOf(3)>>), Sends(ip2, <<Via(Make, ip1), Via(Make, ip1)>>)),
     Both(Sends(ip1, <<BulkOf(5)>>), Sends(ip1, <<BulkOf(5), Make>>)),
     Both(Sends(ip1, <<Ttl(Body("shorten", a), 9), Ttl(Admin("update", a), 9)>>),
          Sends(ip2, <<Of("resolve", a), Closing(Admin("remove", a)), Request("page")>>)),
     Both(SendsMost(ip1, <<Ttl(Body("shorten", a), 1), Of("stats", a)>>),
          Sends(ip1, <<Ttl(Admin("update", a), -2)>>)),
     Both(Sends(ip1, <<Form(Make, "json"), Form(Make, "field"), Ttl(Make, 0)>>),
          Sends(ip2, <<Body("shorten", a)>>)),
     Both(Sends(ip1, <<Request("options"), Body("resolve", a), Request("junk"), Request("health")>>),
          Sends(ip2, <<[Make EXCEPT !.len = 2], Request("page")>>)),
     Both(SendsMost(ip1, <<Body("resolve", f), Request("other"), Request("health"), Request("junk")>>),
          Sends(ip2, <<>>)),
     Both(SendsMost(ip1, <<Closing(Body("update", f)), Request("page")>>),
          Sends(ip1, <<Admin("update", f), Admin("remove", f), Form(Admin("remove", f), "field")>>))}

Sym == Permutations(Codes \ {a, f})
=============================================================================
