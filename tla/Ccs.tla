--------------------------------- MODULE Ccs ---------------------------------
(***************************************************************************)
(* Converse client-server (src/ccs/): clients connect to PE 0's server     *)
(* socket, PE 0 forwards the request to a PE, to every PE or down a        *)
(* 4-ary tree over a list of PEs, and the answers come back to PE 0 -      *)
(* directly, or merged by a reduction - which writes the reply on the      *)
(* request's socket and closes it.  With an authentication file a client   *)
(* first obtains a number and a salt, which both sides advance with every  *)
(* request.                                                                *)
(*                                                                         *)
(* One variable holds the state; the functions of the code are operators   *)
(* on it.  PE 0 serves a connection inside one callback, so accepting,     *)
(* reading and forwarding a request is one step.  The reductions           *)
(* themselves are those of module Collectives: the k-th CmiReduce of every *)
(* PE belongs together, a list's contributions meet under its handler's    *)
(* id, and the merged message arrives at the root some time after the      *)
(* last contribution.                                                      *)
(***************************************************************************)
EXTENDS Integers, FiniteSets, SequencesExt

CONSTANTS Client,    \* the programs that send requests
          NumPes,
          Requests,  \* what they ask: [pe, list, h], as in CcsSendRequestGeneric
          MaxConn    \* bound: connections made

VARIABLE x

vars == <<x>>

PE == 0 .. NumPes - 1

\* Handler names, by what the handler does with its request: answers, returns
\* without answering, declines, answers later.  "solo" answers and has no
\* merge function; "?" is not registered; "long" does not end within the field.
Answers(h) == h \in {"now", "solo"}
Mergeable(h) == h \in {"now", "quiet", "none", "late"}
Known(h) == Mergeable(h) \/ h = "solo"

Init == \E auth \in BOOLEAN :
  x = [auth   |-> auth,                       \* is there a key for level 0?
       conn   |-> <<>>,                       \* every connection made
       queue  |-> <<>>,                       \* those not yet accepted
       salts  |-> <<>>,                       \* ccs_clientlist
       client |-> [c \in Client |-> [id |-> 0, salt |-> 0, fd |-> 0]],
       net    |-> {},                         \* converse messages on their way
       nred   |-> [p \in PE |-> 0],           \* CmiReduce calls made
       part   |-> {},                         \* contributions, and to which reduction
       late   |-> {},                         \* CcsDelayedReply records
       bad    |-> {}]                         \* clients that lost a header

\* sendN cut short by a broken connection, after nothing or after the header
Cuts == {"no", "header", "data"}

Merged(r) == r.pe <= -1
InFlight(s, k) == s.conn[k].st # "closed"

----------------------------------------------------------------------------
\* The client

Open(s, c, rec) ==
  [s EXCEPT !.conn = Append(@, [rec EXCEPT !.c = c]), !.queue = Append(@, Len(s.conn) + 1)]

Conn(kind, salt, req, cut) ==
  [kind |-> kind, c |-> CHOOSE c \in Client : TRUE, salt |-> salt, req |-> req, cut |-> cut,
   st |-> "waiting", reply |-> {}, writes |-> 0]

\* The connection for the last reply is given up, a new one made, the salt
\* used and advanced, and the request sent, as far as the network lets it
CcsSendRequestGeneric(s, c, req, cut) ==
  LET t == Open(s, c, Conn("request", s.client[c].salt, req, cut))
  IN [t EXCEPT !.client[c].fd = Len(t.conn), !.client[c].salt = @ + 1,
               !.bad = IF cut = "header" THEN @ \cup {c} ELSE @]

\* CcsConnect with a key: the handshake has a connection of its own, on which
\* the client waits for its number and salt
CcsImpl_authInit(s, c, cut) ==
  Open(s, c, Conn("salt", 0, [pe |-> 0, list |-> <<>>, h |-> "now"], cut))

\* The program asks for a merged answer only when no other one is outstanding:
\* reductions are told apart by their order on each PE only.  (What a request
\* that is cut short asks for is never read: one stands for all.)
SendRequest == \E c \in Client, req \in Requests, cut \in Cuts :
  /\ Len(x.conn) < MaxConn
  /\ x.auth => x.client[c].id # 0
  /\ cut # "no" => req = CHOOSE r \in Requests : ~Merged(r)
  /\ Merged(req) => \A k \in DOMAIN x.conn : InFlight(x, k) => ~Merged(x.conn[k].req)
  /\ x' = CcsSendRequestGeneric(x, c, req, cut)

Connect == \E c \in Client, cut \in Cuts :
  /\ Len(x.conn) < MaxConn
  /\ x.auth /\ x.client[c].id = 0
  /\ \A k \in DOMAIN x.conn : x.conn[k].c = c => ~InFlight(x, k)
  /\ x' = CcsImpl_authInit(x, c, cut)

----------------------------------------------------------------------------
\* Replies, on PE 0

Close(s, k) == [s EXCEPT !.conn[k].st = "closed"]

\* Nothing to say closes the socket without a reply; otherwise the reply is
\* written (the client may be gone: the write's failure is ignored)
CcsServer_sendReply(s, k, parts) ==
  IF parts = {} THEN Close(s, k)
  ELSE Close([s EXCEPT !.conn[k].reply = parts, !.conn[k].writes = @ + 1], k)

CcsImpl_reply(s, p, k, parts) ==
  IF p = 0 THEN CcsServer_sendReply(s, k, parts)
  ELSE [s EXCEPT !.net = @ \cup {[m |-> "rep", to |-> 0, k |-> k, parts |-> parts]}]

\* (mutant) a broadcast's answers are not merged
CcsReplyUnmerged(s, p, k, parts) ==
  LET r == s.conn[k].req
  IN IF r.pe >= -1 THEN CcsImpl_reply(s, p, k, parts)
     ELSE [s EXCEPT !.part = @ \cup {[red |-> 0, list |-> r.list, pe |-> p, k |-> k, parts |-> parts]}]
\* The answer of PE p to request k: on its way at once, or into the reduction
CcsReply(s, p, k, parts) ==
  LET r == s.conn[k].req
  IN CASE r.pe > -1 -> CcsImpl_reply(s, p, k, parts)
       [] r.pe = -1 -> [s EXCEPT !.nred[p] = @ + 1,
                                 !.part = @ \cup {[red |-> s.nred[p] + 1, list |-> <<>>, pe |-> p, k |-> k, parts |-> parts]}]
       [] OTHER     -> [s EXCEPT !.part = @ \cup {[red |-> 0, list |-> r.list, pe |-> p, k |-> k, parts |-> parts]}]

\* The contributions of one reduction
Together(s, d) == {e \in s.part : e.red = d.red /\ e.list = d.list}
Members(d) == IF d.red > 0 THEN PE ELSE ToSet(d.list)
Root(d)    == IF d.red > 0 THEN 0 ELSE d.list[1]

\* CcsMerge_concat: every contribution's data; the header is the root's
Reduce == \E d \in x.part :
  LET all  == Together(x, d)
      root == CHOOSE e \in all : e.pe = Root(d)
  IN /\ {e.pe : e \in all} = Members(d)
     /\ x' = [x EXCEPT !.part = @ \ all,
                       !.net = @ \cup {[m |-> "rep", to |-> Root(d), k |-> root.k,
                                        parts |-> UNION {e.parts : e \in all}]}]

rep_fw_handler(s, m) == CcsImpl_reply([s EXCEPT !.net = @ \ {m}], m.to, m.k, m.parts)

----------------------------------------------------------------------------
\* Requests, on PE 0

Request(k, to) == [m |-> "req", to |-> to, k |-> k, parts |-> {}]

\* What CcsImpl_netRequest turns down
Rejects(r) ==
  \/ r.h = "long"
  \/ r.pe <= -NumPes \/ r.pe >= NumPes
  \/ r.pe <= -1 /\ ~Mergeable(r.h)
  \/ r.pe < -1 /\ (ToSet(r.list) \ PE # {} \/ ~IsInjective(r.list))

\* (mutant) turned down through CcsReply, as any other empty reply
CcsRejectRequestReply(s, k) == CcsReply(s, 0, k, {})
CcsRejectRequest(s, k) == CcsImpl_reply(s, 0, k, {})

CcsImpl_netRequest(s, k) ==
  LET r == s.conn[k].req
  IN IF Rejects(r) THEN CcsRejectRequest(s, k)
     ELSE [s EXCEPT !.net = @ \cup {Request(k, IF r.pe >= 0 THEN r.pe ELSE IF r.pe = -1 THEN 0 ELSE r.list[1])}]

\* createSalt: the client is added before the last answer is sent, which a
\* broken connection may lose
CcsServer_createSalt(s, k) ==
  LET c == s.conn[k]
      t == [s EXCEPT !.salts = Append(@, 0)]
  IN CASE c.cut = "header" -> s
       [] c.cut = "data"   -> t
       [] OTHER            -> [t EXCEPT !.client[c.c].id = Len(t.salts), !.client[c.c].salt = Last(t.salts)]

\* SHA1_message: the hash was made with the salt the server has; the salt
\* is advanced with the header, before the data is read
HashAgrees(s, c) == s.auth => c.salt = s.salts[s.client[c.c].id]
AdvanceSalt(s, c) == IF s.auth THEN [s EXCEPT !.salts[s.client[c.c].id] = @ + 1] ELSE s

\* recvRequest: 1 and the request forwarded, or 0 and the socket closed
Serve(s, k) ==
  LET c == s.conn[k]
      t == [s EXCEPT !.conn[k].st = "open"]
  IN CASE c.kind = "salt" -> Close(CcsServer_createSalt(t, k), k)
       [] c.kind # "salt" /\ (c.cut = "header" \/ ~HashAgrees(t, c)) -> Close(t, k)
       [] c.kind # "salt" /\ c.cut = "data" /\ HashAgrees(t, c) -> Close(AdvanceSalt(t, c), k)
       [] OTHER -> CcsImpl_netRequest(AdvanceSalt(t, c), k)

\* PE 0's periodic callback takes the connections that wait, in order
CcsServerCheck == /\ x.queue # <<>>
                  /\ x' = Serve([x EXCEPT !.queue = Tail(@)], Head(x.queue))

----------------------------------------------------------------------------
\* Requests, on every PE

\* CcsHandleRequest: an unknown handler, and one that returns without an
\* answer, gets an empty reply; a delayed reply keeps the request
CcsHandleRequest(s, p, k) ==
  LET h == s.conn[k].req.h
  IN CASE Answers(h)  -> CcsReply(s, p, k, {[pe |-> p, k |-> k]})
       [] h = "late"  -> [s EXCEPT !.late = @ \cup {[pe |-> p, k |-> k]}]
       [] OTHER       -> CcsReply(s, p, k, {})

\* The PEs that this one passes the request to: everyone else, or its four
\* children among the list's positions
Forward(s, p, k) ==
  LET r == s.conn[k].req
      index == CHOOSE i \in DOMAIN r.list : r.list[i] = p
  IN CASE r.pe = -1 /\ p = 0 -> {Request(k, q) : q \in PE \ {0}}
       [] r.pe < -1 -> {Request(k, r.list[i]) : i \in {j \in DOMAIN r.list : j \in 4 * (index - 1) + 2 .. 4 * (index - 1) + 5}}
       [] OTHER -> {}

req_fw_handler(s, m) ==
  LET r == s.conn[m.k].req
      t == [s EXCEPT !.net = (@ \ {m}) \cup Forward(s, m.to, m.k)]
  IN IF r.pe > 0 /\ r.pe # m.to THEN [t EXCEPT !.net = @ \cup {Request(m.k, r.pe)}]
     ELSE CcsHandleRequest(t, m.to, m.k)

Handle == \E m \in x.net :
  x' = IF m.m = "req" THEN req_fw_handler(x, m) ELSE rep_fw_handler(x, m)

\* The program answers a request it put off (CcsSendDelayedReply), or not
\* (CcsNoDelayedReply)
DelayedReply == \E d \in x.late, parts \in {{}, {1}} :
  x' = CcsReply([x EXCEPT !.late = @ \ {d}], d.pe, d.k, IF parts = {} THEN {} ELSE {d})

Next == SendRequest \/ Connect \/ CcsServerCheck \/ Handle \/ Reduce \/ DelayedReply

\* What the server does by itself
Served == CcsServerCheck \/ Handle \/ Reduce \/ DelayedReply

Spec == Init /\ [][Next]_vars

----------------------------------------------------------------------------

\* A reply is written once, holds answers to its own request only, and, when
\* the handlers answer, one of every PE the request was for - however the
\* request was spread and the answers merged or put off (req_fw_handler,
\* CcsReply, rep_fw_handler).
ReplyIsWhole ==
  \A k \in DOMAIN x.conn :
    LET c == x.conn[k]
        for == IF c.req.pe >= 0 THEN {c.req.pe} ELSE IF c.req.pe = -1 THEN PE ELSE ToSet(c.req.list)
    IN /\ c.writes <= 1
       /\ c.writes = 1 => /\ c.reply \subseteq {[pe |-> p, k |-> k] : p \in for}
                          /\ Answers(c.req.h) => {a.pe : a \in c.reply} = for

\* The client's salt and the server's stay in step, so that a request whose
\* header arrives is not refused, unless a header was lost: the client
\* advances its salt when it sends, the server when it has read the header
\* (CcsSendRequestGeneric, CcsServer_SHA1_message).
SaltsInStep ==
  x.auth => \A c \in Client : x.client[c].id # 0 /\ c \notin x.bad =>
    x.client[c].salt = x.salts[x.client[c].id]
      + Cardinality({k \in DOMAIN x.conn : x.conn[k].c = c /\ x.conn[k].kind = "request" /\ x.conn[k].st = "waiting"})

\* Every connection is closed, whether its request was answered,
\* declined, turned down, put off or cut short (CcsServer_recvRequest,
\* CcsRejectRequest, CcsHandleRequest).
AllClosed == \A k \in DOMAIN x.conn : x.conn[k].st = "closed"
=============================================================================
