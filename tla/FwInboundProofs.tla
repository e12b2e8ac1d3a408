-------------------------- MODULE FwInboundProofs ---------------------------
(* Proofs of what FwInbound says about address handlers and requests: both  *)
(* live as long as somebody uses them, regions are exclusive and answers    *)
(* single; and of what FwCdevEvents says about a client of the character    *)
(* device: its references are counted and its events told.                  *)
EXTENDS FwInbound, FwCdevEvents, FiniteSetTheorems, SequenceTheorems, TLAPS

-----------------------------------------------------------------------------
(* Lists of handlers.                                                       *)

\* h is on list s.
In(h, s) == \E i \in DOMAIN s : s[i] = h

\* No handler is on list s twice.
Once(s) == \A i, j \in DOMAIN s : s[i] = s[j] => i = j

LEMMA OneEntry ==
    ASSUME NEW s \in Seq(Handler), s # <<>>, Len(s) <= 1
    PROVE  Len(s) = 1
<1> DEFINE n == Len(s)
<1>1. n \in Nat /\ n # 0 /\ n <= 1
    BY EmptySeq
<1> HIDE DEF n
<1>2. n = 1
    BY <1>1
<1>3. QED
    BY <1>2 DEF n

\* list_add_tail_rcu()
LEMMA Appended ==
    ASSUME NEW s \in Seq(Handler), NEW h \in Handler, Once(s), ~In(h, s)
    PROVE  /\ Append(s, h) \in Seq(Handler) /\ Once(Append(s, h))
           /\ \A x : In(x, Append(s, h)) <=> In(x, s) \/ x = h
BY DEF Once, In

\* list_del_rcu()
LEMMA Deleted ==
    ASSUME NEW s \in Seq(Handler), NEW i \in DOMAIN s, Once(s)
    PROVE  /\ Without(s, i) \in Seq(Handler) /\ Once(Without(s, i))
           /\ \A x : In(x, Without(s, i)) <=> In(x, s) /\ x # s[i]
<1> DEFINE t == Without(s, i)
           n == Len(s)
<1>1. n \in Nat /\ DOMAIN s = 1 .. n /\ i \in 1 .. n /\ \A k \in 1 .. n : s[k] \in Handler
    OBVIOUS
<1>2. n - 1 \in Nat /\ t = [k \in 1 .. (n - 1) |-> IF k < i THEN s[k] ELSE s[k + 1]]
    BY <1>1 DEF Without
<1>3. t \in [1 .. (n - 1) -> Handler]
    BY <1>1, <1>2
<1>4. t \in Seq(Handler) /\ DOMAIN t = 1 .. (n - 1)
    BY <1>2, <1>3
<1> HIDE DEF t, n
<1>5. \A k \in 1 .. (n - 1) : t[k] = IF k < i THEN s[k] ELSE s[k + 1]
    BY <1>2
<1>6. Once(t)
  <2> SUFFICES ASSUME NEW k \in 1 .. (n - 1), NEW l \in 1 .. (n - 1), t[k] = t[l]
               PROVE  k = l
      BY <1>4 DEF Once
  <2> DEFINE p == IF k < i THEN k ELSE k + 1
             q == IF l < i THEN l ELSE l + 1
  <2>1. p \in 1 .. n /\ q \in 1 .. n /\ t[k] = s[p] /\ t[l] = s[q]
      BY <1>1, <1>5
  <2>2. p = q
      BY <1>1, <2>1 DEF Once
  <2>3. QED
      BY <1>1, <2>2
<1>7. ASSUME NEW x, In(x, t) PROVE In(x, s) /\ x # s[i]
    BY <1>1, <1>4, <1>5, <1>7 DEF In, Once
<1>8. ASSUME NEW x, In(x, s), x # s[i] PROVE In(x, t)
  <2>1. PICK k \in 1 .. n : s[k] = x
      BY <1>1, <1>8 DEF In
  <2>2. CASE k < i
      BY <1>1, <1>4, <1>5, <2>1, <2>2 DEF In
  <2>3. CASE k > i
    <3>1. k - 1 \in 1 .. (n - 1) /\ t[k - 1] = x
        BY <1>1, <1>5, <2>1, <2>3
    <3>2. QED
        BY <1>4, <3>1 DEF In
  <2>4. QED
      BY <1>1, <1>8, <2>1, <2>2, <2>3
<1>9. QED
    BY <1>4, <1>6, <1>7, <1>8 DEF t

\* A traversal under RCU sees handlers of the list, each once.
LEMMA Traversed ==
    ASSUME NEW s \in Seq(Handler), NEW I \in SUBSET DOMAIN s, Once(s), NEW t \in Traversals(s, I)
    PROVE  /\ t \in Seq(Handler) /\ Once(t) /\ Len(t) = Cardinality(I)
           /\ \A k \in DOMAIN t : In(t[k], s)
<1>1. Len(s) \in Nat /\ DOMAIN s = 1 .. Len(s) /\ \A k \in 1 .. Len(s) : s[k] \in Handler
    OBVIOUS
<1>2. IsFiniteSet(I) /\ Cardinality(I) \in Nat
  <2>1. IsFiniteSet(1 .. Len(s))
      BY <1>1, FS_Interval
  <2>2. QED
      BY <1>1, <2>1, FS_Subset, FS_CardinalityType
<1>3. PICK e \in [1 .. Cardinality(I) -> I] :
        /\ \A k, l \in DOMAIN e : k < l => e[k] < e[l]
        /\ t = [k \in DOMAIN e |-> s[e[k]]]
    BY DEF Traversals
<1>4. DOMAIN t = 1 .. Cardinality(I) /\ \A k \in 1 .. Cardinality(I) : t[k] = s[e[k]] /\ e[k] \in DOMAIN s
    BY <1>3
<1>5. t \in [1 .. Cardinality(I) -> Handler]
    BY <1>1, <1>3, <1>4
<1>6. t \in Seq(Handler) /\ Len(t) = Cardinality(I)
    BY <1>2, <1>5
<1>7. Once(t)
  <2> SUFFICES ASSUME NEW k \in 1 .. Cardinality(I), NEW l \in 1 .. Cardinality(I), t[k] = t[l]
               PROVE  k = l
      BY <1>4 DEF Once
  <2>1. e[k] = e[l] /\ e[k] \in Nat
      BY <1>1, <1>4 DEF Once
  <2>2. ~(k < l) /\ ~(l < k)
      BY <1>3, <2>1
  <2>3. QED
      BY <1>2, <2>2
<1>8. QED
    BY <1>4, <1>6, <1>7 DEF In

-----------------------------------------------------------------------------
(* One request.                                                             *)

RequestType ==
    [pc : {"none", "lookup", "running", "returning", "done"}, offset : Nat, split : BOOLEAN,
     kref : Nat, todo : Seq(Handler), inflight : BOOLEAN, responses : Nat]

QFcp(q) == InFcp(q.offset, 1)

\* The context that handles q may still touch it.
Busy(q) == q.pc \in {"lookup", "running"} \/ (q.pc = "returning" /\ QFcp(q))

\* Somebody is still going to answer q, with clients hs that hold it.
Unanswered(q, hs) == Busy(q) \/ (~QFcp(q) /\ hs # {})

\* Clients that hold q have had their callback; only FCP requests have more than one.
TodoOk(q, hs) ==
    /\ Once(q.todo)
    /\ q.pc \in {"none", "lookup"} => hs = {}
    /\ q.pc \in {"running", "returning"} => q.todo # <<>> /\ (~QFcp(q) => Len(q.todo) = 1)
    /\ q.pc = "running" => \A i \in DOMAIN q.todo : q.todo[i] \notin hs
    /\ q.pc = "returning" => \A i \in DOMAIN q.todo : i > 1 => q.todo[i] \notin hs

\* References, and who is to answer.
CountOk(q, hs) ==
    /\ q.kref = Cardinality(hs) + (IF Busy(q) THEN 1 ELSE 0) + (IF q.inflight THEN 2 ELSE 0)
    /\ Unanswered(q, hs) \/ q.pc = "none" => q.responses = 0 /\ ~q.inflight
    /\ q.responses <= IF q.split THEN 1 ELSE 0
    /\ ~QFcp(q) => (Busy(q) => hs = {}) /\ \A c, d \in hs : c = d

RequestOk(q, hs) ==
    q \in RequestType /\ hs \in SUBSET Client /\ IsFiniteSet(hs) /\ TodoOk(q, hs) /\ CountOk(q, hs)

\* fw_send_response()
LEMMA Sent ==
    ASSUME NEW q \in RequestType, q.kref > 0
    PROVE  /\ Send(q) \in RequestType
           /\ Send(q).pc = q.pc /\ Send(q).offset = q.offset /\ Send(q).todo = q.todo
           /\ Send(q).split = q.split
           /\ q.split => /\ Send(q).kref = q.kref + 1 /\ Send(q).inflight
                         /\ Send(q).responses = q.responses + 1
           /\ ~q.split => /\ Send(q).kref = q.kref - 1 /\ Send(q).inflight = q.inflight
                          /\ Send(q).responses = q.responses
<1>0. /\ q.kref - 1 \in Nat /\ q.kref + 1 \in Nat /\ q.responses + 1 \in Nat
      /\ q.split \in BOOLEAN
    BY DEF RequestType
<1>1. CASE q.split
  <2> DEFINE s == [q EXCEPT !.kref = q.kref + 1, !.inflight = TRUE, !.responses = q.responses + 1]
  <2>1. Send(q) = s
      BY <1>1 DEF Send
  <2>2. s \in RequestType
      BY <1>0 DEF RequestType
  <2>3. /\ s.pc = q.pc /\ s.offset = q.offset /\ s.todo = q.todo /\ s.split = q.split
        /\ s.kref = q.kref + 1 /\ s.inflight /\ s.responses = q.responses + 1
      BY <1>0 DEF RequestType
  <2> HIDE DEF s
  <2>4. QED
      BY <1>1, <2>1, <2>2, <2>3
<1>2. CASE ~q.split
  <2> DEFINE s == [q EXCEPT !.kref = q.kref - 1]
  <2>1. Send(q) = s
      BY <1>2 DEF Send, PutRequest
  <2>2. s \in RequestType
      BY <1>0 DEF RequestType
  <2>3. /\ s.pc = q.pc /\ s.offset = q.offset /\ s.todo = q.todo /\ s.split = q.split
        /\ s.kref = q.kref - 1 /\ s.inflight = q.inflight /\ s.responses = q.responses
      BY <1>0 DEF RequestType
  <2> HIDE DEF s
  <2>4. QED
      BY <1>2, <2>1, <2>2, <2>3
<1>3. QED
    BY <1>0, <1>1, <1>2

\* Another state.
LEMMA Stepped ==
    ASSUME NEW q \in RequestType, NEW pc \in {"none", "lookup", "running", "returning", "done"}
    PROVE  LET s == [q EXCEPT !.pc = pc]
           IN /\ s \in RequestType
              /\ s.pc = pc /\ s.todo = q.todo /\ s.offset = q.offset /\ s.split = q.split
              /\ s.kref = q.kref /\ s.inflight = q.inflight /\ s.responses = q.responses
BY DEF RequestType

-----------------------------------------------------------------------------
(* What happens to a request keeps it in order.                             *)

\* A context that is about to call a handler, or an answer, is alone with the request.
LEMMA Alone ==
    ASSUME NEW q, NEW hs, RequestOk(q, hs)
    PROVE  /\ Cardinality(hs) \in Nat /\ q.kref \in Nat /\ q.responses \in Nat
           /\ hs = {} => Cardinality(hs) = 0
           /\ hs # {} => Cardinality(hs) > 0
           /\ q.split \in BOOLEAN /\ q.inflight \in BOOLEAN /\ QFcp(q) \in BOOLEAN
           /\ Busy(q) => q.kref > 0
           /\ hs # {} => q.kref > 0
<1>1. Cardinality(hs) \in Nat /\ (Cardinality(hs) = 0 <=> hs = {})
    BY FS_CardinalityType, FS_EmptySet DEF RequestOk
<1>2. QED
    BY <1>1 DEF RequestOk, RequestType, CountOk, QFcp, InFcp

\* A handler has been called and did not take the request.
LEMMA CalledOk ==
    ASSUME NEW q, NEW hs, RequestOk(q, hs), q.pc = "running"
    PROVE  RequestOk(Answered(q, QFcp(q)), hs)
<1> DEFINE s == IF QFcp(q) THEN q ELSE Send(q)
           t == [s EXCEPT !.pc = "returning"]
<1>0. q \in RequestType /\ q.kref > 0
    BY Alone DEF RequestOk, Busy
<1>1. /\ s \in RequestType /\ s.todo = q.todo /\ s.offset = q.offset /\ s.split = q.split
      /\ QFcp(q) => s = q
    BY <1>0, Sent
<1>2. ~QFcp(q) => /\ q.split => /\ s.kref = q.kref + 1 /\ s.inflight
                                 /\ s.responses = q.responses + 1
                  /\ ~q.split => /\ s.kref = q.kref - 1 /\ s.inflight = q.inflight
                                  /\ s.responses = q.responses
    BY <1>0, Sent
<1> HIDE DEF s
<1>3. /\ t \in RequestType /\ t.pc = "returning" /\ t.todo = q.todo /\ t.offset = q.offset
      /\ t.split = q.split /\ t.kref = s.kref /\ t.inflight = s.inflight
      /\ t.responses = s.responses
    BY <1>1, Stepped
<1>4. Answered(q, QFcp(q)) = t
    BY DEF Answered, s
<1> HIDE DEF t
<1>5. QFcp(t) = QFcp(q)
    BY <1>3 DEF QFcp
<1>6. TodoOk(t, hs)
    BY <1>3, <1>5 DEF RequestOk, TodoOk
<1>7. CountOk(t, hs)
  <2>1. CASE QFcp(q)
      BY <1>1, <1>3, <1>5, <2>1, Alone DEF RequestOk, CountOk, Busy, Unanswered
  <2>2. CASE ~QFcp(q)
    <3>1. hs = {} /\ q.kref = 1 /\ q.responses = 0 /\ ~q.inflight
        BY <2>2, Alone DEF RequestOk, CountOk, Busy, Unanswered
    <3>2. QED
        BY <1>2, <1>3, <1>5, <2>2, <3>1, Alone DEF RequestOk, CountOk, Busy, Unanswered
  <2>3. QED
      BY <2>1, <2>2
<1>8. QED
    BY <1>3, <1>4, <1>6, <1>7 DEF RequestOk

\* A client took the request.
LEMMA TakenOk ==
    ASSUME NEW q, NEW hs, RequestOk(q, hs), q.pc = "running", Head(q.todo) \in Client
    PROVE  RequestOk([q EXCEPT !.pc = "returning", !.kref = IF QFcp(q) THEN q.kref + 1 ELSE q.kref],
                     hs \cup {Head(q.todo)})
<1> DEFINE k == IF QFcp(q) THEN q.kref + 1 ELSE q.kref
           h == Head(q.todo)
           t == [q EXCEPT !.pc = "returning", !.kref = k]
           H == hs \cup {h}
<1>0. q \in RequestType /\ q.kref > 0 /\ k \in Nat
    BY Alone DEF RequestOk, Busy
<1>1. /\ q.todo \in Seq(Handler) /\ q.todo # <<>> /\ h = q.todo[1] /\ 1 \in DOMAIN q.todo
      /\ h \notin hs
    BY <1>0 DEF RequestOk, TodoOk, RequestType
<1>2. IsFiniteSet(H) /\ Cardinality(H) = Cardinality(hs) + 1 /\ H \in SUBSET Client
    BY <1>1, FS_AddElement DEF RequestOk
<1> HIDE DEF k
<1>3. /\ t \in RequestType /\ t.pc = "returning" /\ t.todo = q.todo /\ t.offset = q.offset
      /\ t.split = q.split /\ t.kref = k /\ t.inflight = q.inflight
      /\ t.responses = q.responses
    BY <1>0 DEF RequestType
<1> HIDE DEF t, h
<1>5. QFcp(t) = QFcp(q)
    BY <1>3 DEF QFcp
<1>6. TodoOk(t, H)
    BY <1>0, <1>1, <1>3, <1>5 DEF RequestOk, TodoOk, Once
<1>7. CountOk(t, H)
  <2>1. CASE QFcp(q)
      BY <1>1, <1>2, <1>3, <1>5, <2>1, Alone DEF RequestOk, CountOk, Busy, Unanswered, k
  <2>2. CASE ~QFcp(q)
    <3>1. hs = {} /\ q.kref = 1 /\ q.responses = 0 /\ ~q.inflight
        BY <2>2, Alone DEF RequestOk, CountOk, Busy, Unanswered
    <3>2. QED
        BY <1>2, <1>3, <1>5, <2>2, <3>1, Alone DEF RequestOk, CountOk, Busy, Unanswered, k
  <2>3. QED
      BY <2>1, <2>2
<1>8. RequestOk(t, H)
    BY <1>2, <1>3, <1>6, <1>7 DEF RequestOk
<1>9. QED
    BY <1>8 DEF t, k, h

\* A callback has returned.
LEMMA NextOk ==
    ASSUME NEW q, NEW hs, RequestOk(q, hs), q.pc = "returning"
    PROVE  RequestOk(NextHandler(q, Tail(q.todo), QFcp(q)), hs)
<1> DEFINE rest == Tail(q.todo)
           d == [q EXCEPT !.todo = rest, !.pc = "done"]
           u == [q EXCEPT !.todo = rest, !.pc = "running"]
<1>0. q \in RequestType /\ q.todo \in Seq(Handler) /\ q.todo # <<>>
    BY DEF RequestOk, TodoOk, RequestType
<1>1. /\ rest \in Seq(Handler) /\ Len(rest) = Len(q.todo) - 1
      /\ DOMAIN rest = 1 .. (Len(q.todo) - 1) /\ Len(q.todo) \in Nat
      /\ \A i \in DOMAIN rest : i + 1 \in DOMAIN q.todo /\ i + 1 > 1 /\ rest[i] = q.todo[i + 1]
    BY <1>0
<1>2. Once(rest) /\ \A i \in DOMAIN rest : rest[i] \notin hs
  <2>1. Once(q.todo) /\ \A i \in DOMAIN q.todo : i > 1 => q.todo[i] \notin hs
      BY DEF RequestOk, TodoOk
  <2>2. QED
      BY <1>0, <1>1, <2>1 DEF Once
<1> HIDE DEF rest
<1>3. /\ d \in RequestType /\ d.pc = "done" /\ d.todo = rest /\ d.offset = q.offset
      /\ d.split = q.split /\ d.kref = q.kref /\ d.inflight = q.inflight
      /\ d.responses = q.responses
      /\ u \in RequestType /\ u.pc = "running" /\ u.todo = rest /\ u.offset = q.offset
      /\ u.split = q.split /\ u.kref = q.kref /\ u.inflight = q.inflight
      /\ u.responses = q.responses
    BY <1>0, <1>1 DEF RequestType
<1> HIDE DEF d, u
<1>4. QFcp(d) = QFcp(q) /\ QFcp(u) = QFcp(q)
    BY <1>3 DEF QFcp
<1>5. CASE rest # <<>>
  <2>1. QFcp(q)
      BY <1>0, <1>1, <1>5 DEF RequestOk, TodoOk
  <2>2. TodoOk(u, hs)
      BY <1>1, <1>2, <1>3, <1>4, <1>5, <2>1 DEF RequestOk, TodoOk
  <2>3. CountOk(u, hs)
      BY <1>3, <1>4, <2>1 DEF RequestOk, CountOk, Busy, Unanswered
  <2>4. QED
      BY <1>3, <1>5, <2>2, <2>3 DEF RequestOk, NextHandler, u, rest
<1>6. CASE rest = <<>> /\ QFcp(q)
  <2>0. d.kref > 0
      BY <1>3, <1>6, Alone DEF Busy
  <2>1. /\ Send(d) \in RequestType /\ Send(d).pc = "done" /\ Send(d).offset = q.offset
        /\ Send(d).todo = rest /\ Send(d).split = q.split
        /\ q.split => /\ Send(d).kref = q.kref + 1 /\ Send(d).inflight
                      /\ Send(d).responses = q.responses + 1
        /\ ~q.split => /\ Send(d).kref = q.kref - 1 /\ Send(d).inflight = q.inflight
                       /\ Send(d).responses = q.responses
      BY <1>3, <2>0, Sent
  <2>2. QFcp(Send(d)) = QFcp(q)
      BY <2>1 DEF QFcp
  <2>3. TodoOk(Send(d), hs)
      BY <1>2, <2>1 DEF TodoOk
  <2>4. CountOk(Send(d), hs)
      BY <1>6, <2>1, <2>2, Alone DEF RequestOk, CountOk, Busy, Unanswered
  <2>5. QED
      BY <1>6, <2>1, <2>3, <2>4 DEF RequestOk, NextHandler, d, rest
<1>7. CASE rest = <<>> /\ ~QFcp(q)
  <2>1. TodoOk(d, hs)
      BY <1>2, <1>3 DEF TodoOk
  <2>2. CountOk(d, hs)
      BY <1>3, <1>4, <1>7 DEF RequestOk, CountOk, Busy, Unanswered
  <2>3. QED
      BY <1>3, <1>7, <2>1, <2>2 DEF RequestOk, NextHandler, d, rest
<1>8. QED
    BY <1>5, <1>6, <1>7

\* The response packet is done.
LEMMA SentOk ==
    ASSUME NEW q, NEW hs, RequestOk(q, hs), q.inflight
    PROVE  RequestOk([q EXCEPT !.inflight = FALSE, !.kref = q.kref - 2], hs)
<1> DEFINE k == q.kref - 2
           t == [q EXCEPT !.inflight = FALSE, !.kref = k]
<1>0. q \in RequestType /\ k \in Nat
    BY Alone DEF RequestOk, CountOk
<1> HIDE DEF k
<1>1. /\ t \in RequestType /\ t.pc = q.pc /\ t.todo = q.todo /\ t.offset = q.offset
      /\ t.split = q.split /\ t.kref = k /\ ~t.inflight /\ t.responses = q.responses
    BY <1>0 DEF RequestType
<1> HIDE DEF t
<1>2. QFcp(t) = QFcp(q)
    BY <1>1 DEF QFcp
<1>3. TodoOk(t, hs)
    BY <1>1, <1>2 DEF RequestOk, TodoOk
<1>4. CountOk(t, hs)
    BY <1>1, <1>2, Alone DEF RequestOk, CountOk, Busy, Unanswered, k
<1>5. RequestOk(t, hs)
    BY <1>1, <1>3, <1>4 DEF RequestOk
<1>6. QED
    BY <1>5 DEF t, k

\* A client that holds the request gives it back, without or with an answer.
LEMMA GivenUpOk ==
    ASSUME NEW q, NEW hs, RequestOk(q, hs), NEW c \in hs
    PROVE  /\ RequestOk(PutRequest(q), hs \ {c})
           /\ ~QFcp(q) => RequestOk(Send(q), hs \ {c})
<1> DEFINE k == q.kref - 1
           t == [q EXCEPT !.kref = k]
           H == hs \ {c}
<1>0. q \in RequestType /\ k \in Nat /\ q.kref > 0
    BY Alone DEF RequestOk
<1>1. /\ IsFiniteSet(H) /\ Cardinality(H) = Cardinality(hs) - 1 /\ H \in SUBSET Client
      /\ \A x \in H : x \in hs
    BY FS_RemoveElement DEF RequestOk
<1>2. q.pc \notin {"none", "lookup"} /\ (~QFcp(q) => ~Busy(q) /\ H = {})
    BY DEF RequestOk, TodoOk, CountOk
<1> HIDE DEF k, H
<1>3. /\ t \in RequestType /\ t.pc = q.pc /\ t.todo = q.todo /\ t.offset = q.offset
      /\ t.split = q.split /\ t.kref = k /\ t.inflight = q.inflight /\ t.responses = q.responses
    BY <1>0 DEF RequestType
<1>4. PutRequest(q) = t
    BY DEF PutRequest, k
<1> HIDE DEF t
<1>5. QFcp(t) = QFcp(q)
    BY <1>3 DEF QFcp
<1>6. TodoOk(t, H)
    BY <1>1, <1>2, <1>3, <1>5 DEF RequestOk, TodoOk
<1>7. CountOk(t, H)
    BY <1>1, <1>2, <1>3, <1>5, Alone DEF RequestOk, CountOk, Busy, Unanswered, k
<1>8. RequestOk(PutRequest(q), H)
    BY <1>1, <1>3, <1>4, <1>6, <1>7 DEF RequestOk
<1>9. ASSUME ~QFcp(q) PROVE RequestOk(Send(q), H)
  <2>1. /\ Send(q) \in RequestType
        /\ Send(q).pc = q.pc /\ Send(q).offset = q.offset /\ Send(q).todo = q.todo
        /\ Send(q).split = q.split
        /\ q.split => /\ Send(q).kref = q.kref + 1 /\ Send(q).inflight
                      /\ Send(q).responses = q.responses + 1
        /\ ~q.split => /\ Send(q).kref = q.kref - 1 /\ Send(q).inflight = q.inflight
                       /\ Send(q).responses = q.responses
      BY <1>0, Sent
  <2>2. QFcp(Send(q)) = QFcp(q)
      BY <2>1 DEF QFcp
  <2>3. TodoOk(Send(q), H)
      BY <1>1, <1>2, <2>1, <2>2 DEF RequestOk, TodoOk
  <2>4. q.responses = 0 /\ ~q.inflight /\ q.kref = 1 /\ Cardinality(H) = 0
      BY <1>1, <1>2, <1>9, FS_EmptySet, Alone DEF RequestOk, CountOk, Unanswered
  <2>5. CountOk(Send(q), H)
      BY <1>2, <1>9, <2>1, <2>2, <2>4, Alone DEF CountOk, Busy, Unanswered
  <2>6. QED
      BY <1>1, <2>1, <2>3, <2>5 DEF RequestOk
<1>10. QED
    BY <1>8, <1>9 DEF H

\* Nothing has been received yet.
LEMMA NoneOk ==
    RequestOk(NoRequest, {})
<1>1. NoRequest \in RequestType /\ NoRequest.pc = "none" /\ NoRequest.todo = <<>>
      /\ NoRequest.kref = 0 /\ NoRequest.inflight = FALSE /\ NoRequest.responses = 0
      /\ NoRequest.split = FALSE
    BY DEF NoRequest, RequestType
<1>2. IsFiniteSet({}) /\ Cardinality({}) = 0
    BY FS_EmptySet
<1> HIDE DEF NoRequest
<1>3. TodoOk(NoRequest, {})
    BY <1>1 DEF TodoOk, Once
<1>4. CountOk(NoRequest, {})
    BY <1>1, <1>2 DEF CountOk, Busy, Unanswered
<1>5. QED
    BY <1>1, <1>2, <1>3, <1>4 DEF RequestOk

\* A request is received, with list s to be traversed; or it is dropped.
LEMMA ReceivedOk ==
    ASSUME NEW offset \in Nat, NEW split \in BOOLEAN, NEW s \in Seq(Handler), Once(s)
    PROVE  RequestOk([NoRequest EXCEPT !.pc = "lookup", !.split = split, !.offset = offset,
                                       !.kref = 1, !.todo = s], {})
<1> DEFINE t == [NoRequest EXCEPT !.pc = "lookup", !.split = split, !.offset = offset,
                                  !.kref = 1, !.todo = s]
<1>1. /\ t \in RequestType /\ t.pc = "lookup" /\ t.todo = s /\ t.kref = 1
      /\ t.inflight = FALSE /\ t.responses = 0 /\ t.split = split
    BY DEF NoRequest, RequestType
<1>2. IsFiniteSet({}) /\ Cardinality({}) = 0
    BY FS_EmptySet
<1> HIDE DEF t
<1>3. TodoOk(t, {})
    BY <1>1 DEF TodoOk
<1>4. CountOk(t, {})
    BY <1>1, <1>2 DEF CountOk, Busy, Unanswered
<1>5. RequestOk(t, {})
    BY <1>1, <1>2, <1>3, <1>4 DEF RequestOk
<1>6. QED
    BY <1>5 DEF t

LEMMA DroppedOk ==
    ASSUME NEW q, NEW hs, RequestOk(q, hs), q.pc = "none"
    PROVE  RequestOk([q EXCEPT !.pc = "done"], hs)
<1> DEFINE t == [q EXCEPT !.pc = "done"]
<1>1. /\ t \in RequestType /\ t.pc = "done" /\ t.todo = q.todo /\ t.offset = q.offset
      /\ t.split = q.split /\ t.kref = q.kref /\ t.inflight = q.inflight
      /\ t.responses = q.responses
    BY Stepped DEF RequestOk
<1> HIDE DEF t
<1>2. QFcp(t) = QFcp(q) /\ hs = {}
    BY <1>1 DEF QFcp, RequestOk, TodoOk
<1>3. TodoOk(t, hs)
    BY <1>1, <1>2 DEF RequestOk, TodoOk
<1>4. CountOk(t, hs)
    BY <1>1, <1>2, Alone DEF RequestOk, CountOk, Busy, Unanswered
<1>5. RequestOk(t, hs)
    BY <1>1, <1>3, <1>4 DEF RequestOk
<1>6. QED
    BY <1>5 DEF t

\* The lookup has found handlers, or none.
LEMMA DeliveredOk ==
    ASSUME NEW q, NEW hs, RequestOk(q, hs), q.pc = "lookup",
           NEW f \in Seq(Handler), Once(f), ~QFcp(q) => Len(f) <= 1
    PROVE  RequestOk(Delivered(q, f), hs)
<1> DEFINE d == [q EXCEPT !.todo = f, !.pc = "done"]
           u == [q EXCEPT !.todo = f, !.pc = "running"]
<1>0. q \in RequestType /\ hs = {}
    BY DEF RequestOk, TodoOk
<1>3. /\ d \in RequestType /\ d.pc = "done" /\ d.todo = f /\ d.offset = q.offset
      /\ d.split = q.split /\ d.kref = q.kref /\ d.inflight = q.inflight
      /\ d.responses = q.responses
      /\ u \in RequestType /\ u.pc = "running" /\ u.todo = f /\ u.offset = q.offset
      /\ u.split = q.split /\ u.kref = q.kref /\ u.inflight = q.inflight
      /\ u.responses = q.responses
    BY <1>0 DEF RequestType
<1> HIDE DEF d, u
<1>4. QFcp(d) = QFcp(q) /\ QFcp(u) = QFcp(q)
    BY <1>3 DEF QFcp
<1>5. CASE f # <<>>
  <2>0. ~QFcp(q) => Len(f) = 1
    <3>1. SUFFICES ASSUME ~QFcp(q) PROVE Len(f) = 1
        BY Zenon
    <3>2. Len(f) <= 1
        BY <3>1, Zenon
    <3>3. QED
        BY <1>5, <3>2, OneEntry, Zenon
  <2>1. TodoOk(u, hs)
      BY <1>0, <1>3, <1>4, <1>5, <2>0 DEF TodoOk
  <2>2. CountOk(u, hs)
      BY <1>0, <1>3, <1>4 DEF RequestOk, CountOk, Busy, Unanswered
  <2>3. QED
      BY <1>3, <1>5, <2>1, <2>2 DEF RequestOk, Delivered, u
<1>6. CASE f = <<>>
  <2>0. d.kref > 0 /\ q.kref = 1 /\ q.responses = 0 /\ ~q.inflight /\ Cardinality(hs) = 0
    <3>1. Busy(q) /\ Unanswered(q, hs)
        BY DEF Busy, Unanswered
    <3>2. Cardinality(hs) = 0
        BY <1>0, Alone
    <3>3. q.responses = 0 /\ ~q.inflight
        BY <3>1 DEF RequestOk, CountOk
    <3>4. QED
        BY <1>3, <3>1, <3>2, <3>3, Alone DEF RequestOk, CountOk
  <2>1. /\ Send(d) \in RequestType /\ Send(d).pc = "done" /\ Send(d).offset = q.offset
        /\ Send(d).todo = f /\ Send(d).split = q.split
        /\ q.split => /\ Send(d).kref = q.kref + 1 /\ Send(d).inflight
                      /\ Send(d).responses = q.responses + 1
        /\ ~q.split => /\ Send(d).kref = q.kref - 1 /\ Send(d).inflight = q.inflight
                       /\ Send(d).responses = q.responses
      BY <1>3, <2>0, Sent
  <2>2. QFcp(Send(d)) = QFcp(q)
      BY <2>1 DEF QFcp
  <2>3. TodoOk(Send(d), hs)
      BY <2>1 DEF TodoOk
  <2>4. CountOk(Send(d), hs)
      BY <1>0, <2>0, <2>1, <2>2, Alone DEF CountOk, Busy, Unanswered
  <2>5. QED
      BY <1>6, <2>1, <2>3, <2>4 DEF RequestOk, Delivered, d
<1>8. QED
    BY <1>5, <1>6

-----------------------------------------------------------------------------
(* All handlers and requests.                                               *)

HandlerType == [pc : {"absent", "listed", "unlinked", "waiting"}, offset : Nat, kref : Nat]

StateTyped ==
    /\ handlers \in Seq(Handler) /\ handler \in [Handler -> HandlerType]
    /\ grace \in [Handler -> SUBSET Request] /\ closed \in SUBSET Client
    /\ request \in [Request -> RequestType] /\ held \in [Request -> SUBSET Client]

\* The list holds the handlers that were added and not removed.
ListShape ==
    /\ Once(handlers)
    /\ \A h \in Handler : In(h, handlers) <=> handler[h].pc = "listed"

\* A reader may come upon a handler that was removed meanwhile, whose removal waits for it.
ReadersWaitedFor ==
    \A r \in Request, h \in Handler :
        /\ request[r].pc = "lookup" /\ In(h, request[r].todo)
        => handler[h].pc = "listed" \/ (handler[h].pc = "unlinked" /\ r \in grace[h])

\* q makes use of h.
Uses(q, h) == q.pc \in {"running", "returning"} /\ In(h, q.todo)

\* References to handlers.
KrefShape ==
    \A h \in Handler :
        /\ IsFiniteSet(InUse(h))
        /\ handler[h].kref = Cardinality(InUse(h))
                             + (IF handler[h].pc \in {"listed", "unlinked"} THEN 1 ELSE 0)
        /\ handler[h].pc = "absent" => handler[h].kref = 0

\* The regions on the list are exclusive.
Exclusive ==
    \A g, h \in Handler :
        /\ handler[g].pc = "listed" /\ handler[h].pc = "listed" /\ g # h
        /\ ~InFcp(handler[g].offset, Region[g].length)
        /\ ~InFcp(handler[h].offset, Region[h].length)
        => ~Overlap(g, handler[h].offset, Region[h].length)

RequestsOk == \A r \in Request : RequestOk(request[r], held[r])

\* The inductive invariant.
InboundInv ==
    StateTyped /\ ListShape /\ ReadersWaitedFor /\ KrefShape /\ Exclusive /\ RequestsOk

\* The handlers found are on the list that was traversed, each once, and only the FCP
\* registers have more than one.
LEMMA FoundOk ==
    ASSUME InboundInv, NEW r \in Request, NEW f \in Found(r)
    PROVE  /\ f \in Seq(Handler) /\ Once(f) /\ (~QFcp(request[r]) => Len(f) <= 1)
           /\ \A h : In(h, f) => In(h, request[r].todo)
<1> DEFINE s == request[r].todo
           hit == Hits(r)
           one == {i \in hit : \A j \in hit : i <= j}
<1>1. s \in Seq(Handler) /\ Once(s) /\ hit \in SUBSET DOMAIN s /\ one \in SUBSET DOMAIN s
  <2>1. RequestOk(request[r], held[r])
      BY DEF InboundInv, RequestsOk
  <2>2. QED
      BY <2>1 DEF RequestOk, RequestType, TodoOk, Hits
<1>2. Fcp(r) <=> QFcp(request[r])
    BY DEF Fcp, QFcp
<1>3. /\ Fcp(r) => f \in Traversals(s, hit) \/ f \in Truncated(Traversals(s, hit), Cardinality(hit))
      /\ ~Fcp(r) => f \in Traversals(s, one)
    BY Zenon DEF Found
<1> HIDE DEF s, hit, one
<1>4. CASE Fcp(r) /\ f \in Traversals(s, hit)
    BY <1>1, <1>2, <1>4, Traversed DEF In, s
<1>5. CASE Fcp(r) /\ f \notin Traversals(s, hit)
  <2>1. PICK t \in Traversals(s, hit), k \in Sizes(Cardinality(hit)) : f = SubSeq(t, 1, k)
      BY <1>3, <1>5 DEF Truncated
  <2>2. /\ t \in Seq(Handler) /\ Once(t) /\ Len(t) = Cardinality(hit)
        /\ \A i \in DOMAIN t : In(t[i], s)
      BY <1>1, Traversed
  <2>3. k \in Nat /\ k <= Len(t) /\ Len(t) \in Nat
      BY <2>2 DEF Sizes
  <2>4. f \in Seq(Handler) /\ DOMAIN f = 1 .. k /\ \A i \in 1 .. k : f[i] = t[i] /\ i \in DOMAIN t
      BY <2>1, <2>2, <2>3
  <2>5. QED
      BY <1>2, <1>5, <2>2, <2>4 DEF In, Once, s
<1>6. CASE ~Fcp(r)
  <2>1. /\ f \in Seq(Handler) /\ Once(f) /\ Len(f) = Cardinality(one)
        /\ \A i \in DOMAIN f : In(f[i], s)
      BY <1>1, <1>3, <1>6, Traversed
  <2>2. \A i, j \in one : i = j
      BY <1>1 DEF one
  <2>3. Cardinality(one) <= 1
    <3>1. CASE one = {}
        BY <3>1, FS_EmptySet
    <3>2. CASE one # {}
      <4>1. PICK i \in one : TRUE
          BY <3>2
      <4>2. one = {i}
          BY <2>2, <4>1
      <4>3. QED
          BY <4>2, FS_Singleton
    <3>3. QED
        BY <3>1, <3>2
  <2>4. QED
      BY <1>2, <2>1, <2>3 DEF In, s
<1>7. QED
    BY <1>4, <1>5, <1>6

-----------------------------------------------------------------------------
(* Steps that change one request.                                           *)

\* The handlers in use are those of the contexts that use them.
LEMMA UseIs ==
    ASSUME NEW h
    PROVE  /\ InUse(h) = {r \in Request : Uses(request[r], h)}
           /\ InUse(h)' = {r \in Request : Uses(request'[r], h)}
BY DEF InUse, Uses, In

\* Neither the handlers nor their users change.
LEMMA RequestStep ==
    ASSUME InboundInv, NEW r \in Request, NEW q, NEW hs, RequestOk(q, hs),
           request' = [request EXCEPT ![r] = q], held' = [held EXCEPT ![r] = hs],
           UNCHANGED <<handlers, handler, grace, closed>>,
           \A h \in Handler : Uses(q, h) <=> Uses(request[r], h),
           q.pc = "lookup" => \A h \in Handler : In(h, q.todo) => handler[h].pc = "listed"
    PROVE  InboundInv'
<1>1. /\ request'[r] = q /\ \A x \in Request : x # r => request'[x] = request[x]
      /\ held'[r] = hs /\ \A x \in Request : x # r => held'[x] = held[x]
      /\ request' \in [Request -> RequestType] /\ held' \in [Request -> SUBSET Client]
    BY DEF InboundInv, StateTyped, RequestOk
<1>2. StateTyped'
    BY <1>1 DEF InboundInv, StateTyped
<1>3. ListShape'
    BY DEF InboundInv, ListShape, In, Once
<1>4. ReadersWaitedFor'
  <2> SUFFICES ASSUME NEW x \in Request, NEW h \in Handler,
                      request'[x].pc = "lookup", In(h, request'[x].todo)
               PROVE  handler[h].pc = "listed" \/ (handler[h].pc = "unlinked" /\ x \in grace[h])
      BY DEF ReadersWaitedFor, In
  <2>1. CASE x = r
      BY <1>1, <2>1
  <2>2. CASE x # r
      BY <1>1, <2>2 DEF InboundInv, ReadersWaitedFor
  <2>3. QED
      BY <2>1, <2>2
<1>5. KrefShape'
  <2> SUFFICES ASSUME NEW h \in Handler
               PROVE  InUse(h)' = InUse(h)
      BY DEF InboundInv, KrefShape
  <2>1. \A x \in Request : Uses(request'[x], h) <=> Uses(request[x], h)
      BY <1>1
  <2>2. QED
      BY <2>1, UseIs
<1>6. Exclusive'
    BY DEF InboundInv, Exclusive, Overlap
<1>7. RequestsOk'
    BY <1>1 DEF InboundInv, RequestsOk
<1>8. QED
    BY <1>2, <1>3, <1>4, <1>5, <1>6, <1>7 DEF InboundInv

\* What the invariant says of one request.
LEMMA OfRequest ==
    ASSUME InboundInv, NEW r \in Request
    PROVE  /\ RequestOk(request[r], held[r]) /\ request[r] \in RequestType
           /\ held = [held EXCEPT ![r] = held[r]] /\ (Fcp(r) <=> QFcp(request[r]))
           /\ Fcp(r) = QFcp(request[r])
BY DEF InboundInv, RequestsOk, RequestOk, StateTyped, Fcp, QFcp

LEMMA ReceiveStep ==
    ASSUME InboundInv, NEW r \in Request, Receive(r)
    PROVE  InboundInv'
<1>1. PICK offset \in Offset, split \in BOOLEAN :
        request' = [request EXCEPT ![r] = [NoRequest EXCEPT !.pc = "lookup", !.split = split,
                                                            !.offset = offset, !.kref = 1,
                                                            !.todo = handlers]]
    BY DEF Receive
<1> DEFINE q == [NoRequest EXCEPT !.pc = "lookup", !.split = split, !.offset = offset,
                                  !.kref = 1, !.todo = handlers]
<1>2. offset \in Nat /\ handlers \in Seq(Handler) /\ Once(handlers)
    BY InboundAssumption DEF InboundInv, StateTyped, ListShape
<1>3. RequestOk(q, {})
    BY <1>2, ReceivedOk
<1>4. q.pc = "lookup" /\ q.todo = handlers
    BY DEF NoRequest
<1>5. held[r] = {} /\ request[r].pc = "none"
    BY OfRequest DEF RequestOk, TodoOk, Receive
<1> HIDE DEF q
<1>6. request' = [request EXCEPT ![r] = q] /\ held' = [held EXCEPT ![r] = {}]
    BY <1>1, <1>5, OfRequest DEF q, Receive
<1>7. \A h \in Handler : Uses(q, h) <=> Uses(request[r], h)
    BY <1>4, <1>5 DEF Uses
<1>8. \A h \in Handler : In(h, q.todo) => handler[h].pc = "listed"
    BY <1>4 DEF InboundInv, ListShape
<1>9. QED
    BY <1>3, <1>6, <1>7, <1>8, RequestStep DEF Receive

LEMMA DropStep ==
    ASSUME InboundInv, NEW r \in Request, Drop(r)
    PROVE  InboundInv'
<1> DEFINE q == [request[r] EXCEPT !.pc = "done"]
<1>1. q.pc = "done" /\ RequestOk(q, held[r])
    BY OfRequest, DroppedOk, Stepped DEF Drop
<1>2. request' = [request EXCEPT ![r] = q] /\ held' = [held EXCEPT ![r] = held[r]]
    BY OfRequest DEF Drop
<1>3. request[r].pc = "none"
    BY DEF Drop
<1> HIDE DEF q
<1>4. \A h \in Handler : Uses(q, h) <=> Uses(request[r], h)
    BY <1>1, <1>3 DEF Uses
<1>5. QED
    BY <1>1, <1>2, <1>4, RequestStep DEF Drop

\* A callback that does not take the request.
LEMMA CallbackStep ==
    ASSUME InboundInv, NEW r \in Request, request[r].pc = "running",
           request' = [request EXCEPT ![r] = Answered(request[r], Fcp(r))],
           UNCHANGED <<handlers, handler, grace, closed, held>>
    PROVE  InboundInv'
<1> DEFINE q == Answered(request[r], Fcp(r))
<1>1. RequestOk(q, held[r])
    BY OfRequest, CalledOk
<1>2. q.pc = "returning" /\ q.todo = request[r].todo
  <2> DEFINE s == IF Fcp(r) THEN request[r] ELSE Send(request[r])
  <2>1. request[r].kref > 0
      BY OfRequest, Alone DEF Busy
  <2>2. s \in RequestType /\ s.todo = request[r].todo
      BY <2>1, OfRequest, Sent
  <2> HIDE DEF s
  <2>3. [s EXCEPT !.pc = "returning"].pc = "returning"
        /\ [s EXCEPT !.pc = "returning"].todo = request[r].todo
      BY <2>2, Stepped
  <2>4. QED
      BY <2>3 DEF Answered, s
<1> HIDE DEF q
<1>3. held' = [held EXCEPT ![r] = held[r]] /\ request' = [request EXCEPT ![r] = q]
    BY OfRequest DEF q
<1>4. \A h \in Handler : Uses(q, h) <=> Uses(request[r], h)
    BY <1>2 DEF Uses
<1>5. QED
    BY <1>1, <1>2, <1>3, <1>4, RequestStep

LEMMA DriverCallbackStep ==
    ASSUME InboundInv, NEW r \in Request, DriverCallback(r)
    PROVE  InboundInv'
BY CallbackStep DEF DriverCallback

LEMMA ClientCallbackFailsStep ==
    ASSUME InboundInv, NEW r \in Request, ClientCallbackFails(r)
    PROVE  InboundInv'
BY CallbackStep DEF ClientCallbackFails

LEMMA ClientCallbackStep ==
    ASSUME InboundInv, NEW r \in Request, ClientCallback(r)
    PROVE  InboundInv'
<1> DEFINE p == request[r]
           k == IF QFcp(p) THEN p.kref + 1 ELSE p.kref
           q == [p EXCEPT !.pc = "returning", !.kref = k]
           hs == held[r] \cup {Head(p.todo)}
<1>1. p.pc = "running" /\ Head(p.todo) \in Client
    BY DEF ClientCallback
<1>2. RequestOk(q, hs)
    BY <1>1, OfRequest, TakenOk
<1>3. q.pc = "returning" /\ q.todo = p.todo
  <2>1. k \in Nat
      BY OfRequest DEF RequestType
  <2> HIDE DEF k
  <2>2. QED
      BY <2>1, OfRequest DEF RequestType
<1>4. held' = [held EXCEPT ![r] = hs]
    BY DEF ClientCallback
<1>5. request' = [request EXCEPT ![r] = q]
    BY OfRequest DEF ClientCallback
<1> HIDE DEF q, hs
<1>6. \A h \in Handler : Uses(q, h) <=> Uses(request[r], h)
    BY <1>1, <1>3 DEF Uses
<1>7. QED
    BY <1>2, <1>3, <1>4, <1>5, <1>6, RequestStep DEF ClientCallback

LEMMA ResponseDoneStep ==
    ASSUME InboundInv, NEW r \in Request, ResponseDone(r)
    PROVE  InboundInv'
<1> DEFINE p == request[r]
           q == [p EXCEPT !.inflight = FALSE, !.kref = p.kref - 2]
<1>1. RequestOk(q, held[r])
    BY OfRequest, SentOk DEF ResponseDone
<1>2. q.pc = p.pc /\ q.todo = p.todo
    BY OfRequest DEF RequestType
<1>3. request' = [request EXCEPT ![r] = q] /\ held' = [held EXCEPT ![r] = held[r]]
    BY OfRequest DEF ResponseDone
<1> HIDE DEF q
<1>4. \A h \in Handler : Uses(q, h) <=> Uses(request[r], h)
    BY <1>2 DEF Uses
<1>5. q.pc # "lookup"
    BY <1>2, OfRequest DEF ResponseDone, RequestOk, CountOk, Unanswered, Busy
<1>6. QED
    BY <1>1, <1>3, <1>4, <1>5, RequestStep DEF ResponseDone

\* A client that holds request r gives it back, with or without an answer.
LEMMA BackStep ==
    ASSUME InboundInv, NEW r \in Request, NEW c \in held[r],
           NEW q \in {PutRequest(request[r]), Send(request[r])},
           q = Send(request[r]) => ~Fcp(r) \/ q = PutRequest(request[r]),
           request' = [request EXCEPT ![r] = q],
           held' = [held EXCEPT ![r] = held[r] \ {c}],
           UNCHANGED <<handlers, handler, grace, closed>>
    PROVE  InboundInv'
<1> DEFINE p == request[r]
<1>1. RequestOk(q, held[r] \ {c})
    BY OfRequest, GivenUpOk
<1>2. p.kref > 0 /\ p.kref - 1 \in Nat
    BY OfRequest, Alone
<1>3. q.pc = p.pc /\ q.todo = p.todo
  <2>1. CASE q = Send(p)
      BY <1>2, <2>1, OfRequest, Sent
  <2>2. CASE q = PutRequest(p)
      BY <1>2, <2>2, OfRequest DEF PutRequest, RequestType
  <2>3. QED
      BY <2>1, <2>2
<1>4. \A h \in Handler : Uses(q, h) <=> Uses(request[r], h)
    BY <1>3 DEF Uses
<1>5. q.pc # "lookup"
    BY <1>3, OfRequest DEF RequestOk, TodoOk
<1>6. QED
    BY <1>1, <1>4, <1>5, RequestStep

LEMMA ClientRespondStep ==
    ASSUME InboundInv, NEW r \in Request, NEW c \in Client, ClientRespond(r, c)
    PROVE  InboundInv'
<1>1. c \in held[r] /\ held' = [held EXCEPT ![r] = held[r] \ {c}]
      /\ UNCHANGED <<handlers, handler, grace, closed>>
    BY DEF ClientRespond
<1>2. CASE Fcp(r) /\ request' = [request EXCEPT ![r] = PutRequest(request[r])]
    BY <1>1, <1>2, BackStep
<1>3. CASE ~Fcp(r) /\ request' = [request EXCEPT ![r] = Send(request[r])]
    BY <1>1, <1>3, BackStep
<1>4. CASE ~Fcp(r) /\ request' = [request EXCEPT ![r] = PutRequest(request[r])]
    BY <1>1, <1>4, BackStep
<1>5. QED
    BY <1>2, <1>3, <1>4 DEF ClientRespond

LEMMA ClientReleaseStep ==
    ASSUME InboundInv, NEW r \in Request, NEW c \in Client, ClientRelease(r, c)
    PROVE  InboundInv'
<1>1. c \in held[r] /\ held' = [held EXCEPT ![r] = held[r] \ {c}]
      /\ UNCHANGED <<handlers, handler, grace, closed>>
    BY DEF ClientRelease
<1>2. CASE Fcp(r) /\ request' = [request EXCEPT ![r] = PutRequest(request[r])]
    BY <1>1, <1>2, BackStep
<1>3. CASE ~Fcp(r) /\ request' = [request EXCEPT ![r] = Send(request[r])]
    BY <1>1, <1>3, BackStep
<1>4. QED
    BY <1>2, <1>3 DEF ClientRelease, ReleaseAnswer

-----------------------------------------------------------------------------
(* Steps that take and give back references to handlers.                    *)

\* Another count, another state of a handler.
LEMMA HandlerCounted ==
    ASSUME NEW e \in HandlerType, NEW k \in Nat
    PROVE  LET s == [e EXCEPT !.kref = k]
           IN s \in HandlerType /\ s.pc = e.pc /\ s.offset = e.offset /\ s.kref = k
BY DEF HandlerType

\* A context comes to use h, or ceases to.
LEMMA UsersChange ==
    ASSUME NEW S, IsFiniteSet(S), NEW r
    PROVE  /\ Cardinality(S) \in Nat
           /\ r \notin S => /\ IsFiniteSet(S \cup {r})
                             /\ Cardinality(S \cup {r}) = Cardinality(S) + 1
           /\ r \in S => /\ IsFiniteSet(S \ {r}) /\ Cardinality(S) > 0
                         /\ Cardinality(S \ {r}) = Cardinality(S) - 1
<1>1. Cardinality(S) \in Nat /\ (Cardinality(S) = 0 <=> S = {})
    BY FS_CardinalityType, FS_EmptySet
<1>2. r \notin S => IsFiniteSet(S \cup {r}) /\ Cardinality(S \cup {r}) = Cardinality(S) + 1
    BY FS_AddElement
<1>3. r \in S => IsFiniteSet(S \ {r}) /\ Cardinality(S \ {r}) = Cardinality(S) - 1
    BY FS_RemoveElement
<1>4. QED
    BY <1>1, <1>2, <1>3

\* A step of the context of r that keeps all handlers where they are, with the references
\* to match.
LEMMA ContextStep ==
    ASSUME InboundInv, NEW r \in Request, NEW q, RequestOk(q, held[r]), q.pc # "lookup",
           request' = [request EXCEPT ![r] = q], UNCHANGED <<handlers, closed, held>>,
           handler' \in [Handler -> HandlerType],
           \A h \in Handler : /\ handler'[h].pc = handler[h].pc
                              /\ handler'[h].offset = handler[h].offset
                              /\ handler'[h].kref = handler[h].kref
                                                    + (IF Uses(q, h) THEN 1 ELSE 0)
                                                    - (IF Uses(request[r], h) THEN 1 ELSE 0)
                              /\ handler[h].pc = "absent" => ~Uses(q, h),
           grace' \in [Handler -> SUBSET Request],
           \A h \in Handler : grace[h] \ {r} \subseteq grace'[h]
    PROVE  InboundInv'
<1>1. /\ request'[r] = q /\ \A x \in Request : x # r => request'[x] = request[x]
      /\ request' \in [Request -> RequestType]
    BY DEF InboundInv, StateTyped, RequestOk
<1>2. StateTyped'
    BY <1>1 DEF InboundInv, StateTyped
<1>3. ListShape'
    BY DEF InboundInv, ListShape, In, Once
<1>4. ReadersWaitedFor'
  <2> SUFFICES ASSUME NEW x \in Request, NEW h \in Handler,
                      request'[x].pc = "lookup", In(h, request'[x].todo)
               PROVE  handler'[h].pc = "listed" \/ (handler'[h].pc = "unlinked" /\ x \in grace'[h])
      BY DEF ReadersWaitedFor, In
  <2>1. x # r /\ request'[x] = request[x]
      BY <1>1
  <2>2. handler[h].pc = "listed" \/ (handler[h].pc = "unlinked" /\ x \in grace[h])
      BY <2>1 DEF InboundInv, ReadersWaitedFor
  <2>3. x \in grace[h] => x \in grace'[h]
      BY <2>1
  <2>4. QED
      BY <2>2, <2>3
<1>5. KrefShape'
  <2> SUFFICES ASSUME NEW h \in Handler
               PROVE  /\ IsFiniteSet(InUse(h)')
                      /\ handler'[h].kref =
                            Cardinality(InUse(h)')
                            + (IF handler'[h].pc \in {"listed", "unlinked"} THEN 1 ELSE 0)
                      /\ handler'[h].pc = "absent" => handler'[h].kref = 0
      BY DEF KrefShape
  <2> DEFINE S == InUse(h)
             T == InUse(h)'
  <2>1. S = {x \in Request : Uses(request[x], h)} /\ T = {x \in Request : Uses(request'[x], h)}
      BY UseIs
  <2>2. /\ IsFiniteSet(S)
        /\ handler[h].kref = Cardinality(S)
                             + (IF handler[h].pc \in {"listed", "unlinked"} THEN 1 ELSE 0)
        /\ handler[h].pc = "absent" => handler[h].kref = 0
      BY DEF InboundInv, KrefShape
  <2>3. /\ handler'[h].pc = handler[h].pc
        /\ handler'[h].kref = handler[h].kref + (IF Uses(q, h) THEN 1 ELSE 0)
                              - (IF Uses(request[r], h) THEN 1 ELSE 0)
        /\ handler[h].pc = "absent" => ~Uses(q, h)
      OBVIOUS
  <2>0. handler[h].kref \in Nat
      BY DEF InboundInv, StateTyped, HandlerType
  <2> HIDE DEF S, T
  <2>4. CASE Uses(q, h) /\ ~Uses(request[r], h)
    <3>1. T = S \cup {r} /\ r \notin S
        BY <1>1, <2>1, <2>4
    <3>2. Cardinality(S) \in Nat /\ IsFiniteSet(T) /\ Cardinality(T) = Cardinality(S) + 1
        BY <2>2, <3>1, UsersChange
    <3>3. handler'[h].kref = handler[h].kref + 1 /\ handler[h].pc # "absent"
        BY <2>0, <2>3, <2>4
    <3>4. QED
        BY <2>2, <2>3, <3>2, <3>3 DEF T
  <2>5. CASE ~Uses(q, h) /\ Uses(request[r], h)
    <3>1. T = S \ {r} /\ r \in S
        BY <1>1, <2>1, <2>5
    <3>2. /\ Cardinality(S) \in Nat /\ Cardinality(S) > 0
          /\ IsFiniteSet(T) /\ Cardinality(T) = Cardinality(S) - 1
        BY <2>2, <3>1, UsersChange
    <3>3. handler'[h].kref = handler[h].kref - 1 /\ handler[h].pc # "absent"
        BY <2>0, <2>2, <2>3, <2>5, <3>2
    <3>4. QED
        BY <2>2, <2>3, <3>2, <3>3 DEF T
  <2>6. CASE Uses(q, h) <=> Uses(request[r], h)
    <3>1. T = S
        BY <1>1, <2>1, <2>6
    <3>2. handler'[h].kref = handler[h].kref
        BY <2>0, <2>3, <2>6
    <3>3. QED
        BY <2>2, <2>3, <3>1, <3>2 DEF S, T
  <2>7. QED
      BY <2>4, <2>5, <2>6
<1>6. Exclusive'
    BY DEF InboundInv, Exclusive, Overlap
<1>7. RequestsOk'
    BY <1>1 DEF InboundInv, RequestsOk
<1>8. QED
    BY <1>2, <1>3, <1>4, <1>5, <1>6, <1>7 DEF InboundInv

LEMMA LookupStep ==
    ASSUME InboundInv, NEW r \in Request, Lookup(r)
    PROVE  InboundInv'
<1> DEFINE p == request[r]
<1>1. PICK f \in Found(r) :
        /\ handler' = [h \in Handler |-> [handler[h] EXCEPT !.kref = Referenced(f, h)]]
        /\ request' = [request EXCEPT ![r] = Delivered(request[r], f)]
    BY DEF Lookup
<1> DEFINE q == Delivered(p, f)
<1>2. /\ f \in Seq(Handler) /\ Once(f) /\ (~QFcp(p) => Len(f) <= 1)
      /\ \A h : In(h, f) => In(h, p.todo)
    BY FoundOk
<1>3. p.pc = "lookup" /\ p \in RequestType /\ p.kref > 0 /\ RequestOk(p, held[r])
    BY OfRequest, Alone DEF Lookup, Busy
<1>4. RequestOk(q, held[r])
    BY <1>2, <1>3, DeliveredOk
<1>5. q.pc = (IF f = <<>> THEN "done" ELSE "running") /\ q.todo = f
  <2>1. CASE f = <<>>
    <3> DEFINE d == [p EXCEPT !.todo = f, !.pc = "done"]
    <3>1. d \in RequestType /\ d.pc = "done" /\ d.todo = f /\ d.kref = p.kref
        BY <1>2, <1>3 DEF RequestType
    <3> HIDE DEF d
    <3>2. Send(d).pc = "done" /\ Send(d).todo = f
        BY <1>3, <3>1, Sent
    <3>3. QED
        BY <2>1, <3>2 DEF Delivered, d
  <2>2. CASE f # <<>>
      BY <1>2, <1>3, <2>2 DEF Delivered, RequestType
  <2>3. QED
      BY <2>1, <2>2
<1> HIDE DEF q
<1>6. \A h \in Handler : Uses(q, h) <=> In(h, f)
    BY <1>5 DEF Uses, In
<1>7. ASSUME NEW h \in Handler
      PROVE  /\ handler'[h] \in HandlerType
             /\ handler'[h].pc = handler[h].pc
             /\ handler'[h].offset = handler[h].offset
             /\ handler'[h].kref = handler[h].kref + (IF Uses(q, h) THEN 1 ELSE 0)
                                   - (IF Uses(p, h) THEN 1 ELSE 0)
             /\ handler[h].pc = "absent" => ~Uses(q, h)
  <2> DEFINE k == Referenced(f, h)
  <2>1. handler[h] \in HandlerType /\ handler[h].kref \in Nat
      BY DEF InboundInv, StateTyped, HandlerType
  <2>2. k = handler[h].kref + (IF In(h, f) THEN 1 ELSE 0)
      BY DEF Referenced, In
  <2>3. k \in Nat
      BY <2>1, <2>2
  <2> HIDE DEF k
  <2>4. handler'[h] = [handler[h] EXCEPT !.kref = k]
      BY <1>1 DEF k
  <2>5. ~Uses(p, h)
      BY <1>3 DEF Uses
  <2>6. In(h, f) => handler[h].pc # "absent"
      BY <1>2, <1>3 DEF InboundInv, ReadersWaitedFor
  <2>7. /\ handler'[h] \in HandlerType /\ handler'[h].pc = handler[h].pc
        /\ handler'[h].offset = handler[h].offset /\ handler'[h].kref = k
      BY <2>1, <2>3, <2>4, HandlerCounted
  <2>8. handler'[h].kref = handler[h].kref + (IF Uses(q, h) THEN 1 ELSE 0)
                                   - (IF Uses(p, h) THEN 1 ELSE 0)
      BY <1>6, <2>1, <2>2, <2>5, <2>7
  <2>9. QED
      BY <1>6, <2>6, <2>7, <2>8
<1>8. handler' \in [Handler -> HandlerType]
    BY <1>1, <1>7
<1>9. /\ grace' \in [Handler -> SUBSET Request] /\ \A h \in Handler : grace[h] \ {r} \subseteq grace'[h]
    BY DEF Lookup, InboundInv, StateTyped
<1>10. q.pc # "lookup"
    BY <1>5
<1>11. request' = [request EXCEPT ![r] = q] /\ UNCHANGED <<handlers, closed, held>>
    BY <1>1 DEF q, Lookup
<1>12. QED
    BY <1>4, <1>7, <1>8, <1>9, <1>10, <1>11, ContextStep

LEMMA ReturnStep ==
    ASSUME InboundInv, NEW r \in Request, Return(r)
    PROVE  InboundInv'
<1> DEFINE p == request[r]
           rest == Tail(p.todo)
           g == Head(p.todo)
           q == NextHandler(p, rest, Fcp(r))
<1>1. /\ p.pc = "returning" /\ p \in RequestType /\ RequestOk(p, held[r])
      /\ p.todo \in Seq(Handler) /\ p.todo # <<>> /\ Once(p.todo)
    BY OfRequest DEF Return, RequestOk, TodoOk, RequestType
<1>2. RequestOk(q, held[r])
    BY <1>1, OfRequest, NextOk
<1>3. /\ rest \in Seq(Handler) /\ g \in Handler
      /\ \A h : In(h, p.todo) <=> In(h, rest) \/ h = g
      /\ ~In(g, rest)
  <2>1. /\ rest \in Seq(Handler) /\ g = p.todo[1] /\ Len(p.todo) \in Nat /\ Len(p.todo) >= 1
        /\ DOMAIN p.todo = 1 .. Len(p.todo) /\ DOMAIN rest = 1 .. (Len(p.todo) - 1)
        /\ \A i \in DOMAIN rest : rest[i] = p.todo[i + 1]
        /\ \A i \in DOMAIN p.todo : p.todo[i] \in Handler
      BY <1>1
  <2> HIDE DEF rest, g
  <2>2. ~In(g, rest)
    <3>1. \A i \in DOMAIN rest : i + 1 \in DOMAIN p.todo /\ 1 \in DOMAIN p.todo /\ i + 1 # 1
        BY <2>1
    <3>2. \A i \in DOMAIN rest : rest[i] # g
        BY <1>1, <2>1, <3>1 DEF Once
    <3>3. QED
        BY <3>2 DEF In
  <2>3. ASSUME NEW h, In(h, p.todo) PROVE In(h, rest) \/ h = g
    <3>1. PICK i \in DOMAIN p.todo : p.todo[i] = h
        BY <2>3 DEF In
    <3>2. CASE i = 1
        BY <2>1, <3>1, <3>2
    <3>3. CASE i # 1
      <4>1. i - 1 \in DOMAIN rest /\ rest[i - 1] = h
          BY <2>1, <3>1, <3>3
      <4>2. QED
          BY <4>1 DEF In
    <3>4. QED
        BY <3>2, <3>3
  <2>4. ASSUME NEW h, In(h, rest) \/ h = g PROVE In(h, p.todo)
      BY <2>1, <2>4 DEF In
  <2>5. QED
      BY <2>1, <2>2, <2>3, <2>4
<1> HIDE DEF rest, g
<1>4. q.todo = rest /\ q.pc \in {"running", "done"} /\ (q.pc = "running" <=> rest # <<>>)
  <2>1. CASE rest # <<>>
    <3> DEFINE u == [p EXCEPT !.todo = rest, !.pc = "running"]
    <3>1. u.pc = "running" /\ u.todo = rest
        BY <1>1, <1>3 DEF RequestType
    <3>2. q = u
        BY <2>1 DEF NextHandler
    <3> HIDE DEF u, q
    <3>3. QED
        BY <2>1, <3>1, <3>2
  <2>2. CASE rest = <<>>
    <3> DEFINE d == [p EXCEPT !.todo = rest, !.pc = "done"]
    <3>1. d \in RequestType /\ d.pc = "done" /\ d.todo = rest /\ d.kref = p.kref
        BY <1>1, <1>3 DEF RequestType
    <3> HIDE DEF d
    <3>2. Fcp(r) => p.kref > 0
        BY <1>1, OfRequest, Alone DEF Busy
    <3>3. Fcp(r) => Send(d).pc = "done" /\ Send(d).todo = rest
        BY <3>1, <3>2, Sent
    <3>4. q = IF Fcp(r) THEN Send(d) ELSE d
        BY <2>2 DEF NextHandler, d
    <3>5. QED
        BY <2>2, <3>1, <3>3, <3>4
  <2>3. QED
      BY <2>1, <2>2
<1> HIDE DEF q
<1>5. \A h \in Handler : Uses(q, h) <=> In(h, rest)
    BY <1>4 DEF Uses, In
<1>6. \A h \in Handler : Uses(p, h) <=> In(h, rest) \/ h = g
    BY <1>1, <1>3 DEF Uses
<1>7. r \in InUse(g) /\ handler[g] \in HandlerType /\ handler[g].kref > 0
  <2>1. r \in InUse(g)
      BY <1>3, <1>6, UseIs
  <2>2. handler[g] \in HandlerType
      BY <1>3 DEF InboundInv, StateTyped
  <2>3. Cardinality(InUse(g)) \in Nat /\ Cardinality(InUse(g)) > 0
      BY <1>3, <2>1, UsersChange DEF InboundInv, KrefShape
  <2>4. QED
      BY <1>3, <2>1, <2>2, <2>3 DEF InboundInv, KrefShape
<1> DEFINE k == handler[g].kref - 1
<1>8. k \in Nat
    BY <1>7 DEF HandlerType
<1>9. handler' = [handler EXCEPT ![g] = [handler[g] EXCEPT !.kref = k]]
    BY DEF Return, g
<1> HIDE DEF k
<1>10. handler' \in [Handler -> HandlerType]
    BY <1>3, <1>7, <1>8, <1>9, HandlerCounted DEF InboundInv, StateTyped
<1>11. ASSUME NEW h \in Handler
       PROVE  /\ handler'[h].pc = handler[h].pc
              /\ handler'[h].offset = handler[h].offset
              /\ handler'[h].kref = handler[h].kref + (IF Uses(q, h) THEN 1 ELSE 0)
                                    - (IF Uses(p, h) THEN 1 ELSE 0)
              /\ handler[h].pc = "absent" => ~Uses(q, h)
  <2>1. handler[h] \in HandlerType /\ handler[h].kref \in Nat
      BY DEF InboundInv, StateTyped, HandlerType
  <2>2. CASE h = g
    <3>1. handler'[h] = [handler[g] EXCEPT !.kref = k]
        BY <1>9, <2>2 DEF InboundInv, StateTyped
    <3>2. handler'[h].pc = handler[h].pc /\ handler'[h].offset = handler[h].offset
          /\ handler'[h].kref = k
        BY <1>7, <1>8, <2>2, <3>1, HandlerCounted
    <3>3. ~Uses(q, h) /\ Uses(p, h)
        BY <1>3, <1>5, <1>6, <2>2
    <3>4. QED
        BY <2>1, <2>2, <3>2, <3>3 DEF k
  <2>3. CASE h # g
    <3>1. handler'[h] = handler[h] /\ (Uses(q, h) <=> Uses(p, h))
        BY <1>5, <1>6, <1>9, <2>3 DEF InboundInv, StateTyped
    <3>2. handler[h].pc = "absent" => ~Uses(p, h)
      <4>1. ASSUME Uses(p, h) PROVE handler[h].pc # "absent"
        <5>1. r \in InUse(h)
            BY <4>1, UseIs
        <5>2. Cardinality(InUse(h)) > 0 /\ Cardinality(InUse(h)) \in Nat
            BY <5>1, UsersChange DEF InboundInv, KrefShape
        <5>3. QED
            BY <5>2 DEF InboundInv, KrefShape
      <4>2. QED
          BY <4>1
    <3>3. QED
        BY <2>1, <3>1, <3>2
  <2>4. QED
      BY <2>2, <2>3
<1>12. grace' \in [Handler -> SUBSET Request] /\ \A h \in Handler : grace[h] \ {r} \subseteq grace'[h]
    BY DEF Return, InboundInv, StateTyped
<1>13. request' = [request EXCEPT ![r] = q] /\ UNCHANGED <<handlers, closed, held>> /\ q.pc # "lookup"
    BY <1>4 DEF q, Return, rest
<1>14. QED
    BY <1>2, <1>10, <1>11, <1>12, <1>13, ContextStep

-----------------------------------------------------------------------------
(* Steps that add and remove handlers.                                      *)

\* Only handler h changes.  If it is listed afterwards, it is exclusive; its reference
\* count follows its state; and nobody comes upon it who is not waited for.
LEMMA HandlerStep ==
    ASSUME InboundInv, NEW h \in Handler, NEW e \in HandlerType,
           handler' = [handler EXCEPT ![h] = e], UNCHANGED <<closed, request, held>>,
           handlers' \in Seq(Handler), Once(handlers'),
           \A g \in Handler : g # h => (In(g, handlers') <=> In(g, handlers)),
           In(h, handlers') <=> e.pc = "listed",
           grace' \in [Handler -> SUBSET Request], \A g \in Handler : g # h => grace'[g] = grace[g],
           \A r \in Request : /\ request[r].pc = "lookup" /\ In(h, request[r].todo)
                              => e.pc = "listed" \/ (e.pc = "unlinked" /\ r \in grace'[h]),
           e.kref = Cardinality(InUse(h)) + (IF e.pc \in {"listed", "unlinked"} THEN 1 ELSE 0),
           e.pc = "absent" => e.kref = 0,
           e.pc = "listed" /\ ~InFcp(e.offset, Region[h].length)
               => \A g \in Handler : handler[g].pc = "listed" /\ g # h
                                       => ~Overlap(g, e.offset, Region[h].length)
    PROVE  InboundInv'
<1>1. /\ handler'[h] = e /\ \A g \in Handler : g # h => handler'[g] = handler[g]
      /\ handler' \in [Handler -> HandlerType]
    BY DEF InboundInv, StateTyped
<1>2. StateTyped'
    BY <1>1 DEF InboundInv, StateTyped
<1>3. ListShape'
  <2>1. \A g \in Handler : In(g, handlers') <=> handler'[g].pc = "listed"
      BY <1>1 DEF InboundInv, ListShape
  <2>2. QED
      BY <2>1 DEF ListShape, Once, In
<1>4. ReadersWaitedFor'
  <2> SUFFICES ASSUME NEW r \in Request, NEW g \in Handler,
                      request[r].pc = "lookup", In(g, request[r].todo)
               PROVE  handler'[g].pc = "listed" \/ (handler'[g].pc = "unlinked" /\ r \in grace'[g])
      BY DEF ReadersWaitedFor, In
  <2>1. CASE g = h
      BY <1>1, <2>1
  <2>2. CASE g # h
      BY <1>1, <2>2 DEF InboundInv, ReadersWaitedFor
  <2>3. QED
      BY <2>1, <2>2
<1>5. KrefShape'
  <2> SUFFICES ASSUME NEW g \in Handler
               PROVE  /\ IsFiniteSet(InUse(g)')
                      /\ handler'[g].kref =
                            Cardinality(InUse(g)')
                            + (IF handler'[g].pc \in {"listed", "unlinked"} THEN 1 ELSE 0)
                      /\ handler'[g].pc = "absent" => handler'[g].kref = 0
      BY DEF KrefShape
  <2>1. InUse(g)' = InUse(g)
      BY DEF InUse
  <2>2. IsFiniteSet(InUse(g))
      BY DEF InboundInv, KrefShape
  <2>3. CASE g = h
      BY <1>1, <2>1, <2>2, <2>3
  <2>4. CASE g # h
      BY <1>1, <2>1, <2>4 DEF InboundInv, KrefShape
  <2>5. QED
      BY <2>3, <2>4
<1>6. Exclusive'
  <2> SUFFICES ASSUME NEW x \in Handler, NEW y \in Handler, x # y,
                      handler'[x].pc = "listed", handler'[y].pc = "listed",
                      ~InFcp(handler'[x].offset, Region[x].length),
                      ~InFcp(handler'[y].offset, Region[y].length),
                      handler'[x].offset < handler'[y].offset + Region[y].length,
                      handler'[y].offset < handler'[x].offset + Region[x].length
               PROVE  FALSE
      BY DEF Exclusive, Overlap, InFcp
  <2>1. CASE x = h
      BY <1>1, <2>1 DEF Overlap
  <2>2. CASE y = h
      BY <1>1, <2>2 DEF Overlap
  <2>3. CASE x # h /\ y # h
      BY <1>1, <2>3 DEF InboundInv, Exclusive, Overlap
  <2>4. QED
      BY <2>1, <2>2, <2>3
<1>7. RequestsOk'
    BY DEF InboundInv, RequestsOk, RequestOk, RequestType, TodoOk, CountOk
<1>8. QED
    BY <1>2, <1>3, <1>4, <1>5, <1>6, <1>7 DEF InboundInv

LEMMA AddStep ==
    ASSUME InboundInv, NEW h \in Handler, Add(h)
    PROVE  InboundInv'
<1>1. PICK o \in Searched(h) :
        /\ ~Blocked(h, o)
        /\ handler' = [handler EXCEPT ![h] = [pc |-> "listed", offset |-> o, kref |-> 1]]
    BY DEF Add
<1> DEFINE e == [pc |-> "listed", offset |-> o, kref |-> 1]
<1>2. o \in Nat
    BY InboundAssumption DEF Searched, Offsets
<1>3. e \in HandlerType /\ e.pc = "listed" /\ e.offset = o /\ e.kref = 1
    BY <1>2 DEF HandlerType
<1>4. handlers' = Append(handlers, h) /\ UNCHANGED <<closed, request, held, grace>>
      /\ handler[h].pc = "absent"
    BY DEF Add
<1>5. /\ handlers' \in Seq(Handler) /\ Once(handlers')
      /\ \A x : In(x, handlers') <=> In(x, handlers) \/ x = h
    BY <1>4, Appended DEF InboundInv, StateTyped, ListShape
<1>6. Cardinality(InUse(h)) = 0
  <2>1. IsFiniteSet(InUse(h)) /\ handler[h].kref = 0
        /\ handler[h].kref = Cardinality(InUse(h)) + 0
      BY <1>4 DEF InboundInv, KrefShape
  <2>2. Cardinality(InUse(h)) \in Nat
      BY <2>1, FS_CardinalityType
  <2>3. QED
      BY <2>1, <2>2
<1>7. ~InFcp(o, Region[h].length)
      => \A g \in Handler : handler[g].pc = "listed" => ~Overlap(g, o, Region[h].length)
  <2> SUFFICES ASSUME ~InFcp(o, Region[h].length), NEW g \in Handler, handler[g].pc = "listed",
                      Overlap(g, o, Region[h].length)
               PROVE  FALSE
      OBVIOUS
  <2>1. PICK i \in DOMAIN handlers : handlers[i] = g
      BY DEF InboundInv, ListShape, In
  <2>2. Overlapping(o, Region[h].length) = {}
      BY <1>1 DEF Blocked
  <2>3. {j \in DOMAIN handlers : Overlap(handlers[j], o, Region[h].length)} = {}
      BY <2>2 DEF Overlapping
  <2>4. QED
      BY <2>1, <2>3
<1>8. \A r \in Request : ~(request[r].pc = "lookup" /\ In(h, request[r].todo))
    BY <1>4 DEF InboundInv, ReadersWaitedFor
<1>9. grace \in [Handler -> SUBSET Request] /\ grace' = grace
    BY <1>4 DEF InboundInv, StateTyped
<1>10. handler' = [handler EXCEPT ![h] = e]
    BY <1>1
<1> HIDE DEF e
<1>11. e.kref = Cardinality(InUse(h)) + (IF e.pc \in {"listed", "unlinked"} THEN 1 ELSE 0)
    BY <1>3, <1>6
<1>12. QED
    BY <1>3, <1>4, <1>5, <1>7, <1>8, <1>9, <1>10, <1>11, HandlerStep

LEMMA UnlinkStep ==
    ASSUME InboundInv, NEW h \in Handler, Unlink(h)
    PROVE  InboundInv'
<1> DEFINE e == [handler[h] EXCEPT !.pc = "unlinked"]
<1>1. /\ handler[h] \in HandlerType /\ handler[h].pc = "listed"
      /\ UNCHANGED <<closed, request, held>>
    BY DEF Unlink, InboundInv, StateTyped
<1>2. /\ e \in HandlerType /\ e.pc = "unlinked" /\ e.kref = handler[h].kref
      /\ handler' = [handler EXCEPT ![h] = e]
    BY <1>1 DEF HandlerType, Unlink
<1> HIDE DEF e
<1>3. PICK i \in DOMAIN handlers : handlers[i] = h /\ handlers' = Without(handlers, i)
    BY DEF Unlink
<1>4. /\ handlers' \in Seq(Handler) /\ Once(handlers')
      /\ \A x : In(x, handlers') <=> In(x, handlers) /\ x # h
    BY <1>3, Deleted DEF InboundInv, StateTyped, ListShape
<1>5. /\ grace' = [grace EXCEPT ![h] = Readers] /\ grace \in [Handler -> SUBSET Request]
      /\ Readers \in SUBSET Request
    BY DEF Unlink, InboundInv, StateTyped, Readers
<1>6. /\ grace' \in [Handler -> SUBSET Request] /\ \A g \in Handler : g # h => grace'[g] = grace[g]
      /\ grace'[h] = Readers
    BY <1>5
<1>7. \A r \in Request : request[r].pc = "lookup" => r \in grace'[h]
    BY <1>6 DEF Readers
<1>8. e.kref = Cardinality(InUse(h)) + (IF e.pc \in {"listed", "unlinked"} THEN 1 ELSE 0)
    BY <1>1, <1>2 DEF InboundInv, KrefShape
<1>9. QED
    BY <1>1, <1>2, <1>4, <1>6, <1>7, <1>8, HandlerStep

\* Steps of a removal that leave the list and the readers alone.
LEMMA OffListStep ==
    ASSUME InboundInv, NEW h \in Handler, NEW e \in HandlerType,
           handler' = [handler EXCEPT ![h] = e],
           UNCHANGED <<handlers, grace, closed, request, held>>,
           handler[h].pc \in {"unlinked", "waiting"}, e.pc \in {"waiting", "absent"},
           handler[h].pc = "unlinked" => grace[h] = {},
           e.kref = Cardinality(InUse(h)), e.pc = "absent" => e.kref = 0
    PROVE  InboundInv'
<1>1. /\ handlers' \in Seq(Handler) /\ Once(handlers') /\ handlers' = handlers
      /\ ~In(h, handlers')
    BY DEF InboundInv, StateTyped, ListShape
<1>2. grace' \in [Handler -> SUBSET Request] /\ grace' = grace
    BY DEF InboundInv, StateTyped
<1>3. \A r \in Request : ~(request[r].pc = "lookup" /\ In(h, request[r].todo))
    BY DEF InboundInv, ReadersWaitedFor
<1>4. Cardinality(InUse(h)) \in Nat
    BY FS_CardinalityType DEF InboundInv, KrefShape
<1>5. e.kref = Cardinality(InUse(h)) + (IF e.pc \in {"listed", "unlinked"} THEN 1 ELSE 0)
    BY <1>4
<1>6. QED
    BY <1>1, <1>2, <1>3, <1>5, HandlerStep

LEMMA PutHandlerStep ==
    ASSUME InboundInv, NEW h \in Handler, PutHandler(h)
    PROVE  InboundInv'
<1> DEFINE k == handler[h].kref - 1
           e == [handler[h] EXCEPT !.pc = "waiting", !.kref = k]
<1>1. handler[h] \in HandlerType /\ handler[h].pc = "unlinked" /\ grace[h] = {}
    BY DEF PutHandler, GraceOver, InboundInv, StateTyped
<1>2. k \in Nat /\ k = Cardinality(InUse(h))
  <2>1. IsFiniteSet(InUse(h)) /\ handler[h].kref = Cardinality(InUse(h)) + 1
      BY <1>1 DEF InboundInv, KrefShape
  <2>2. Cardinality(InUse(h)) \in Nat
      BY <2>1, FS_CardinalityType
  <2>3. QED
      BY <2>1, <2>2
<1>3. handler' = [handler EXCEPT ![h] = e]
    BY <1>1 DEF PutHandler, InboundInv, StateTyped, HandlerType
<1> HIDE DEF k
<1>4. e \in HandlerType /\ e.pc = "waiting" /\ e.kref = k
    BY <1>1, <1>2 DEF HandlerType
<1> HIDE DEF e
<1>5. UNCHANGED <<handlers, grace, closed, request, held>>
    BY DEF PutHandler
<1>6. QED
    BY <1>1, <1>2, <1>3, <1>4, <1>5, OffListStep

LEMMA RemovedStep ==
    ASSUME InboundInv, NEW h \in Handler, Removed(h)
    PROVE  InboundInv'
<1>1. handler[h].pc = "waiting" /\ handler[h].kref = 0 /\ handler' = [handler EXCEPT ![h] = Absent]
      /\ UNCHANGED <<handlers, grace, closed, request, held>>
    BY DEF Removed
<1>2. Cardinality(InUse(h)) = 0
  <2>1. IsFiniteSet(InUse(h)) /\ 0 = Cardinality(InUse(h)) + 0
      BY <1>1 DEF InboundInv, KrefShape
  <2>2. Cardinality(InUse(h)) \in Nat
      BY <2>1, FS_CardinalityType
  <2>3. QED
      BY <2>1, <2>2
<1>3. Absent \in HandlerType /\ Absent.pc = "absent" /\ Absent.kref = 0
    BY DEF Absent, HandlerType
<1>4. QED
    BY <1>1, <1>2, <1>3, OffListStep

LEMMA ClientCloseStep ==
    ASSUME InboundInv, NEW c \in Client, ClientClose(c)
    PROVE  InboundInv'
<1>1. closed' \in SUBSET Client /\ UNCHANGED <<handlers, handler, grace, request, held>>
    BY DEF ClientClose, InboundInv, StateTyped
<1>2. StateTyped'
    BY SMTT(30), <1>1 DEF InboundInv, StateTyped
<1>4. ListShape' /\ ReadersWaitedFor' /\ KrefShape'
    BY <1>1, ZenonT(30) DEF InboundInv, ListShape, ReadersWaitedFor, KrefShape, InUse
<1>5. Exclusive' /\ RequestsOk'
    BY <1>1, ZenonT(30) DEF InboundInv, Exclusive, Overlap, RequestsOk
<1>6. QED
    BY <1>2, <1>4, <1>5 DEF InboundInv

-----------------------------------------------------------------------------
LEMMA InitInv ==
    InboundInit => InboundInv
<1> SUFFICES ASSUME InboundInit PROVE InboundInv
    OBVIOUS
<1>1. \A h \in Handler : handler[h] = Absent
    BY DEF InboundInit
<1>2. Absent \in HandlerType /\ Absent.pc = "absent" /\ Absent.kref = 0
    BY DEF Absent, HandlerType
<1>3. \A r \in Request : request[r] = NoRequest /\ held[r] = {}
    BY DEF InboundInit
<1>4. RequestOk(NoRequest, {}) /\ NoRequest.pc = "none"
    BY NoneOk DEF NoRequest
<1>5. NoRequest \in RequestType
    BY <1>4 DEF RequestOk
<1>6. StateTyped
    BY <1>2, <1>5 DEF InboundInit, StateTyped
<1>7. ListShape
    BY <1>1, <1>2 DEF InboundInit, ListShape, Once, In
<1>8. ReadersWaitedFor
    BY <1>3, <1>4 DEF ReadersWaitedFor
<1>9. KrefShape
  <2> SUFFICES ASSUME NEW h \in Handler
               PROVE  IsFiniteSet(InUse(h)) /\ Cardinality(InUse(h)) = 0
      BY <1>1, <1>2 DEF KrefShape
  <2>1. InUse(h) = {}
      BY <1>3, <1>4 DEF InUse
  <2>2. QED
      BY <2>1, FS_EmptySet
<1>10. Exclusive
    BY <1>1, <1>2 DEF Exclusive
<1>11. RequestsOk
    BY <1>3, <1>4 DEF RequestsOk
<1>12. QED
    BY <1>6, <1>7, <1>8, <1>9, <1>10, <1>11 DEF InboundInv

LEMMA NextInv ==
    InboundInv /\ [InboundNext]_inboundvars => InboundInv'
<1> SUFFICES ASSUME InboundInv, [InboundNext]_inboundvars PROVE InboundInv'
    OBVIOUS
<1>1. ASSUME NEW h \in Handler, Add(h) PROVE InboundInv'
    BY <1>1, AddStep
<1>2. ASSUME NEW h \in Handler, HandlerRemoval(h) PROVE InboundInv'
    BY <1>2, UnlinkStep, PutHandlerStep, RemovedStep DEF HandlerRemoval
<1>3. ASSUME NEW r \in Request, Receive(r) \/ Drop(r) \/ ResponseDone(r) PROVE InboundInv'
    BY <1>3, ReceiveStep, DropStep, ResponseDoneStep
<1>4. ASSUME NEW r \in Request, Handling(r) PROVE InboundInv'
    BY <1>4, LookupStep, DriverCallbackStep, ClientCallbackStep, ClientCallbackFailsStep,
       ReturnStep DEF Handling
<1>5. ASSUME NEW c \in Client, ClientClose(c) PROVE InboundInv'
    BY <1>5, ClientCloseStep
<1>6. ASSUME NEW c \in Client, NEW r \in Request, ClientRespond(r, c) \/ ClientRelease(r, c)
      PROVE  InboundInv'
    BY <1>6, ClientRespondStep, ClientReleaseStep
<1>7. CASE UNCHANGED inboundvars
    BY ZenonT(30), <1>7 DEF inboundvars, InboundInv, StateTyped, ListShape, ReadersWaitedFor, KrefShape,
                InUse, Exclusive, Overlap, RequestsOk
<1>8. QED
    BY <1>1, <1>2, <1>3, <1>4, <1>5, <1>6, <1>7 DEF InboundNext

\* The invariant says what is promised of handlers and requests.
LEMMA InvExact ==
    InboundInv => HandlersAndRequestsExact
<1> SUFFICES ASSUME InboundInv PROVE HandlersAndRequestsExact
    OBVIOUS
<1>1. RegionsExclusive
    BY DEF InboundInv, StateTyped, HandlerType, RequestType, Exclusive, RegionsExclusive,
       InboundTypeOK
<1>2. HandlerOutlivesCallbacks
  <2>1. HandlerKref
      BY DEF InboundInv, KrefShape, HandlerKref
  <2>2. ASSUME NEW h \in Handler, handler[h].pc = "absent" PROVE InUse(h) = {}
    <3>1. IsFiniteSet(InUse(h)) /\ 0 = Cardinality(InUse(h)) + 0
        BY <2>2 DEF InboundInv, KrefShape
    <3>2. Cardinality(InUse(h)) \in Nat
        BY <3>1, FS_CardinalityType
    <3>3. Cardinality(InUse(h)) = 0
        BY <3>1, <3>2
    <3>4. QED
        BY <3>1, <3>3, FS_EmptySet
  <2>3. QED
      BY <2>1, <2>2 DEF HandlerOutlivesCallbacks, NoCallbackAfterRemoval
<1>3. RequestFreedInTime
  <2> SUFFICES ASSUME NEW r \in Request, request[r].pc # "none"
               PROVE  request[r].kref > 0 <=> Touches(r)
      BY DEF RequestFreedInTime
  <2>1. Touches(r) <=> Busy(request[r]) \/ held[r] # {} \/ request[r].inflight
      BY OfRequest DEF Touches, Busy
  <2>2. request[r].kref > 0 <=> Busy(request[r]) \/ held[r] # {} \/ request[r].inflight
      BY OfRequest, Alone DEF RequestOk, CountOk
  <2>3. QED
      BY <2>1, <2>2
<1>4. AnsweredOnce
    BY OfRequest DEF AnsweredOnce, RequestOk, CountOk
<1>5. QED
    BY <1>1, <1>2, <1>3, <1>4 DEF HandlersAndRequestsExact

\* However removals, callbacks, answers and closes interleave, on any number of cards: a
\* handler is kept as long as a callback may run, and none runs when its removal has
\* returned; a request is freed when nobody touches it any more and not before, and is
\* answered at most once; and regions outside of the FCP registers are exclusive.
THEOREM HandlersAndRequestsCorrect ==
    InboundSpec => []HandlersAndRequestsExact
<1>1. InboundSpec => []InboundInv
    BY InitInv, NextInv, PTL DEF InboundSpec
<1>2. QED
    BY <1>1, InvExact, PTL

-----------------------------------------------------------------------------
(* Clients: the inductive invariant of FwCdevEvents.                        *)

\* Types, but for the bound of the reference count.
CdevShape ==
  /\ cl \in ClientType /\ evs \in Seq(CdevEvent) /\ cth \in [CdevThread -> ThreadType]
  /\ outb \in [Outbound -> OutType] /\ hnd \in [CdevHandle -> {"none", "added", "listed", "erased"}]
  /\ iso \in IsoType /\ dv \in DeviceType /\ seen \in SeenType

\* Each operation has one event, which is queued between its end and its last step.
EventsInv ==
  \A o \in Outbound :
    /\ \A m, n \in 1..Len(evs) : evs[m].of = o /\ evs[n].of = o => m = n
    /\ \A m \in 1..Len(evs) : evs[m].of = o => o \in seen.events
    /\ o \in seen.events => outb[o].pc \in {"queued", "done"}
    /\ outb[o].pc \in {"queued", "done"} /\ ~cl.in_shutdown => o \in seen.events

NewsInv == cl.listed /\ ~dv.update => seen.gen = dv.gen \/ seen.nomem > 0

\* Who could wake a reader that sleeps has nothing to tell, or is yet to come.
SleepInv ==
  \A t \in CdevThread :
    cth[t].pc = "sleeps" => evs = <<>> /\ (dv.st = "running" \/ dv.remove \/ "unlisted" \in seen.odd)

\* A handle that is neither free nor listed is in the hands of one thread.
HandleInv ==
  /\ \A h \in CdevHandle : hnd[h] \in {"added", "erased"} =>
       \E t \in CdevThread : cth[t].obj = h /\ cth[t].pc \in {"adds", "releases"}
  /\ \A t \in CdevThread :
       /\ cth[t].pc = "adds" => cth[t].obj \in CdevHandle /\ hnd[cth[t].obj] = "added"
       /\ cth[t].pc = "releases" => cth[t].obj \in CdevHandle /\ hnd[cth[t].obj] = "erased"
       /\ \A u \in CdevThread : /\ cth[t].pc \in {"adds", "releases"} /\ cth[u].pc \in {"adds", "releases"}
                                /\ cth[t].obj = cth[u].obj
                                => t = u

\* What each step of the release has put an end to.
ReleaseInv ==
  /\ cl.in_shutdown <=> cl.pc \in {"waits", "closed"}
  /\ cl.pc # "open" => (\A t \in CdevThread : cth[t] = Resting) /\ ~cl.phy
  /\ cl.pc = "none" => /\ \A o \in Outbound : outb[o] = NoOut
                       /\ \A h \in CdevHandle : hnd[h] = "none"
  /\ cl.listed => cl.pc \in {"open", "unlist"}
  /\ cl.pc \in {"shut", "waits", "closed"} => iso.ctx = "none" /\ ~iso.pages /\ iso.maps = 0
  /\ cl.pc = "closed" => /\ evs = <<>> /\ ~Pending("sent")
                         /\ \A h \in CdevHandle : hnd[h] = "none"

MapsInv == iso.maps \in {0, 1}

ClientShape ==
  CdevShape /\ EventsInv /\ NewsInv /\ SleepInv /\ HandleInv /\ ReleaseInv /\ MapsInv

ClientInv == CdevSane => ClientShape /\ cl.kref = Holders

-----------------------------------------------------------------------------
(* What a step that is not about a part of the invariant leaves of it.      *)

Grown ==
  /\ seen'.events = seen.events /\ seen.odd \subseteq seen'.odd
  /\ cl.in_shutdown => cl'.in_shutdown

LEMMA EventsKept ==
    ASSUME CdevShape, EventsInv, Grown,
           \A o \in Outbound : outb'[o].pc \in {"queued", "done"} <=> outb[o].pc \in {"queued", "done"},
           evs' = evs \/ evs' = <<>> \/ (evs # <<>> /\ evs' = Tail(evs))
             \/ \E e : e.of \notin Outbound /\ evs' = Append(evs, e)
    PROVE  EventsInv'
<1>1. CASE evs' = evs
    BY <1>1 DEF EventsInv, Grown
<1>2. CASE evs' = <<>>
    BY <1>2 DEF EventsInv, Grown
<1>3. CASE evs # <<>> /\ evs' = Tail(evs)
  <2>1. /\ Len(evs) \in Nat /\ Len(evs') = Len(evs) - 1
        /\ \A m \in 1..Len(evs') : evs'[m] = evs[m + 1] /\ m + 1 \in 1..Len(evs)
      BY <1>3 DEF CdevShape
  <2>2. QED
      BY <2>1 DEF EventsInv, Grown
<1>4. ASSUME NEW e, e.of \notin Outbound, evs' = Append(evs, e)
      PROVE  EventsInv'
  <2>1. /\ Len(evs) \in Nat /\ Len(evs') = Len(evs) + 1
        /\ \A m \in 1..Len(evs) : evs'[m] = evs[m]
        /\ evs'[Len(evs) + 1] = e
      BY <1>4 DEF CdevShape
  <2>2. \A m \in 1..Len(evs'), o \in Outbound : evs'[m].of = o => m \in 1..Len(evs) /\ evs[m].of = o
      BY <1>4, <2>1
  <2>4. \A o \in Outbound, m, n \in 1..Len(evs') : evs'[m].of = o /\ evs'[n].of = o => m = n
      BY <2>2 DEF EventsInv
  <2>5. \A o \in Outbound, m \in 1..Len(evs') : evs'[m].of = o => o \in seen.events
      BY <2>2 DEF EventsInv
  <2>6. QED
      BY <2>4, <2>5 DEF EventsInv, Grown
<1>5. QED
    BY <1>1, <1>2, <1>3, <1>4

LEMMA Calm ==
    ASSUME CdevShape, EventsInv, SleepInv, HandleInv, Grown,
           UNCHANGED <<evs, cth, outb, hnd>>, dv' = dv \/ dv'.st = "running" \/ dv'.remove
    PROVE  EventsInv' /\ SleepInv' /\ HandleInv'
<1>1. EventsInv'
    BY EventsKept
<1>2. SleepInv' /\ HandleInv'
    BY DEF SleepInv, HandleInv, Grown
<1>3. QED
    BY <1>1, <1>2

LEMMA OneMoves ==
    ASSUME CdevShape, EventsInv, SleepInv, HandleInv, Grown, NEW t \in CdevThread, NEW x \in ThreadType,
           cth' = [cth EXCEPT ![t] = x], UNCHANGED <<evs, outb, hnd, dv>>,
           cth[t].pc \notin {"adds", "releases"}, x.pc \notin {"adds", "releases"},
           x.pc = "sleeps" => evs = <<>> /\ dv.st = "running"
    PROVE  cth' \in [CdevThread -> ThreadType] /\ EventsInv' /\ SleepInv' /\ HandleInv'
<1>1. EventsInv'
    BY EventsKept
<1>2. cth' \in [CdevThread -> ThreadType] /\ cth'[t] = x /\ \A u \in CdevThread \ {t} : cth'[u] = cth[u]
    BY DEF CdevShape
<1>3. SleepInv'
    BY <1>2 DEF SleepInv, Grown
<1>4. HandleInv'
    BY <1>2 DEF HandleInv
<1>5. QED
    BY <1>1, <1>2, <1>3, <1>4

\* wake_up_interruptible()
LEMMA AwakeKeeps ==
    ASSUME CdevShape, HandleInv, cth' = Awake, hnd' = hnd
    PROVE  /\ cth' \in [CdevThread -> ThreadType] /\ SleepInv' /\ HandleInv'
           /\ \A t \in CdevThread : cth[t] = Resting => cth'[t] = Resting
<1>1. \A t \in CdevThread : cth'[t] = IF cth[t].pc = "sleeps" THEN [cth[t] EXCEPT !.pc = "checks"] ELSE cth[t]
    BY DEF Awake
<1>2. \A t \in CdevThread : cth[t] \in ThreadType
    BY DEF CdevShape
<1>3. \A t \in CdevThread : cth'[t] \in ThreadType
    BY <1>1, <1>2 DEF ThreadType
<1>4. cth' \in [CdevThread -> ThreadType]
    BY <1>3 DEF Awake
<1>5. \A t \in CdevThread : /\ cth'[t].pc # "sleeps" /\ cth'[t].obj = cth[t].obj
                            /\ cth'[t].pc \in {"adds", "releases"} \/ cth[t].pc \in {"adds", "releases"}
                                 => cth'[t].pc = cth[t].pc
    BY <1>1, <1>2 DEF ThreadType
<1>6. SleepInv'
    BY <1>5 DEF SleepInv
<1>7. HandleInv'
    BY <1>5 DEF HandleInv
<1>8. ASSUME NEW t \in CdevThread, cth[t] = Resting
      PROVE  cth'[t] = Resting
  <2>1. cth[t].pc # "sleeps"
      BY <1>8 DEF Resting
  <2>2. QED
      BY <1>1, <1>8, <2>1
<1>9. QED
    BY <1>4, <1>6, <1>7, <1>8

LEMMA QueueKeeps ==
    ASSUME ClientShape, NEW e \in CdevEvent, queue_event(e), hnd' = hnd
    PROVE  /\ evs' \in Seq(CdevEvent) /\ cth' \in [CdevThread -> ThreadType] /\ SleepInv' /\ HandleInv'
           /\ \A t \in CdevThread : cth[t] = Resting => cth'[t] = Resting
           /\ evs' = evs \/ (evs' = Append(evs, e) /\ ~cl.in_shutdown)
<1>1. evs' \in Seq(CdevEvent) /\ (evs' = evs \/ (evs' = Append(evs, e) /\ ~cl.in_shutdown))
    BY DEF queue_event, ClientShape, CdevShape
<1>2. cth' = Awake
    BY DEF queue_event
<1>3. QED
    BY <1>1, <1>2, AwakeKeeps DEF ClientShape

-----------------------------------------------------------------------------
(* References.                                                              *)
LEMMA HoldersAreFew ==
    ASSUME NEW O \in SUBSET Outbound, NEW H \in SUBSET CdevHandle
    PROVE  /\ IsFiniteSet(O) /\ IsFiniteSet(H) /\ Cardinality(O) \in Nat /\ Cardinality(H) \in Nat
           /\ Cardinality(Outbound) \in Nat /\ Cardinality(CdevHandle) \in Nat
           /\ Cardinality(O) <= Cardinality(Outbound) /\ Cardinality(H) <= Cardinality(CdevHandle)
BY CdevAssumption, FS_Subset, FS_CardinalityType

LEMMA HolderComes ==
    ASSUME NEW S, NEW T, NEW x, IsFiniteSet(S), x \notin S, T = S \cup {x}
    PROVE  Cardinality(T) = Cardinality(S) + 1 /\ Cardinality(S) \in Nat
BY FS_AddElement, FS_CardinalityType

LEMMA HolderGoes ==
    ASSUME NEW S, NEW T, NEW x, IsFiniteSet(S), x \in S, T = S \ {x}
    PROVE  Cardinality(T) = Cardinality(S) - 1 /\ Cardinality(S) \in Nat /\ Cardinality(T) \in Nat
BY FS_RemoveElement, FS_CardinalityType, FS_Subset

\* The reference count of the next state, from the change of the holders.
LEMMA Counted ==
    ASSUME cl.kref = Holders, cl'.kref = Holders'
    PROVE  cl'.kref \in Nat /\ cl'.kref <= 1 + Cardinality(Outbound) + Cardinality(CdevHandle)
<1> DEFINE N == Cardinality(OutHolds')
           M == Cardinality(HandleHolds')
           F == IF cl'.pc \in {"none", "closed"} THEN 0 ELSE 1
<1>1. OutHolds' \in SUBSET Outbound /\ HandleHolds' \in SUBSET CdevHandle
    BY DEF OutHolds, HandleHolds
<1>2. /\ N \in Nat /\ M \in Nat /\ Cardinality(Outbound) \in Nat /\ Cardinality(CdevHandle) \in Nat
      /\ N <= Cardinality(Outbound) /\ M <= Cardinality(CdevHandle)
    BY <1>1, HoldersAreFew
<1>3. cl'.kref = N + M + F
    BY DEF Holders
<1>4. F \in {0, 1}
    OBVIOUS
<1> HIDE DEF N, M, F
<1>5. QED
    BY <1>2, <1>3, <1>4

Now == ClientShape /\ cl.kref = Holders

LEMMA WhileOpen ==
    ASSUME cl'.pc = "open", ~cl'.in_shutdown
    PROVE  ReleaseInv'
BY DEF ReleaseInv

LEMMA BusyMeansOpen ==
    ASSUME Now, NEW t \in CdevThread, cth[t].pc # "idle"
    PROVE  cl.pc = "open"
BY DEF Now, ClientShape, ReleaseInv, Resting

LEMMA OpenNotShut ==
    ASSUME Now, cl.pc = "open"
    PROVE  ~cl.in_shutdown
BY DEF Now, ClientShape, ReleaseInv, CdevShape, ClientType

LEMMA SameHolders ==
    ASSUME Now, cl'.kref = cl.kref, UNCHANGED <<outb, hnd>>,
           cl'.pc \in {"none", "closed"} <=> cl.pc \in {"none", "closed"}
    PROVE  cl'.kref = Holders'
<1>1. OutHolds' = OutHolds /\ HandleHolds' = HandleHolds
    BY DEF OutHolds, HandleHolds
<1>2. QED
    BY <1>1 DEF Now, Holders

\* A thread that has nothing to do with handles goes from one place to another.
LEMMA ThreadStep ==
    ASSUME Now, NEW t \in CdevThread, NEW x \in ThreadType, cth' = [cth EXCEPT ![t] = x],
           UNCHANGED <<evs, outb, hnd, dv>>, Grown,
           cth[t].pc \notin {"adds", "releases"}, x.pc \notin {"adds", "releases"},
           x.pc = "sleeps" => evs = <<>> /\ dv.st = "running",
           cl.pc = "open", cl' = cl \/ (\E y : cl' = [cl EXCEPT !.phy = y]) \/ (\E y : cl' = [cl EXCEPT !.closure = y]),
           cl' \in ClientType, iso' \in IsoType, seen' \in SeenType,
           seen'.gen = seen.gen, seen'.nomem >= seen.nomem, MapsInv'
    PROVE  Now'
<1>1. cth' \in [CdevThread -> ThreadType] /\ EventsInv' /\ SleepInv' /\ HandleInv'
    BY OneMoves DEF Now, ClientShape
<1>2. /\ cl'.pc = "open" /\ cl'.in_shutdown = cl.in_shutdown /\ cl'.listed = cl.listed
      /\ cl'.kref = cl.kref
    BY DEF Now, ClientShape, CdevShape, ClientType
<1>3. ReleaseInv'
    BY <1>2, WhileOpen, OpenNotShut
<1>4. NewsInv'
    BY <1>2 DEF Now, ClientShape, CdevShape, NewsInv, SeenType
<1>5. cl'.kref = Holders'
    BY <1>2, SameHolders
<1>6. CdevShape'
    BY <1>1 DEF Now, ClientShape, CdevShape
<1>7. QED
    BY <1>1, <1>3, <1>4, <1>5, <1>6 DEF Now, ClientShape

\* A step that leaves events, threads and operations alone.
LEMMA CalmStep ==
    ASSUME Now, UNCHANGED <<evs, cth, outb, hnd>>, Grown,
           dv' = dv \/ dv'.st = "running" \/ dv'.remove,
           cl' \in ClientType, cl'.kref = cl.kref, cl'.pc \in {"none", "closed"} <=> cl.pc \in {"none", "closed"},
           iso' \in IsoType, dv' \in DeviceType, seen' \in SeenType, NewsInv', ReleaseInv', MapsInv'
    PROVE  Now'
<1>1. EventsInv' /\ SleepInv' /\ HandleInv'
    BY Calm DEF Now, ClientShape
<1>2. cl'.kref = Holders'
    BY SameHolders
<1>3. CdevShape'
    BY DEF Now, ClientShape, CdevShape
<1>4. QED
    BY <1>1, <1>2, <1>3 DEF Now, ClientShape

-----------------------------------------------------------------------------
(* The steps of the threads.                                                *)
LEMMA ThreadsKeep ==
    ASSUME Now, CdevSane, CdevSane', NEW t \in CdevThread,
           \/ fw_device_op_read(t) \/ WaitsForEvent(t) \/ ReadInterrupted(t) \/ CreatesContext(t)
           \/ fw_device_op_mmap(t) \/ ioctl_create_iso_context(t) \/ MapsBuffer(t) \/ MapsIntoProcess(t)
           \/ ioctl_receive_phy_packets(t) \/ StoresClosure(t)
    PROVE  Now'
<1> USE DEF Resting
<1>1. /\ cl \in ClientType /\ iso \in IsoType /\ seen \in SeenType /\ dv \in DeviceType
      /\ cth \in [CdevThread -> ThreadType] /\ cth[t] \in ThreadType /\ MapsInv
    BY DEF Now, ClientShape, CdevShape
<1>2. CASE fw_device_op_read(t)
  <2> DEFINE x == [op |-> "read", pc |-> "checks", obj |-> "none"]
  <2>1. x \in ThreadType /\ cth' = [cth EXCEPT ![t] = x]
      BY <1>2 DEF fw_device_op_read, Begins, ThreadType
  <2>2. cl.pc = "open" /\ cth[t].pc = "idle" /\ UNCHANGED <<cl, evs, outb, hnd, iso, dv, seen>>
      BY <1>2 DEF fw_device_op_read
  <2>3. Grown /\ MapsInv' /\ seen'.nomem >= seen.nomem
      BY <1>1, <2>2 DEF Grown, MapsInv, SeenType
  <2>4. QED
      BY <1>1, <2>1, <2>2, <2>3, ThreadStep
<1>3. CASE WaitsForEvent(t)
  <2> DEFINE x == IF evs # <<>> THEN [cth[t] EXCEPT !.pc = "takes"]
                  ELSE IF dv.st = "shutdown" THEN [op |-> "none", pc |-> "idle", obj |-> "none"]
                  ELSE [cth[t] EXCEPT !.pc = "sleeps"]
  <2>1. x \in ThreadType /\ cth' = [cth EXCEPT ![t] = x]
      BY <1>1, <1>3 DEF WaitsForEvent, ThreadType
  <2>2. x.pc = "sleeps" => evs = <<>> /\ dv.st = "running"
      BY <1>1 DEF ThreadType, DeviceType
  <2>3. x.pc \notin {"adds", "releases"}
      BY <1>1 DEF ThreadType
  <2>4. cth[t].pc = "checks" /\ UNCHANGED <<cl, evs, outb, hnd, iso, dv, seen>>
      BY <1>3 DEF WaitsForEvent
  <2>5. cl.pc = "open"
      BY <2>4, BusyMeansOpen
  <2>6. Grown /\ MapsInv' /\ seen'.nomem >= seen.nomem
      BY <1>1, <2>4 DEF Grown, MapsInv, SeenType
  <2> HIDE DEF x
  <2>7. QED
      BY <1>1, <2>1, <2>2, <2>3, <2>4, <2>5, <2>6, ThreadStep
<1>4. CASE ReadInterrupted(t)
  <2>1. Resting \in ThreadType /\ cth' = [cth EXCEPT ![t] = Resting]
      BY <1>4 DEF ReadInterrupted, Returns, ThreadType
  <2>2. cth[t].pc = "sleeps" /\ UNCHANGED <<cl, evs, outb, hnd, iso, dv, seen>>
      BY <1>4 DEF ReadInterrupted
  <2>3. cl.pc = "open" /\ Grown /\ MapsInv' /\ seen'.nomem >= seen.nomem
      BY <1>1, <2>2, BusyMeansOpen DEF Grown, MapsInv, SeenType
  <2>4. QED
      BY <1>1, <2>1, <2>2, <2>3, ThreadStep
<1>5. CASE CreatesContext(t)
  <2> DEFINE x == [op |-> "create", pc |-> "created", obj |-> "none"]
  <2>1. x \in ThreadType /\ cth' = [cth EXCEPT ![t] = x]
      BY <1>5 DEF CreatesContext, Begins, ThreadType
  <2>2. cl.pc = "open" /\ cth[t].pc = "idle" /\ UNCHANGED <<cl, evs, outb, hnd, iso, dv, seen>>
      BY <1>5 DEF CreatesContext, IsoUser, Using
  <2>3. Grown /\ MapsInv' /\ seen'.nomem >= seen.nomem
      BY <1>1, <2>2 DEF Grown, MapsInv, SeenType
  <2>4. QED
      BY <1>1, <2>1, <2>2, <2>3, ThreadStep
<1>6. CASE fw_device_op_mmap(t)
  <2> DEFINE x == [op |-> "mmap", pc |-> "pages", obj |-> "none"]
  <2>1. x \in ThreadType /\ cth' = [cth EXCEPT ![t] = x]
      BY <1>6 DEF fw_device_op_mmap, Begins, ThreadType
  <2>2. cl.pc = "open" /\ cth[t].pc = "idle" /\ UNCHANGED <<cl, evs, outb, hnd, dv, seen>>
      BY <1>6 DEF fw_device_op_mmap, IsoUser, Using
  <2>3. iso' \in IsoType /\ MapsInv'
      BY <1>1, <1>6 DEF fw_device_op_mmap, MapsInv, IsoType
  <2>4. Grown /\ seen'.nomem >= seen.nomem
      BY <1>1, <2>2 DEF Grown, SeenType
  <2>5. QED
      BY <1>1, <2>1, <2>2, <2>3, <2>4, ThreadStep
<1>7. CASE ioctl_create_iso_context(t)
  <2>1. Resting \in ThreadType /\ cth' = [cth EXCEPT ![t] = Resting]
      BY <1>7 DEF ioctl_create_iso_context, Returns, ThreadType
  <2>2. cth[t].pc = "created" /\ UNCHANGED <<cl, evs, outb, hnd, dv>>
      BY <1>7 DEF ioctl_create_iso_context
  <2>3. iso' = iso \/ iso' = [iso EXCEPT !.ctx = "idle", !.maps = IF iso.pages /\ @ = 0 THEN 1 ELSE @]
      BY <1>7 DEF ioctl_create_iso_context
  <2>4. iso' \in IsoType /\ MapsInv'
    <3>1. CASE iso' = iso
        BY <1>1, <3>1 DEF MapsInv
    <3>2. CASE iso' = [iso EXCEPT !.ctx = "idle", !.maps = IF iso.pages /\ @ = 0 THEN 1 ELSE @]
      <4>1. iso'.maps \in {0, 1} /\ iso'.maps \in 0..2
          BY <1>1, <3>2 DEF MapsInv, IsoType
      <4>2. QED
          BY <1>1, <3>2, <4>1 DEF MapsInv, IsoType
    <3>3. QED
        BY <2>3, <3>1, <3>2
  <2>5. seen' = seen \/ seen' = [seen EXCEPT !.nomem = @ + 1]
      BY <1>7 DEF ioctl_create_iso_context, OutOfMemory
  <2>6. seen' \in SeenType /\ Grown /\ seen'.nomem >= seen.nomem /\ seen'.gen = seen.gen
      BY <1>1, <2>2, <2>5 DEF Grown, SeenType
  <2>7. cl.pc = "open"
      BY <2>2, BusyMeansOpen
  <2>8. QED
      BY <1>1, <2>1, <2>2, <2>4, <2>6, <2>7, ThreadStep
<1>8. CASE MapsBuffer(t)
  <2> DEFINE x == [cth[t] EXCEPT !.pc = "mapped"]
  <2>1. x \in ThreadType /\ x.pc = "mapped" /\ cth' = [cth EXCEPT ![t] = x]
      BY <1>1, <1>8 DEF MapsBuffer, ThreadType
  <2>2. cth[t].pc = "pages" /\ UNCHANGED <<cl, evs, outb, hnd, dv>>
      BY <1>8 DEF MapsBuffer
  <2>3. \/ UNCHANGED <<iso, seen>>
        \/ /\ iso' = [iso EXCEPT !.maps = @ + 1]
           /\ seen' = [seen EXCEPT !.odd = IF iso.maps = 1 THEN @ \cup {"mapped twice"} ELSE @]
      BY <1>8 DEF MapsBuffer, Odd
  <2>4. iso' \in IsoType /\ MapsInv'
    <3>1. CASE UNCHANGED <<iso, seen>>
        BY <1>1, <3>1 DEF MapsInv
    <3>2. CASE /\ iso' = [iso EXCEPT !.maps = @ + 1]
               /\ seen' = [seen EXCEPT !.odd = IF iso.maps = 1 THEN @ \cup {"mapped twice"} ELSE @]
      <4>1. iso.maps # 1
          BY <1>1, <3>2 DEF CdevSane, SeenType
      <4>2. QED
          BY <1>1, <3>2, <4>1 DEF MapsInv, IsoType
    <3>3. QED
        BY <2>3, <3>1, <3>2
  <2>5. seen' \in SeenType /\ Grown /\ seen'.nomem >= seen.nomem /\ seen'.gen = seen.gen
    <3>1. seen' = [seen EXCEPT !.odd = seen'.odd] /\ seen.odd \subseteq seen'.odd
          /\ seen'.odd \in SUBSET Oddity
        BY <1>1, <2>3 DEF SeenType, Oddity
    <3>2. QED
        BY <1>1, <2>2, <3>1 DEF Grown, SeenType
  <2>6. cl.pc = "open"
      BY <2>2, BusyMeansOpen
  <2> HIDE DEF x
  <2>7. QED
      BY <1>1, <2>1, <2>2, <2>4, <2>5, <2>6, ThreadStep
<1>9. CASE MapsIntoProcess(t)
  <2>1. Resting \in ThreadType /\ cth' = [cth EXCEPT ![t] = Resting]
      BY <1>9 DEF MapsIntoProcess, Returns, ThreadType
  <2>2. cth[t].pc = "mapped" /\ UNCHANGED <<cl, evs, outb, hnd, dv>>
      BY <1>9 DEF MapsIntoProcess
  <2>3. \/ UNCHANGED <<iso, seen>>
        \/ /\ iso' = [iso EXCEPT !.pages = FALSE, !.maps = 0]
           /\ seen' = [seen EXCEPT !.nomem = @ + 1,
                                   !.odd = IF iso.ctx \in {"queued", "runs"} THEN @ \cup {"unmapped"} ELSE @]
      BY <1>9 DEF MapsIntoProcess, fw_iso_buffer_destroy
  <2> DEFINE odd == IF iso.ctx \in {"queued", "runs"} THEN seen.odd \cup {"unmapped"} ELSE seen.odd
  <2>4. odd \in SUBSET Oddity /\ seen.odd \subseteq odd
      BY <1>1 DEF SeenType, Oddity
  <2>5. /\ iso' \in IsoType /\ MapsInv' /\ seen' \in SeenType /\ Grown
        /\ seen'.nomem >= seen.nomem /\ seen'.gen = seen.gen
    <3>1. CASE UNCHANGED <<iso, seen>>
        BY <1>1, <2>2, <3>1 DEF Grown, SeenType, MapsInv
    <3>2. CASE /\ iso' = [iso EXCEPT !.pages = FALSE, !.maps = 0]
               /\ seen' = [seen EXCEPT !.nomem = @ + 1, !.odd = odd]
      <4>1. iso' \in IsoType /\ MapsInv'
        <5>1. 0 \in 0..2
            OBVIOUS
        <5>2. QED
            BY <1>1, <3>2, <5>1 DEF MapsInv, IsoType
      <4> HIDE DEF odd
      <4>2. seen' \in SeenType /\ seen'.nomem >= seen.nomem /\ seen'.gen = seen.gen
        <5>1. seen.nomem + 1 \in Nat /\ seen.nomem + 1 >= seen.nomem
            BY <1>1 DEF SeenType
        <5>2. QED
            BY <1>1, <2>4, <3>2, <5>1 DEF SeenType
      <4>3. Grown
          BY <1>1, <2>2, <2>4, <3>2 DEF Grown, SeenType
      <4>4. QED
          BY <4>1, <4>2, <4>3
    <3>3. QED
        BY <2>3, <3>1, <3>2
  <2>6. cl.pc = "open"
      BY <2>2, BusyMeansOpen
  <2> HIDE DEF odd
  <2>7. QED
      BY <1>1, <2>1, <2>2, <2>5, <2>6, ThreadStep
<1>10. CASE ioctl_receive_phy_packets(t)
  <2> DEFINE x == [op |-> "receive phy", pc |-> "closure", obj |-> "none"]
  <2>1. x \in ThreadType /\ cth' = [cth EXCEPT ![t] = x]
      BY <1>10 DEF ioctl_receive_phy_packets, Begins, ThreadType
  <2>2. /\ cl.pc = "open" /\ cth[t] = Resting /\ cl' = [cl EXCEPT !.phy = TRUE]
        /\ UNCHANGED <<evs, outb, hnd, iso, dv, seen>>
      BY <1>10 DEF ioctl_receive_phy_packets, Using
  <2>3. cl' \in ClientType /\ cl'.in_shutdown = cl.in_shutdown
      BY <1>1, <2>2 DEF ClientType
  <2>4. Grown /\ MapsInv' /\ seen'.nomem >= seen.nomem
      BY <1>1, <2>2, <2>3 DEF Grown, MapsInv, SeenType
  <2>5. cth[t].pc = "idle"
      BY <2>2
  <2>6. x.pc = "closure"
      OBVIOUS
  <2> HIDE DEF x
  <2>7. QED
      BY <1>1, <2>1, <2>2, <2>3, <2>4, <2>5, <2>6, ThreadStep
<1>11. CASE StoresClosure(t)
  <2>1. Resting \in ThreadType /\ cth' = [cth EXCEPT ![t] = Resting]
      BY <1>11 DEF StoresClosure, Returns, ThreadType
  <2>2. /\ cth[t].pc = "closure" /\ cl' = [cl EXCEPT !.closure = 1]
        /\ UNCHANGED <<evs, outb, hnd, iso, dv, seen>>
      BY <1>11 DEF StoresClosure
  <2>3. cl' \in ClientType /\ cl'.in_shutdown = cl.in_shutdown
      BY <1>1, <2>2 DEF ClientType
  <2>4. Grown /\ MapsInv' /\ seen'.nomem >= seen.nomem
      BY <1>1, <2>2, <2>3 DEF Grown, MapsInv, SeenType
  <2>5. cl.pc = "open"
      BY <2>2, BusyMeansOpen
  <2>6. QED
      BY <1>1, <2>1, <2>2, <2>3, <2>4, <2>5, ThreadStep
<1>12. QED
    BY <1>2, <1>3, <1>4, <1>5, <1>6, <1>7, <1>8, <1>9, <1>10, <1>11

-----------------------------------------------------------------------------
(* What does not touch events, threads and operations.                      *)
LEMMA ClientCalm ==
    ASSUME Now,
           CdevOpen \/ fw_device_op_release \/ ReleaseUnlists \/ ReleaseFreezes
             \/ (\E t \in CdevThread : ioctl_get_info(t))
    PROVE  Now'
<1>1. /\ cl \in ClientType /\ iso \in IsoType /\ seen \in SeenType /\ dv \in DeviceType
      /\ cth \in [CdevThread -> ThreadType] /\ MapsInv /\ NewsInv /\ ReleaseInv
    BY DEF Now, ClientShape, CdevShape
<1>2. CASE CdevOpen
  <2>1. PICK uses \in CdevUses : cl' = [cl EXCEPT !.pc = "open", !.kref = 1, !.uses = uses]
      BY <1>2 DEF CdevOpen
  <2>2. cl.pc = "none" /\ UNCHANGED <<evs, cth, outb, hnd, iso, dv, seen>>
      BY <1>2 DEF CdevOpen
  <2>3. /\ cl' \in ClientType /\ cl'.pc = "open" /\ cl'.kref = 1
        /\ cl'.in_shutdown = cl.in_shutdown /\ cl'.listed = cl.listed
      BY <1>1, <2>1 DEF ClientType
  <2>4. ReleaseInv'
      BY <1>1, <2>2, <2>3 DEF ReleaseInv
  <2>5. NewsInv' /\ MapsInv' /\ Grown
      BY <1>1, <2>2, <2>3 DEF NewsInv, MapsInv, Grown
  <2>6. EventsInv' /\ SleepInv' /\ HandleInv'
      BY <2>2, <2>5, Calm DEF Now, ClientShape
  <2>7. cl'.kref = Holders'
    <3>1. OutHolds = {} /\ HandleHolds = {}
        BY <1>1, <2>2 DEF ReleaseInv, OutHolds, HandleHolds, NoOut
    <3>2. OutHolds' = OutHolds /\ HandleHolds' = HandleHolds
        BY <2>2 DEF OutHolds, HandleHolds
    <3>3. QED
        BY <2>3, <3>1, <3>2, FS_EmptySet DEF Holders
  <2>8. CdevShape'
      BY <1>1, <2>2, <2>3 DEF Now, ClientShape, CdevShape
  <2>9. QED
      BY <2>4, <2>5, <2>6, <2>7, <2>8 DEF Now, ClientShape
<1>3. CASE fw_device_op_release
  <2>1. /\ cl.pc = "open" /\ (\A t \in CdevThread : cth[t] = Resting)
        /\ cl' = [cl EXCEPT !.pc = "unlist", !.phy = FALSE]
        /\ UNCHANGED <<evs, cth, outb, hnd, iso, dv, seen>>
      BY <1>3 DEF fw_device_op_release
  <2>2. /\ cl' \in ClientType /\ cl'.pc = "unlist" /\ cl'.kref = cl.kref /\ ~cl'.phy
        /\ cl'.in_shutdown = cl.in_shutdown /\ cl'.listed = cl.listed
      BY <1>1, <2>1 DEF ClientType
  <2>3. ReleaseInv'
      BY <1>1, <2>1, <2>2 DEF ReleaseInv
  <2>4. NewsInv' /\ MapsInv' /\ Grown
      BY <1>1, <2>1, <2>2 DEF NewsInv, MapsInv, Grown
  <2>5. QED
      BY <1>1, <2>1, <2>2, <2>3, <2>4, CalmStep
<1>4. CASE ReleaseUnlists
  <2>1. /\ cl.pc = "unlist" /\ cl' = [cl EXCEPT !.pc = "iso", !.listed = FALSE]
        /\ UNCHANGED <<evs, cth, outb, hnd, iso, dv, seen>>
      BY <1>4 DEF ReleaseUnlists
  <2>2. /\ cl' \in ClientType /\ cl'.pc = "iso" /\ cl'.kref = cl.kref /\ cl'.phy = cl.phy
        /\ cl'.in_shutdown = cl.in_shutdown /\ ~cl'.listed
      BY <1>1, <2>1 DEF ClientType
  <2>3. ReleaseInv'
      BY <1>1, <2>1, <2>2 DEF ReleaseInv
  <2>4. NewsInv' /\ MapsInv' /\ Grown
      BY <1>1, <2>1, <2>2 DEF NewsInv, MapsInv, Grown
  <2>5. QED
      BY <1>1, <2>1, <2>2, <2>3, <2>4, CalmStep
<1>5. CASE ReleaseFreezes
  <2>1. /\ cl.pc = "shut" /\ cl' = [cl EXCEPT !.pc = "waits", !.in_shutdown = TRUE]
        /\ UNCHANGED <<evs, cth, outb, hnd, iso, dv, seen>>
      BY <1>5 DEF ReleaseFreezes
  <2>2. /\ cl' \in ClientType /\ cl'.pc = "waits" /\ cl'.kref = cl.kref /\ cl'.phy = cl.phy
        /\ cl'.in_shutdown /\ cl'.listed = cl.listed
      BY <1>1, <2>1 DEF ClientType
  <2>3. ReleaseInv'
      BY <1>1, <2>1, <2>2 DEF ReleaseInv
  <2>4. NewsInv' /\ MapsInv' /\ Grown
      BY <1>1, <2>1, <2>2 DEF NewsInv, MapsInv, Grown
  <2>5. QED
      BY <1>1, <2>1, <2>2, <2>3, <2>4, CalmStep
<1>6. ASSUME NEW t \in CdevThread, ioctl_get_info(t)
      PROVE  Now'
  <2>1. /\ cl.pc = "open" /\ cl' = [cl EXCEPT !.listed = TRUE] /\ seen' = [seen EXCEPT !.gen = dv.gen]
        /\ UNCHANGED <<evs, cth, outb, hnd, iso, dv>>
      BY <1>6 DEF ioctl_get_info, Using
  <2>2. /\ cl' \in ClientType /\ cl'.pc = "open" /\ cl'.kref = cl.kref /\ cl'.in_shutdown = cl.in_shutdown
      BY <1>1, <2>1 DEF ClientType
  <2>3. seen' \in SeenType /\ seen'.gen = dv.gen /\ seen'.events = seen.events /\ seen'.odd = seen.odd
      BY <1>1, <2>1 DEF SeenType, DeviceType
  <2>4. ReleaseInv'
      BY <1>1, <2>1, <2>2, WhileOpen, OpenNotShut
  <2>5. NewsInv' /\ MapsInv' /\ Grown
      BY <1>1, <2>1, <2>2, <2>3 DEF NewsInv, MapsInv, Grown
  <2>6. QED
      BY <1>1, <2>1, <2>2, <2>3, <2>4, <2>5, CalmStep
<1>7. QED
    BY <1>2, <1>3, <1>4, <1>5, <1>6

LEMMA IsoCalm ==
    ASSUME Now, CdevSane, CdevSane',
           ReleaseDestroysIso \/ DeviceUpdated \/ DeviceGone \/ IsoInterrupts
             \/ (\E t \in CdevThread : ioctl_queue_iso(t) \/ ioctl_start_iso(t) \/ ioctl_stop_iso(t))
    PROVE  Now'
<1>1. /\ cl \in ClientType /\ iso \in IsoType /\ seen \in SeenType /\ dv \in DeviceType
      /\ MapsInv /\ NewsInv /\ ReleaseInv
    BY DEF Now, ClientShape, CdevShape
<1>2. CASE ReleaseDestroysIso
  <2>1. /\ cl.pc = "iso" /\ cl' = [cl EXCEPT !.pc = "shut"] /\ iso' = [NoContext EXCEPT !.work = iso.work]
        /\ UNCHANGED <<evs, cth, outb, hnd, dv, seen>>
      BY <1>2 DEF ReleaseDestroysIso, Releases
  <2>2. /\ cl' \in ClientType /\ cl'.pc = "shut" /\ cl'.kref = cl.kref /\ cl'.phy = cl.phy
        /\ cl'.in_shutdown = cl.in_shutdown /\ cl'.listed = cl.listed
      BY <1>1, <2>1 DEF ClientType
  <2>3. iso' \in IsoType /\ iso'.ctx = "none" /\ ~iso'.pages /\ iso'.maps = 0
    <3>1. iso' = [ctx |-> "none", work |-> iso.work, pages |-> FALSE, maps |-> 0]
        BY <1>1, <2>1 DEF IsoType, NoContext
    <3>2. 0 \in 0..2
        OBVIOUS
    <3>3. QED
        BY <1>1, <3>1, <3>2 DEF IsoType
  <2>4. ReleaseInv'
      BY <1>1, <2>1, <2>2, <2>3 DEF ReleaseInv
  <2>5. NewsInv' /\ MapsInv' /\ Grown
      BY <1>1, <2>1, <2>2, <2>3 DEF NewsInv, MapsInv, Grown
  <2>6. QED
      BY <1>1, <2>1, <2>2, <2>3, <2>4, <2>5, CalmStep
<1>3. CASE DeviceUpdated
  <2>1. dv.st = "running" /\ dv' = [dv EXCEPT !.gen = @ + 1, !.update = TRUE]
        /\ UNCHANGED <<cl, evs, cth, outb, hnd, iso, seen>>
      BY <1>3 DEF DeviceUpdated
  <2>2. dv' \in DeviceType /\ dv'.update /\ dv'.st = "running"
    <3>1. dv.gen + 1 \in Nat
        BY <1>1 DEF DeviceType
    <3>2. QED
        BY <1>1, <2>1, <3>1 DEF DeviceType
  <2>3. ReleaseInv' /\ NewsInv' /\ MapsInv' /\ Grown
      BY <1>1, <2>1, <2>2 DEF ReleaseInv, NewsInv, MapsInv, Grown, Pending
  <2>4. QED
      BY <1>1, <2>1, <2>2, <2>3, CalmStep
<1>4. CASE DeviceGone
  <2>1. ~dv.update /\ dv' = [dv EXCEPT !.st = "shutdown", !.remove = TRUE]
        /\ UNCHANGED <<cl, evs, cth, outb, hnd, iso, seen>>
      BY <1>4 DEF DeviceGone
  <2>2. dv' \in DeviceType /\ dv'.remove /\ dv'.update = dv.update /\ dv'.gen = dv.gen
      BY <1>1, <2>1 DEF DeviceType
  <2>3. ReleaseInv' /\ NewsInv' /\ MapsInv' /\ Grown
      BY <1>1, <2>1, <2>2 DEF ReleaseInv, NewsInv, MapsInv, Grown, Pending
  <2>4. QED
      BY <1>1, <2>1, <2>2, <2>3, CalmStep
<1>5. CASE IsoInterrupts
  <2>1. /\ iso.ctx = "runs" /\ iso' = [iso EXCEPT !.work = "due"] /\ seen' = [seen EXCEPT !.arrivals = @ + 1]
        /\ UNCHANGED <<cl, evs, cth, outb, hnd, dv>>
      BY <1>5 DEF IsoInterrupts
  <2>2. /\ iso' \in IsoType /\ iso'.maps = iso.maps /\ iso'.ctx = iso.ctx /\ iso'.pages = iso.pages
      BY <1>1, <2>1 DEF IsoType
  <2>3. /\ seen' \in SeenType /\ seen'.gen = seen.gen /\ seen'.nomem = seen.nomem
        /\ seen'.events = seen.events /\ seen'.odd = seen.odd
      BY <1>1, <2>1 DEF SeenType
  <2>4. ReleaseInv' /\ NewsInv' /\ MapsInv' /\ Grown
      BY <1>1, <2>1, <2>2, <2>3 DEF ReleaseInv, NewsInv, MapsInv, Grown, Pending
  <2>5. QED
      BY <1>1, <2>1, <2>2, <2>3, <2>4, CalmStep
<1>6. ASSUME NEW t \in CdevThread, ioctl_queue_iso(t) \/ ioctl_start_iso(t) \/ ioctl_stop_iso(t)
      PROVE  Now'
  <2>1. cl.pc = "open" /\ UNCHANGED <<cl, evs, cth, outb, hnd, dv>>
      BY <1>6 DEF ioctl_queue_iso, ioctl_start_iso, ioctl_stop_iso, IsoUser, Using
  <2>2. PICK c \in {"none", "idle", "queued", "runs"} : iso' = [iso EXCEPT !.ctx = c]
    <3>1. CASE ioctl_queue_iso(t)
        BY <1>1, <3>1 DEF ioctl_queue_iso, IsoType
    <3>2. CASE ioctl_start_iso(t)
        BY <3>2 DEF ioctl_start_iso
    <3>3. CASE ioctl_stop_iso(t)
        BY <3>3 DEF ioctl_stop_iso
    <3>4. QED
        BY <1>6, <3>1, <3>2, <3>3
  <2>3. iso' \in IsoType /\ iso'.maps = iso.maps
      BY <1>1, <2>2 DEF IsoType
  <2>4. PICK odd \in SUBSET Oddity : seen' = [seen EXCEPT !.odd = odd] /\ seen.odd \subseteq odd
    <3>1. CASE ioctl_queue_iso(t)
      <4>1. \E w \in {"unmapped", "untold"}, b \in BOOLEAN :
              seen' = [seen EXCEPT !.odd = IF b THEN @ \cup {w} ELSE @]
          BY <3>1 DEF ioctl_queue_iso, Odd
      <4>2. QED
          BY <1>1, <4>1 DEF SeenType, Oddity
    <3>2. CASE seen' = seen
        BY <1>1, <3>2 DEF SeenType
    <3>3. QED
        BY <1>6, <3>1, <3>2 DEF ioctl_start_iso, ioctl_stop_iso
  <2>5. /\ seen' \in SeenType /\ seen'.gen = seen.gen /\ seen'.nomem = seen.nomem
        /\ seen'.events = seen.events /\ seen.odd \subseteq seen'.odd
      BY <1>1, <2>4 DEF SeenType
  <2>6. ReleaseInv'
      BY <1>1, <2>1, WhileOpen, OpenNotShut
  <2>7. NewsInv' /\ MapsInv' /\ Grown
      BY <1>1, <2>1, <2>3, <2>5 DEF NewsInv, MapsInv, Grown
  <2>8. QED
      BY <1>1, <2>1, <2>3, <2>5, <2>6, <2>7, CalmStep
<1>7. QED
    BY <1>2, <1>3, <1>4, <1>5, <1>6

-----------------------------------------------------------------------------
(* Handles.                                                                 *)
LEMMA HandleTaken ==
    ASSUME Now, NEW t \in CdevThread, NEW h \in CdevHandle, cl.pc = "open", cth[t] = Resting,
           NEW x \in ThreadType, x.obj = h, cth' = [cth EXCEPT ![t] = x],
           \/ hnd[h] = "none" /\ hnd' = [hnd EXCEPT ![h] = "added"] /\ x.pc = "adds"
           \/ hnd[h] = "listed" /\ hnd' = [hnd EXCEPT ![h] = "erased"] /\ x.pc = "releases",
           UNCHANGED <<cl, evs, outb, iso, dv, seen>>
    PROVE  Now'
<1>1. CdevShape /\ HandleInv /\ SleepInv /\ EventsInv /\ NewsInv /\ MapsInv
    BY DEF Now, ClientShape
<1>2. /\ cth' \in [CdevThread -> ThreadType] /\ cth'[t] = x
      /\ \A u \in CdevThread \ {t} : cth'[u] = cth[u]
    BY <1>1 DEF CdevShape
<1>3. /\ hnd' \in [CdevHandle -> {"none", "added", "listed", "erased"}]
      /\ \A g \in CdevHandle \ {h} : hnd'[g] = hnd[g]
      /\ hnd'[h] = IF x.pc = "adds" THEN "added" ELSE "erased"
      /\ hnd[h] \in {"none", "listed"} /\ x.pc \in {"adds", "releases"}
    BY <1>1 DEF CdevShape
<1>4. \A u \in CdevThread : cth[u].pc \in {"adds", "releases"} => u # t /\ cth[u].obj # h
    BY <1>1, <1>3 DEF HandleInv, Resting
<1>5. HandleInv'
  <2>1. ASSUME NEW g \in CdevHandle, hnd'[g] \in {"added", "erased"}
        PROVE  \E u \in CdevThread : cth'[u].obj = g /\ cth'[u].pc \in {"adds", "releases"}
    <3>1. CASE g = h
        BY <1>2, <1>3, <3>1
    <3>2. CASE g # h
      <4>1. PICK u \in CdevThread : cth[u].obj = g /\ cth[u].pc \in {"adds", "releases"}
          BY <1>1, <1>3, <2>1, <3>2 DEF HandleInv
      <4>2. QED
          BY <1>2, <1>4, <4>1
    <3>3. QED
        BY <3>1, <3>2
  <2>2. ASSUME NEW u \in CdevThread
        PROVE  /\ cth'[u].pc = "adds" => cth'[u].obj \in CdevHandle /\ hnd'[cth'[u].obj] = "added"
               /\ cth'[u].pc = "releases" => cth'[u].obj \in CdevHandle /\ hnd'[cth'[u].obj] = "erased"
    <3>1. CASE u = t
        BY <1>2, <1>3, <3>1
    <3>2. CASE u # t
        BY <1>1, <1>2, <1>3, <1>4, <3>2 DEF HandleInv
    <3>3. QED
        BY <3>1, <3>2
  <2>3. ASSUME NEW u \in CdevThread, NEW v \in CdevThread, cth'[u].obj = cth'[v].obj,
               cth'[u].pc \in {"adds", "releases"}, cth'[v].pc \in {"adds", "releases"}
        PROVE  u = v
    <3>1. CASE u # t /\ v # t
        BY <1>1, <1>2, <2>3, <3>1 DEF HandleInv
    <3>2. CASE u = t \/ v = t
        BY <1>2, <1>4, <2>3, <3>2
    <3>3. QED
        BY <3>1, <3>2
  <2>4. QED
      BY <2>1, <2>2, <2>3 DEF HandleInv
<1>6. EventsInv' /\ NewsInv' /\ MapsInv'
    BY <1>1 DEF EventsInv, NewsInv, MapsInv
<1>7. SleepInv'
    BY <1>1, <1>2, <1>3 DEF SleepInv
<1>8. ReleaseInv'
    BY WhileOpen, OpenNotShut
<1>9. cl'.kref = Holders'
  <2>1. OutHolds' = OutHolds
      BY DEF OutHolds
  <2>2. HandleHolds' = HandleHolds
      BY <1>3 DEF HandleHolds
  <2>3. QED
      BY <2>1, <2>2 DEF Now, Holders
<1>10. CdevShape'
    BY <1>1, <1>2, <1>3 DEF CdevShape
<1>11. QED
    BY <1>5, <1>6, <1>7, <1>8, <1>9, <1>10 DEF Now, ClientShape

LEMMA HandleLeft ==
    ASSUME Now, NEW t \in CdevThread, NEW h \in CdevHandle, cth[t].pc \in {"adds", "releases"}, cth[t].obj = h,
           cth' = [cth EXCEPT ![t] = Resting], NEW s \in {"none", "listed"}, hnd' = [hnd EXCEPT ![h] = s],
           UNCHANGED <<evs, outb, iso, dv>>, cl' = cl \/ (\E k : cl' = [cl EXCEPT !.kref = k]),
           cl'.kref = Holders', seen' = seen \/ seen' = [seen EXCEPT !.nomem = @ + 1]
    PROVE  Now'
<1>1. CdevShape /\ HandleInv /\ SleepInv /\ EventsInv /\ NewsInv /\ MapsInv
    BY DEF Now, ClientShape
<1>2. /\ Resting \in ThreadType /\ Resting.pc = "idle"
      /\ cth' \in [CdevThread -> ThreadType] /\ cth'[t] = Resting
      /\ \A u \in CdevThread \ {t} : cth'[u] = cth[u]
    BY <1>1 DEF CdevShape, Resting, ThreadType
<1>3. /\ hnd' \in [CdevHandle -> {"none", "added", "listed", "erased"}] /\ hnd'[h] = s
      /\ \A g \in CdevHandle \ {h} : hnd'[g] = hnd[g]
    BY <1>1 DEF CdevShape
<1>4. HandleInv'
  <2>1. ASSUME NEW g \in CdevHandle, hnd'[g] \in {"added", "erased"}
        PROVE  \E u \in CdevThread : cth'[u].obj = g /\ cth'[u].pc \in {"adds", "releases"}
    <3>1. g # h /\ hnd[g] \in {"added", "erased"}
        BY <1>3, <2>1
    <3>2. PICK u \in CdevThread : cth[u].obj = g /\ cth[u].pc \in {"adds", "releases"}
        BY <1>1, <3>1 DEF HandleInv
    <3>3. QED
        BY <1>2, <3>1, <3>2
  <2>2. \A u \in CdevThread : cth'[u].pc \in {"adds", "releases"} =>
           u # t /\ cth'[u] = cth[u] /\ cth[u].obj # h
      BY <1>1, <1>2 DEF HandleInv
  <2>3. QED
      BY <1>1, <1>3, <2>1, <2>2 DEF HandleInv
<1>5. cl'.kref \in Nat
    BY Counted DEF Now
<1>6. /\ cl' \in ClientType /\ cl'.pc = "open" /\ cl'.in_shutdown = cl.in_shutdown /\ cl'.listed = cl.listed
    BY <1>1, <1>5, BusyMeansOpen DEF CdevShape, ClientType
<1>7. seen' \in SeenType /\ seen'.odd = seen.odd /\ seen'.events = seen.events /\ seen'.gen = seen.gen
      /\ (seen.nomem > 0 => seen'.nomem > 0)
  <2>1. seen.nomem + 1 \in Nat /\ seen.nomem + 1 > 0 /\ seen \in SeenType
      BY <1>1 DEF CdevShape, SeenType
  <2>2. QED
      BY <2>1 DEF SeenType
<1>8. EventsInv'
    BY <1>1, <1>6, <1>7, EventsKept DEF Grown
<1>9. NewsInv' /\ MapsInv'
    BY <1>1, <1>6, <1>7 DEF NewsInv, MapsInv
<1>10. SleepInv'
    BY <1>1, <1>2, <1>7 DEF SleepInv
<1>11. ReleaseInv'
    BY <1>6, WhileOpen, OpenNotShut, BusyMeansOpen
<1>12. CdevShape'
    BY <1>1, <1>2, <1>3, <1>6, <1>7 DEF CdevShape
<1>13. QED
    BY <1>4, <1>8, <1>9, <1>10, <1>11, <1>12 DEF Now, ClientShape

LEMMA HandlesKeep ==
    ASSUME Now, NEW t \in CdevThread,
           \/ \E h \in CdevHandle : AddsToCore(t, h) \/ release_client_resource(t, h)
           \/ add_client_resource(t) \/ release_resource(t)
    PROVE  Now'
<1>1. CdevShape /\ HandleInv
    BY DEF Now, ClientShape
<1>2. ASSUME NEW h \in CdevHandle, AddsToCore(t, h)
      PROVE  Now'
  <2> DEFINE x == [op |-> "add", pc |-> "adds", obj |-> h]
  <2>1. x \in ThreadType /\ x.obj = h /\ x.pc = "adds"
      BY DEF ThreadType
  <2>2. /\ cl.pc = "open" /\ cth[t] = Resting /\ cth' = [cth EXCEPT ![t] = x] /\ hnd[h] = "none"
        /\ hnd' = [hnd EXCEPT ![h] = "added"] /\ UNCHANGED <<cl, evs, outb, iso, dv, seen>>
      BY <1>2 DEF AddsToCore, Begins, Using
  <2> HIDE DEF x
  <2>3. QED
      BY <2>1, <2>2, HandleTaken
<1>3. ASSUME NEW h \in CdevHandle, release_client_resource(t, h)
      PROVE  Now'
  <2> DEFINE x == [op |-> "remove", pc |-> "releases", obj |-> h]
  <2>1. x \in ThreadType /\ x.obj = h /\ x.pc = "releases"
      BY DEF ThreadType
  <2>2. /\ cl.pc = "open" /\ cth[t] = Resting /\ cth' = [cth EXCEPT ![t] = x] /\ hnd[h] = "listed"
        /\ hnd' = [hnd EXCEPT ![h] = "erased"] /\ UNCHANGED <<cl, evs, outb, iso, dv, seen>>
      BY <1>3 DEF release_client_resource, Begins, Using
  <2> HIDE DEF x
  <2>3. QED
      BY <2>1, <2>2, HandleTaken
<1>4. CASE add_client_resource(t)
  <2> DEFINE h == cth[t].obj
  <2>1. cth[t].pc = "adds" /\ h \in CdevHandle /\ hnd[h] = "added"
      BY <1>1, <1>4 DEF add_client_resource, HandleInv
  <2>2. cl.pc = "open"
      BY <2>1, BusyMeansOpen
  <2>3. cth' = [cth EXCEPT ![t] = Resting] /\ UNCHANGED <<evs, outb, iso, dv>>
      BY <1>4 DEF add_client_resource, Returns
  <2>4. OutHolds' = OutHolds /\ OutHolds \in SUBSET Outbound /\ HandleHolds \in SUBSET CdevHandle
      BY <2>3 DEF OutHolds, HandleHolds
  <2>5. CASE hnd' = [hnd EXCEPT ![h] = "listed"] /\ cl' = [cl EXCEPT !.kref = @ + 1] /\ UNCHANGED seen
    <3>1. cl'.pc = "open" /\ cl'.kref = cl.kref + 1
        BY <1>1, <2>2, <2>5 DEF CdevShape, ClientType
    <3>2. h \notin HandleHolds /\ HandleHolds' = HandleHolds \cup {h}
        BY <1>1, <2>1, <2>5 DEF HandleHolds, CdevShape
    <3>3. /\ Cardinality(HandleHolds') = Cardinality(HandleHolds) + 1
          /\ Cardinality(HandleHolds) \in Nat /\ Cardinality(OutHolds) \in Nat
        BY <2>4, <3>2, HoldersAreFew, HolderComes
    <3>4. cl'.kref = Holders'
        BY <2>2, <2>4, <3>1, <3>3 DEF Now, Holders
    <3>5. QED
        BY <2>1, <2>3, <2>5, <3>4, HandleLeft
  <2>6. CASE OutOfMemory /\ hnd' = [hnd EXCEPT ![h] = "none"] /\ UNCHANGED cl
    <3>1. HandleHolds' = HandleHolds
        BY <1>1, <2>1, <2>6 DEF HandleHolds, CdevShape
    <3>2. cl'.kref = Holders'
        BY <2>4, <2>6, <3>1 DEF Now, Holders
    <3>3. seen' = [seen EXCEPT !.nomem = @ + 1]
        BY <2>6 DEF OutOfMemory
    <3>4. QED
        BY <2>1, <2>3, <2>6, <3>2, <3>3, HandleLeft
  <2>7. QED
      BY <1>4, <2>5, <2>6 DEF add_client_resource
<1>5. CASE release_resource(t)
  <2> DEFINE h == cth[t].obj
  <2>1. cth[t].pc = "releases" /\ h \in CdevHandle /\ hnd[h] = "erased"
      BY <1>1, <1>5 DEF release_resource, HandleInv
  <2>2. cl.pc = "open"
      BY <2>1, BusyMeansOpen
  <2>3. /\ cth' = [cth EXCEPT ![t] = Resting] /\ UNCHANGED <<evs, outb, iso, dv, seen>>
        /\ hnd' = [hnd EXCEPT ![h] = "none"] /\ cl' = [cl EXCEPT !.kref = @ - 1]
      BY <1>5 DEF release_resource, Returns
  <2>4. OutHolds' = OutHolds /\ OutHolds \in SUBSET Outbound /\ HandleHolds \in SUBSET CdevHandle
      BY <2>3 DEF OutHolds, HandleHolds
  <2>5. cl'.pc = "open" /\ cl'.kref = cl.kref - 1
      BY <1>1, <2>2, <2>3 DEF CdevShape, ClientType
  <2>6. h \in HandleHolds /\ HandleHolds' = HandleHolds \ {h}
      BY <1>1, <2>1, <2>3 DEF HandleHolds, CdevShape
  <2>7. /\ Cardinality(HandleHolds') = Cardinality(HandleHolds) - 1
        /\ Cardinality(HandleHolds) \in Nat /\ Cardinality(OutHolds) \in Nat
      BY <2>4, <2>6, HoldersAreFew, HolderGoes
  <2>8. cl'.kref = Holders'
      BY <2>2, <2>4, <2>5, <2>7 DEF Now, Holders
  <2>9. QED
      BY <2>1, <2>3, <2>8, HandleLeft
<1>6. QED
    BY <1>2, <1>3, <1>4, <1>5

-----------------------------------------------------------------------------
(* Requests and PHY packets.                                                *)

\* What an operation's step does to the count, given what becomes of it.
LEMMA OperationCounted ==
    ASSUME Now, NEW o \in Outbound, NEW x \in OutType, outb' = [outb EXCEPT ![o] = x], hnd' = hnd,
           cl'.pc \in {"none", "closed"} <=> cl.pc \in {"none", "closed"},
           \/ /\ x.pc \in {"sent", "erased", "queued"} <=> outb[o].pc \in {"sent", "erased", "queued"}
              /\ cl'.kref = cl.kref
           \/ /\ x.pc \in {"sent", "erased", "queued"} /\ outb[o].pc \notin {"sent", "erased", "queued"}
              /\ cl'.kref = cl.kref + 1
           \/ /\ x.pc = "done" /\ outb[o].pc \in {"sent", "erased", "queued"}
              /\ cl'.kref = cl.kref - 1
    PROVE  cl'.kref = Holders'
<1> DEFINE in == x.pc \in {"sent", "erased", "queued"}
           was == outb[o].pc \in {"sent", "erased", "queued"}
<1>1. /\ HandleHolds' = HandleHolds /\ HandleHolds \in SUBSET CdevHandle /\ OutHolds \in SUBSET Outbound
      /\ \A p \in Outbound : outb'[p] = IF p = o THEN x ELSE outb[p]
    BY DEF Now, ClientShape, CdevShape, HandleHolds, OutHolds
<1>2. /\ Cardinality(OutHolds) \in Nat /\ Cardinality(HandleHolds) \in Nat /\ IsFiniteSet(OutHolds)
    BY <1>1, HoldersAreFew
<1>3. CASE in = was /\ cl'.kref = cl.kref
  <2>1. OutHolds' = OutHolds
      BY <1>1, <1>3 DEF OutHolds
  <2>2. QED
      BY <1>1, <1>3, <2>1 DEF Now, Holders
<1>4. CASE in /\ ~was /\ cl'.kref = cl.kref + 1
  <2>1. OutHolds' = OutHolds \cup {o} /\ o \notin OutHolds
      BY <1>1, <1>4 DEF OutHolds
  <2>2. Cardinality(OutHolds') = Cardinality(OutHolds) + 1
      BY <1>2, <2>1, HolderComes
  <2>3. QED
      BY <1>1, <1>2, <1>4, <2>2 DEF Now, Holders
<1>5. CASE ~in /\ was /\ cl'.kref = cl.kref - 1
  <2>1. OutHolds' = OutHolds \ {o} /\ o \in OutHolds
      BY <1>1, <1>5 DEF OutHolds
  <2>2. Cardinality(OutHolds') = Cardinality(OutHolds) - 1
      BY <1>2, <2>1, HolderGoes
  <2>3. QED
      BY <1>1, <1>2, <1>5, <2>2 DEF Now, Holders
<1>6. QED
    BY <1>3, <1>4, <1>5

\* init_request() and ioctl_send_phy_packet()
LEMMA OperationBegins ==
    ASSUME Now, NEW o \in Outbound, NEW x \in OutType, x.pc \in {"sent", "erased"},
           cl.pc = "open", outb[o] = NoOut, outb' = [outb EXCEPT ![o] = x],
           cl' = [cl EXCEPT !.kref = @ + 1], UNCHANGED <<evs, cth, hnd, iso, dv, seen>>
    PROVE  Now'
<1>1. CdevShape /\ HandleInv /\ SleepInv /\ EventsInv /\ NewsInv /\ MapsInv
    BY DEF Now, ClientShape
<1>2. /\ cl'.pc = "open" /\ cl'.kref = cl.kref + 1 /\ cl'.in_shutdown = cl.in_shutdown
      /\ cl'.listed = cl.listed
    BY <1>1 DEF CdevShape, ClientType
<1>3. /\ outb' \in [Outbound -> OutType]
      /\ \A p \in Outbound : outb'[p] = IF p = o THEN x ELSE outb[p]
    BY <1>1 DEF CdevShape
<1>4. cl'.kref = Holders'
  <2>1. outb[o].pc \notin {"sent", "erased", "queued"}
      BY DEF NoOut
  <2>2. QED
      BY <1>2, <2>1, OperationCounted
<1>5. cl'.kref \in Nat
    BY <1>4, Counted DEF Now
<1>6. cl' \in ClientType
    BY <1>1, <1>2, <1>5 DEF CdevShape, ClientType
<1>7. EventsInv'
  <2>1. \A p \in Outbound : outb'[p].pc \in {"queued", "done"} <=> outb[p].pc \in {"queued", "done"}
      BY <1>3 DEF NoOut
  <2>2. QED
      BY <1>1, <1>2, <2>1, EventsKept DEF Grown
<1>8. NewsInv' /\ MapsInv' /\ SleepInv' /\ HandleInv'
    BY <1>1, <1>2 DEF NewsInv, MapsInv, SleepInv, HandleInv
<1>9. ReleaseInv'
    BY <1>2, WhileOpen, OpenNotShut
<1>10. CdevShape'
    BY <1>1, <1>3, <1>6 DEF CdevShape
<1>11. QED
    BY <1>4, <1>7, <1>8, <1>9, <1>10 DEF Now, ClientShape

\* An operation that was sent goes on; its client may have been closed.
LEMMA OperationGoesOn ==
    ASSUME Now, NEW o \in Outbound, NEW x \in OutType, outb[o].pc \in {"sent", "erased", "queued"},
           x.pc \in {"erased", "queued", "done"}, outb' = [outb EXCEPT ![o] = x], EventsInv',
           cth' \in [CdevThread -> ThreadType], \A t \in CdevThread : cth[t] = Resting => cth'[t] = Resting,
           evs' \in Seq(CdevEvent), evs' = evs \/ ~cl.in_shutdown, SleepInv', HandleInv',
           cl' = cl \/ \E k : cl' = [cl EXCEPT !.kref = k],
           cl'.kref = Holders', UNCHANGED <<hnd, iso, dv>>, seen' \in SeenType,
           seen'.gen = seen.gen, seen'.nomem = seen.nomem
    PROVE  Now'
<1>1. CdevShape /\ NewsInv /\ MapsInv /\ ReleaseInv
    BY DEF Now, ClientShape
<1>2. cl'.kref \in Nat
    BY Counted DEF Now
<1>3. /\ cl' \in ClientType /\ cl'.pc = cl.pc /\ cl'.in_shutdown = cl.in_shutdown
      /\ cl'.listed = cl.listed /\ cl'.phy = cl.phy
    BY <1>1, <1>2 DEF CdevShape, ClientType
<1>4. /\ outb' \in [Outbound -> OutType]
      /\ \A p \in Outbound : outb'[p] = IF p = o THEN x ELSE outb[p]
    BY <1>1 DEF CdevShape
<1>5. ReleaseInv'
  <2>1. cl.pc # "none"
      BY <1>1 DEF ReleaseInv, NoOut
  <2>2. cl.pc = "closed" => evs' = evs
      BY <1>1 DEF ReleaseInv
  <2>3. Pending("sent")' => Pending("sent")
      BY <1>4 DEF Pending
  <2>4. QED
      BY <1>1, <1>3, <2>1, <2>2, <2>3 DEF ReleaseInv
<1>6. NewsInv' /\ MapsInv'
    BY <1>1, <1>3 DEF NewsInv, MapsInv
<1>7. CdevShape'
    BY <1>1, <1>3, <1>4 DEF CdevShape
<1>8. QED
    BY <1>5, <1>6, <1>7 DEF Now, ClientShape

LEMMA OperationsKeep ==
    ASSUME Now, NEW o \in Outbound,
           \/ \E t \in CdevThread : init_request(t, o) \/ ioctl_send_phy_packet(t, o)
           \/ complete_transaction(o) \/ ResponseQueued(o) \/ ResponsePuts(o)
    PROVE  Now'
<1>1. CdevShape /\ HandleInv /\ SleepInv /\ EventsInv /\ outb[o] \in OutType
    BY DEF Now, ClientShape, CdevShape
<1>2. CASE \E t \in CdevThread : init_request(t, o)
  <2> DEFINE x == [kind |-> "request", pc |-> "sent"]
  <2>1. x \in OutType /\ x.pc = "sent"
      BY DEF OutType
  <2>2. /\ cl.pc = "open" /\ outb[o] = NoOut /\ outb' = [outb EXCEPT ![o] = x]
        /\ cl' = [cl EXCEPT !.kref = @ + 1] /\ UNCHANGED <<evs, cth, hnd, iso, dv, seen>>
      BY <1>2 DEF init_request, Using
  <2> HIDE DEF x
  <2>3. QED
      BY <2>1, <2>2, OperationBegins
<1>3. CASE \E t \in CdevThread : ioctl_send_phy_packet(t, o)
  <2> DEFINE x == [kind |-> "phy", pc |-> "erased"]
  <2>1. x \in OutType /\ x.pc = "erased"
      BY DEF OutType
  <2>2. /\ cl.pc = "open" /\ outb[o] = NoOut /\ outb' = [outb EXCEPT ![o] = x]
        /\ cl' = [cl EXCEPT !.kref = @ + 1] /\ UNCHANGED <<evs, cth, hnd, iso, dv, seen>>
      BY <1>3 DEF ioctl_send_phy_packet, Using
  <2> HIDE DEF x
  <2>3. QED
      BY <2>1, <2>2, OperationBegins
<1>4. CASE complete_transaction(o)
  <2> DEFINE x == [outb[o] EXCEPT !.pc = "erased"]
  <2>0. outb[o] \in [kind : {"request", "phy"}, pc : {"sent", "erased", "queued", "done"}]
    <3>1. outb[o] # NoOut
        BY <1>4 DEF complete_transaction, NoOut
    <3>2. QED
        BY <1>1, <3>1 DEF OutType
  <2>1. x \in OutType /\ x.pc = "erased"
      BY <2>0 DEF OutType
  <2>2. /\ outb[o].pc = "sent" /\ outb' = [outb EXCEPT ![o] = x]
        /\ UNCHANGED <<cl, evs, cth, hnd, iso, dv, seen>>
      BY <1>4 DEF complete_transaction
  <2> HIDE DEF x
  <2>3. cl'.kref = Holders'
    <3>1. cl'.kref = cl.kref /\ cl'.pc = cl.pc /\ x.pc \in {"sent", "erased", "queued"}
        BY <2>1, <2>2
    <3>2. outb[o].pc \in {"sent", "erased", "queued"}
        BY <2>2
    <3>3. QED
        BY <2>1, <2>2, <3>1, <3>2, OperationCounted
  <2>4. \A p \in Outbound : outb'[p] = IF p = o THEN x ELSE outb[p]
      BY <1>1, <2>2 DEF CdevShape
  <2>5. EventsInv'
    <3>1. \A p \in Outbound : outb'[p].pc \in {"queued", "done"} <=> outb[p].pc \in {"queued", "done"}
        BY <2>1, <2>2, <2>4
    <3>2. QED
        BY <1>1, <2>2, <3>1, EventsKept DEF Grown
  <2>6. SleepInv' /\ HandleInv'
      BY <1>1, <2>2 DEF SleepInv, HandleInv
  <2>7. QED
      BY <1>1, <2>1, <2>2, <2>3, <2>5, <2>6, OperationGoesOn DEF CdevShape
<1>5. CASE ResponseQueued(o)
  <2> DEFINE x == [outb[o] EXCEPT !.pc = "queued"]
             e == [type |-> outb[o].kind, of |-> o]
             odd == IF cl.kref = 0 THEN seen.odd \cup {"late"} ELSE seen.odd
             told == IF cl.in_shutdown THEN seen.events ELSE seen.events \cup {o}
  <2>0. outb[o] \in [kind : {"request", "phy"}, pc : {"sent", "erased", "queued", "done"}]
    <3>1. outb[o] # NoOut
        BY <1>5 DEF ResponseQueued, NoOut
    <3>2. QED
        BY <1>1, <3>1 DEF OutType
  <2>1. x \in OutType /\ x.pc = "queued"
      BY <2>0 DEF OutType
  <2>2. /\ outb[o].pc = "erased" /\ outb' = [outb EXCEPT ![o] = x] /\ queue_event(e)
        /\ seen' = [seen EXCEPT !.odd = odd, !.events = told]
        /\ UNCHANGED <<cl, hnd, iso, dv>>
      BY <1>5 DEF ResponseQueued
  <2>3. odd \in SUBSET Oddity /\ told \in SUBSET Outbound /\ seen.odd \subseteq odd
      BY <1>1 DEF CdevShape, SeenType, Oddity
  <2>4. /\ seen' \in SeenType /\ seen'.gen = seen.gen /\ seen'.nomem = seen.nomem /\ seen'.events = told
      BY <1>1, <2>2, <2>3 DEF CdevShape, SeenType
  <2>5. cl'.kref = Holders'
    <3>1. cl'.kref = cl.kref /\ cl'.pc = cl.pc /\ x.pc \in {"sent", "erased", "queued"}
        BY <2>1, <2>2
    <3>2. outb[o].pc \in {"sent", "erased", "queued"}
        BY <2>2
    <3> HIDE DEF x
    <3>3. QED
        BY <2>1, <2>2, <3>1, <3>2, OperationCounted
  <2>6. e \in CdevEvent /\ e.of = o
    <3>1. outb[o].kind \in {"request", "phy"}
        BY <2>0
    <3>2. QED
        BY <3>1 DEF CdevEvent
  <2>7. \A p \in Outbound : outb'[p] = IF p = o THEN x ELSE outb[p]
      BY <1>1, <2>2 DEF CdevShape
  <2> HIDE DEF x, e, odd
  <2>8. /\ evs' \in Seq(CdevEvent) /\ cth' \in [CdevThread -> ThreadType] /\ SleepInv' /\ HandleInv'
        /\ \A t \in CdevThread : cth[t] = Resting => cth'[t] = Resting
        /\ evs' = evs \/ (evs' = Append(evs, e) /\ ~cl.in_shutdown)
      BY <2>2, <2>6, QueueKeeps DEF Now
  <2>9. o \notin seen.events /\ \A m \in 1..Len(evs) : evs[m].of # o
      BY <1>1, <2>2 DEF EventsInv
  <2>10. EventsInv'
    <3>1. CASE cl.in_shutdown
      <4>1. evs' = evs /\ seen'.events = seen.events /\ cl'.in_shutdown
          BY <2>2, <2>4, <2>8, <3>1
      <4>2. QED
          BY <1>1, <2>1, <2>7, <4>1 DEF EventsInv
    <3>2. CASE ~cl.in_shutdown
      <4>1. evs' = Append(evs, e) /\ seen'.events = seen.events \cup {o}
          BY <2>2, <2>4, <3>2 DEF queue_event
      <4>2. /\ Len(evs) \in Nat /\ Len(evs') = Len(evs) + 1
            /\ \A m \in 1..Len(evs) : evs'[m] = evs[m]
            /\ evs'[Len(evs) + 1].of = o
          BY <1>1, <2>6, <4>1 DEF CdevShape
      <4>3. ASSUME NEW p \in Outbound, NEW m \in 1..Len(evs'), evs'[m].of = p
            PROVE  \/ p = o /\ m = Len(evs) + 1
                   \/ p # o /\ m \in 1..Len(evs) /\ evs[m].of = p
        <5>1. CASE m = Len(evs) + 1
            BY <4>2, <4>3, <5>1
        <5>2. CASE m \in 1..Len(evs)
            BY <2>9, <4>2, <4>3, <5>2
        <5>3. QED
            BY <4>2, <5>1, <5>2
      <4>4. \A p \in Outbound, m, n \in 1..Len(evs') : evs'[m].of = p /\ evs'[n].of = p => m = n
          BY <1>1, <4>3 DEF EventsInv
      <4>5. \A p \in Outbound, m \in 1..Len(evs') : evs'[m].of = p => p \in seen'.events
          BY <1>1, <4>1, <4>3 DEF EventsInv
      <4>6. \A p \in Outbound :
              /\ p \in seen'.events => outb'[p].pc \in {"queued", "done"}
              /\ outb'[p].pc \in {"queued", "done"} /\ ~cl'.in_shutdown => p \in seen'.events
          BY <1>1, <2>1, <2>2, <2>7, <3>2, <4>1 DEF EventsInv
      <4>7. QED
          BY <4>4, <4>5, <4>6 DEF EventsInv
    <3>3. QED
        BY <3>1, <3>2
  <2>11. QED
      BY <2>1, <2>2, <2>4, <2>5, <2>8, <2>10, OperationGoesOn
<1>6. CASE ResponsePuts(o)
  <2> DEFINE x == [outb[o] EXCEPT !.pc = "done"]
  <2>0. outb[o] \in [kind : {"request", "phy"}, pc : {"sent", "erased", "queued", "done"}]
    <3>1. outb[o] # NoOut
        BY <1>6 DEF ResponsePuts, NoOut
    <3>2. QED
        BY <1>1, <3>1 DEF OutType
  <2>1. x \in OutType /\ x.pc = "done"
      BY <2>0 DEF OutType
  <2>2. /\ outb[o].pc = "queued" /\ outb' = [outb EXCEPT ![o] = x] /\ cl' = [cl EXCEPT !.kref = @ - 1]
        /\ UNCHANGED <<evs, cth, hnd, iso, dv, seen>>
      BY <1>6 DEF ResponsePuts
  <2> HIDE DEF x
  <2>3. cl'.kref = cl.kref - 1 /\ cl'.pc = cl.pc /\ cl'.in_shutdown = cl.in_shutdown
      BY <1>1, <2>2 DEF CdevShape, ClientType
  <2>4. cl'.kref = Holders'
    <3>1. outb[o].pc \in {"sent", "erased", "queued"}
        BY <2>2
    <3>2. QED
        BY <2>1, <2>2, <2>3, <3>1, OperationCounted
  <2>5. \A p \in Outbound : outb'[p] = IF p = o THEN x ELSE outb[p]
      BY <1>1, <2>2 DEF CdevShape
  <2>6. EventsInv'
    <3>1. \A p \in Outbound : outb'[p].pc \in {"queued", "done"} <=> outb[p].pc \in {"queued", "done"}
        BY <2>1, <2>2, <2>5
    <3>2. QED
        BY <1>1, <2>2, <2>3, <3>1, EventsKept DEF Grown
  <2>7. SleepInv' /\ HandleInv'
      BY <1>1, <2>2 DEF SleepInv, HandleInv
  <2>8. QED
      BY <1>1, <2>1, <2>2, <2>4, <2>6, <2>7, OperationGoesOn DEF CdevShape
<1>7. QED
    BY <1>2, <1>3, <1>4, <1>5, <1>6

-----------------------------------------------------------------------------
(* Other events, and the end of the release.                                *)
LEMMA QueueStep ==
    ASSUME Now, NEW e \in CdevEvent, e.of \notin Outbound, queue_event(e), UNCHANGED <<cl, outb, hnd>>,
           iso' = iso \/ iso' = [iso EXCEPT !.work = "idle"], dv' \in DeviceType,
           seen' \in SeenType, seen'.events = seen.events, seen.odd \subseteq seen'.odd, NewsInv'
    PROVE  Now'
<1>1. CdevShape /\ EventsInv /\ MapsInv /\ ReleaseInv
    BY DEF Now, ClientShape
<1>2. /\ evs' \in Seq(CdevEvent) /\ cth' \in [CdevThread -> ThreadType] /\ SleepInv' /\ HandleInv'
      /\ \A t \in CdevThread : cth[t] = Resting => cth'[t] = Resting
      /\ evs' = evs \/ (evs' = Append(evs, e) /\ ~cl.in_shutdown)
    BY QueueKeeps DEF Now
<1>3. EventsInv'
    BY <1>1, <1>2, EventsKept DEF Grown
<1>4. iso' \in IsoType /\ iso'.ctx = iso.ctx /\ iso'.pages = iso.pages /\ iso'.maps = iso.maps
    BY <1>1 DEF CdevShape, IsoType
<1>5. ReleaseInv'
  <2>1. cl.pc = "closed" => evs' = evs
      BY <1>1, <1>2 DEF ReleaseInv
  <2>2. Pending("sent")' <=> Pending("sent")
      BY DEF Pending
  <2>3. QED
      BY <1>1, <1>2, <1>4, <2>1, <2>2 DEF ReleaseInv
<1>6. cl'.kref = Holders'
    BY SameHolders
<1>7. MapsInv'
    BY <1>1, <1>4 DEF MapsInv
<1>8. CdevShape'
    BY <1>1, <1>2, <1>4 DEF CdevShape
<1>9. QED
    BY <1>2, <1>3, <1>5, <1>6, <1>7, <1>8 DEF Now, ClientShape

LEMMA NoMemoryLeft ==
    ASSUME Now, OutOfMemory
    PROVE  /\ seen' \in SeenType /\ seen'.events = seen.events /\ seen'.odd = seen.odd
           /\ seen'.gen = seen.gen /\ seen'.nomem > 0
<1>1. seen \in SeenType
    BY DEF Now, ClientShape, CdevShape
<1>2. seen.nomem + 1 \in Nat /\ seen.nomem + 1 > 0 /\ seen' = [seen EXCEPT !.nomem = seen.nomem + 1]
    BY <1>1 DEF OutOfMemory, SeenType
<1>3. QED
    BY <1>1, <1>2 DEF SeenType

LEMMA EventsKeep ==
    ASSUME Now, CdevSane, CdevSane',
           \/ fw_device_cdev_update \/ fw_device_cdev_remove \/ fw_cdev_handle_phy_packet \/ iso_callback
           \/ \E t \in CdevThread : dequeue_event(t)
    PROVE  Now'
<1>1. /\ cl \in ClientType /\ iso \in IsoType /\ seen \in SeenType /\ dv \in DeviceType
      /\ cth \in [CdevThread -> ThreadType] /\ evs \in Seq(CdevEvent)
      /\ MapsInv /\ NewsInv /\ ReleaseInv /\ SleepInv /\ HandleInv /\ EventsInv
    BY DEF Now, ClientShape, CdevShape
<1>2. \A n \in Nat, w \in {"bus reset", "phy received", "iso"} :
        /\ [type |-> w, of |-> n] \in CdevEvent
        /\ [type |-> w, of |-> n].of \notin Outbound
  <2>1. \A n \in Nat : n \notin Outbound
      BY CdevAssumption
  <2>2. QED
      BY <2>1 DEF CdevEvent
<1>3. CASE fw_device_cdev_update
  <2>1. dv.update /\ dv' = [dv EXCEPT !.update = FALSE] /\ UNCHANGED <<cl, outb, hnd, iso>>
      BY <1>3 DEF fw_device_cdev_update
  <2>2. dv' \in DeviceType /\ dv'.gen = dv.gen /\ dv'.st = dv.st /\ dv'.remove = dv.remove /\ dv.gen \in Nat
      BY <1>1, <2>1 DEF DeviceType
  <2>3. CASE /\ queue_event([type |-> "bus reset", of |-> dv.gen])
             /\ seen' = [seen EXCEPT !.gen = dv.gen]
    <3>1. /\ seen' \in SeenType /\ seen'.events = seen.events /\ seen'.odd = seen.odd /\ seen'.gen = dv.gen
        BY <1>1, <2>2, <2>3 DEF SeenType
    <3>2. NewsInv'
        BY <2>2, <3>1 DEF NewsInv
    <3>3. QED
        BY <1>2, <2>1, <2>2, <2>3, <3>1, <3>2, QueueStep
  <2>4. CASE UNCHANGED <<evs, cth>> /\ (OutOfMemory \/ (~cl.listed /\ UNCHANGED seen))
    <3>1. /\ seen' \in SeenType /\ seen'.events = seen.events /\ seen'.odd = seen.odd
          /\ cl.listed => seen'.nomem > 0
        BY <1>1, <2>4, NoMemoryLeft
    <3>2. NewsInv' /\ ReleaseInv' /\ MapsInv' /\ Grown
        BY <1>1, <2>1, <2>4, <3>1 DEF NewsInv, ReleaseInv, MapsInv, Grown, Pending
    <3>3. EventsInv' /\ HandleInv' /\ SleepInv'
        BY <1>1, <2>1, <2>2, <2>4, <3>1 DEF EventsInv, HandleInv, SleepInv
    <3>4. cl'.kref = Holders'
        BY <2>1, SameHolders
    <3>5. CdevShape'
        BY <2>1, <2>2, <2>4, <3>1 DEF Now, ClientShape, CdevShape
    <3>6. QED
        BY <3>2, <3>3, <3>4, <3>5 DEF Now, ClientShape
  <2>5. QED
      BY <1>3, <2>3, <2>4 DEF fw_device_cdev_update
<1>4. CASE fw_device_cdev_remove
  <2>1. dv' = [dv EXCEPT !.remove = FALSE] /\ UNCHANGED <<cl, evs, outb, hnd, iso>>
      BY <1>4 DEF fw_device_cdev_remove
  <2>2. dv' \in DeviceType /\ dv'.gen = dv.gen /\ dv'.update = dv.update
      BY <1>1, <2>1 DEF DeviceType
  <2>3. /\ \/ cth' = Awake /\ UNCHANGED seen
           \/ seen' = [seen EXCEPT !.odd = @ \cup {"unlisted"}] /\ UNCHANGED cth
      BY <1>4 DEF fw_device_cdev_remove
  <2>4. /\ seen' \in SeenType /\ seen'.events = seen.events /\ seen.odd \subseteq seen'.odd
        /\ seen'.gen = seen.gen /\ seen'.nomem = seen.nomem
      BY <1>1, <2>3 DEF SeenType, Oddity
  <2>5. /\ cth' \in [CdevThread -> ThreadType] /\ SleepInv' /\ HandleInv'
        /\ \A t \in CdevThread : cth[t] = Resting => cth'[t] = Resting
    <3>1. CASE cth' = Awake
        BY <2>1, <3>1, AwakeKeeps DEF Now, ClientShape
    <3>2. CASE seen' = [seen EXCEPT !.odd = @ \cup {"unlisted"}] /\ UNCHANGED cth
      <4>1. "unlisted" \in seen'.odd
          BY <1>1, <3>2 DEF SeenType
      <4>2. SleepInv' /\ HandleInv'
          BY <1>1, <2>1, <3>2, <4>1 DEF SleepInv, HandleInv
      <4>3. QED
          BY <1>1, <3>2, <4>2
    <3>3. QED
        BY <2>3, <3>1, <3>2
  <2>6. NewsInv' /\ MapsInv' /\ ReleaseInv'
      BY <1>1, <2>1, <2>2, <2>4, <2>5 DEF NewsInv, MapsInv, ReleaseInv, Pending
  <2>7. EventsInv'
      BY <1>1, <2>1, <2>4 DEF EventsInv
  <2>8. cl'.kref = Holders'
      BY <2>1, SameHolders
  <2>9. CdevShape'
      BY <1>1, <2>1, <2>2, <2>4, <2>5 DEF Now, ClientShape, CdevShape
  <2>10. QED
      BY <2>5, <2>6, <2>7, <2>8, <2>9 DEF Now, ClientShape
<1>5. CASE fw_cdev_handle_phy_packet
  <2>0. cl.closure \in Nat
    <3>1. cl.closure \in {0, 1}
        BY <1>1 DEF ClientType
    <3>2. QED
        BY <3>1
  <2>1. UNCHANGED <<cl, outb, hnd, iso, dv>> /\ cl.closure \in Nat
      BY <2>0, <1>5 DEF fw_cdev_handle_phy_packet
  <2>2. CASE /\ queue_event([type |-> "phy received", of |-> cl.closure])
             /\ seen' = [seen EXCEPT !.arrivals = @ + 1,
                                     !.odd = IF cl.closure = 0 THEN @ \cup {"closure"} ELSE @]
    <3> DEFINE odd == IF cl.closure = 0 THEN seen.odd \cup {"closure"} ELSE seen.odd
    <3>1. odd \in SUBSET Oddity /\ seen.odd \subseteq odd /\ seen.arrivals + 1 \in Nat
          /\ seen' = [seen EXCEPT !.arrivals = seen.arrivals + 1, !.odd = odd]
      <4>1. seen.odd \subseteq Oddity /\ seen.arrivals \in Nat
          BY <1>1 DEF SeenType
      <4>2. odd \subseteq Oddity /\ seen.odd \subseteq odd
          BY <4>1 DEF Oddity
      <4>3. seen.arrivals + 1 \in Nat
          BY <4>1
      <4>4. seen' = [seen EXCEPT !.arrivals = seen.arrivals + 1, !.odd = odd]
          BY <2>2
      <4>5. QED
          BY <4>2, <4>3, <4>4
    <3> HIDE DEF odd
    <3>2. /\ seen' \in SeenType /\ seen'.events = seen.events /\ seen.odd \subseteq seen'.odd
          /\ seen'.gen = seen.gen /\ seen'.nomem = seen.nomem
        BY <1>1, <3>1 DEF SeenType
    <3>3. NewsInv'
        BY <1>1, <2>1, <3>2 DEF NewsInv
    <3>4. QED
        BY <1>1, <1>2, <2>1, <2>2, <3>2, <3>3, QueueStep
  <2>3. CASE OutOfMemory /\ UNCHANGED <<evs, cth>>
    <3>1. /\ seen' \in SeenType /\ seen'.events = seen.events /\ seen'.odd = seen.odd
          /\ seen'.nomem > 0
        BY <2>3, NoMemoryLeft
    <3>2. NewsInv' /\ ReleaseInv' /\ MapsInv' /\ Grown
        BY <1>1, <2>1, <2>3, <3>1 DEF NewsInv, ReleaseInv, MapsInv, Grown, Pending
    <3>3. QED
        BY <1>1, <2>1, <2>3, <3>1, <3>2, CalmStep
  <2>4. QED
      BY <1>5, <2>2, <2>3 DEF fw_cdev_handle_phy_packet
<1>6. CASE iso_callback
  <2>1. UNCHANGED <<cl, outb, hnd, dv>> /\ iso' = [iso EXCEPT !.work = "idle"]
      BY <1>6 DEF iso_callback
  <2>2. iso.ctx # "none"
      BY <1>1, <1>6 DEF iso_callback, Odd, CdevSane, SeenType
  <2>3. CASE queue_event([type |-> "iso", of |-> 0]) /\ UNCHANGED seen
    <3>1. NewsInv'
        BY <1>1, <2>1, <2>3 DEF NewsInv
    <3>2. QED
        BY <1>1, <1>2, <2>1, <2>3, <3>1, QueueStep
  <2>4. CASE OutOfMemory /\ UNCHANGED <<evs, cth>>
    <3>1. /\ seen' \in SeenType /\ seen'.events = seen.events /\ seen'.odd = seen.odd
          /\ seen'.nomem > 0
        BY <2>4, NoMemoryLeft
    <3>2. iso' \in IsoType /\ iso'.ctx = iso.ctx /\ iso'.pages = iso.pages /\ iso'.maps = iso.maps
        BY <1>1, <2>1 DEF IsoType
    <3>3. NewsInv' /\ ReleaseInv' /\ MapsInv' /\ Grown
        BY <1>1, <2>1, <2>4, <3>1, <3>2 DEF NewsInv, ReleaseInv, MapsInv, Grown, Pending
    <3>4. QED
        BY <1>1, <2>1, <2>4, <3>1, <3>2, <3>3, CalmStep
  <2>5. QED
      BY <1>6, <2>2, <2>3, <2>4 DEF iso_callback
<1>7. ASSUME NEW t \in CdevThread, dequeue_event(t)
      PROVE  Now'
  <2>1. cth[t].pc = "takes" /\ cth' = [cth EXCEPT ![t] = Resting] /\ UNCHANGED <<cl, outb, hnd, iso, dv>>
      BY <1>7 DEF dequeue_event, Returns
  <2>2. evs # <<>> /\ evs' = Tail(evs) /\ seen' = seen
    <3>1. CASE evs = <<>>
        BY <1>1, <1>7, <3>1 DEF dequeue_event, CdevSane, SeenType
    <3>2. QED
        BY <1>7, <3>1 DEF dequeue_event
  <2>3. evs' \in Seq(CdevEvent)
      BY <1>1, <2>2
  <2>4. EventsInv'
      BY <2>1, <2>2, EventsKept DEF Grown, Now, ClientShape
  <2>5. SleepInv'
      BY <1>1, <2>1, <2>2 DEF SleepInv, Resting
  <2>6. /\ Resting \in ThreadType /\ Resting.pc = "idle"
        /\ cth' \in [CdevThread -> ThreadType] /\ cth'[t] = Resting
        /\ \A u \in CdevThread \ {t} : cth'[u] = cth[u]
      BY <1>1, <2>1 DEF Resting, ThreadType
  <2>7. HandleInv'
      BY <1>1, <2>1, <2>6 DEF HandleInv
  <2>8. ReleaseInv' /\ NewsInv' /\ MapsInv'
      BY <1>1, <2>1, <2>2, WhileOpen, OpenNotShut, BusyMeansOpen DEF NewsInv, MapsInv
  <2>9. cl'.kref = Holders'
      BY <2>1, SameHolders
  <2>10. CdevShape'
      BY <1>1, <2>1, <2>2, <2>3, <2>6 DEF Now, ClientShape, CdevShape
  <2>11. QED
      BY <2>4, <2>5, <2>7, <2>8, <2>9, <2>10 DEF Now, ClientShape
<1>8. QED
    BY <1>3, <1>4, <1>5, <1>6, <1>7

LEMMA ReleaseKeeps ==
    ASSUME Now, ReleaseEnds
    PROVE  Now'
<1>1. CdevShape /\ NewsInv /\ MapsInv /\ ReleaseInv /\ HandleInv /\ EventsInv /\ SleepInv
    BY DEF Now, ClientShape
<1>2. /\ cl.pc = "waits" /\ ~Pending("sent")
      /\ cl' = [cl EXCEPT !.pc = "closed", !.kref = @ - Cardinality(Listed) - 1]
      /\ hnd' = [h \in CdevHandle |-> IF h \in Listed THEN "none" ELSE hnd[h]]
      /\ evs' = <<>> /\ UNCHANGED <<cth, outb, iso, dv, seen>>
    BY DEF ReleaseEnds, no_outbound_transactions
<1>3. \A h \in CdevHandle : hnd[h] \in {"none", "listed"}
    BY <1>1, <1>2 DEF ReleaseInv, HandleInv, Resting, CdevShape
<1>4. Listed = HandleHolds /\ \A h \in CdevHandle : hnd'[h] = "none"
    BY <1>2, <1>3 DEF Listed, HandleHolds
<1>5. HandleHolds' = {} /\ OutHolds' = OutHolds
    BY <1>2, <1>4 DEF HandleHolds, OutHolds
<1>6. /\ cl'.pc = "closed" /\ cl'.kref = cl.kref - Cardinality(Listed) - 1
      /\ cl'.in_shutdown = cl.in_shutdown /\ cl'.listed = cl.listed /\ cl'.phy = cl.phy
    BY <1>1, <1>2 DEF CdevShape, ClientType
<1>7. cl'.kref = Holders'
  <2>1. OutHolds \in SUBSET Outbound /\ HandleHolds \in SUBSET CdevHandle
      BY DEF OutHolds, HandleHolds
  <2>2. Cardinality(OutHolds) \in Nat /\ Cardinality(HandleHolds) \in Nat
      BY <2>1, HoldersAreFew
  <2>3. cl.kref = Cardinality(OutHolds) + Cardinality(HandleHolds) + 1
      BY <1>2 DEF Now, Holders
  <2>4. Cardinality(HandleHolds') = 0
      BY <1>5, FS_EmptySet
  <2>5. Holders' = Cardinality(OutHolds) + 0 + 0
      BY <1>5, <1>6, <2>4 DEF Holders
  <2>6. QED
      BY <1>4, <1>6, <2>2, <2>3, <2>5
<1>8. cl'.kref \in Nat
    BY <1>7, Counted DEF Now
<1>9. cl' \in ClientType
    BY <1>1, <1>2, <1>6, <1>8 DEF CdevShape, ClientType
<1>10. ReleaseInv'
  <2>1. ~Pending("sent")'
      BY <1>2 DEF Pending
  <2>2. QED
      BY <1>1, <1>2, <1>4, <1>6, <2>1 DEF ReleaseInv
<1>11. EventsInv' /\ NewsInv' /\ MapsInv'
  <2>1. EventsInv'
      BY <1>1, <1>2, <1>6, EventsKept DEF Grown
  <2>2. QED
      BY <1>1, <1>2, <1>6, <2>1 DEF NewsInv, MapsInv
<1>12. SleepInv' /\ HandleInv'
    BY <1>1, <1>2, <1>4 DEF SleepInv, HandleInv, ReleaseInv, Resting
<1>13. CdevShape'
  <2>1. hnd' \in [CdevHandle -> {"none", "added", "listed", "erased"}] /\ evs' \in Seq(CdevEvent)
      BY <1>2, <1>3
  <2>2. QED
      BY <1>1, <1>2, <1>9, <2>1 DEF CdevShape
<1>14. QED
    BY <1>7, <1>10, <1>11, <1>12, <1>13 DEF Now, ClientShape

-----------------------------------------------------------------------------
LEMMA ClientInitially == CdevInit => ClientInv
<1> SUFFICES ASSUME CdevInit PROVE Now
    BY DEF ClientInv, Now
<1>1. CdevShape
  <2>1. 0 \in Nat /\ 0 \in {0, 1} /\ 0 \in 0..2
      OBVIOUS
  <2>2. cl \in ClientType
      BY <2>1 DEF CdevInit, ClientType
  <2>3. evs \in Seq(CdevEvent) /\ cth \in [CdevThread -> ThreadType]
      BY DEF CdevInit, ThreadType, Resting
  <2>4. outb \in [Outbound -> OutType] /\ hnd \in [CdevHandle -> {"none", "added", "listed", "erased"}]
      BY DEF CdevInit, OutType
  <2>5. iso \in IsoType
      BY <2>1 DEF CdevInit, IsoType, NoContext
  <2>6. dv \in DeviceType /\ seen \in SeenType
      BY <2>1 DEF CdevInit, DeviceType, SeenType
  <2>7. QED
      BY <2>2, <2>3, <2>4, <2>5, <2>6 DEF CdevShape
<1>2. EventsInv
  <2>1. evs = <<>> /\ Len(evs) = 0 /\ seen.events = {}
      BY DEF CdevInit
  <2>2. \A o \in Outbound : outb[o].pc = "none"
      BY DEF CdevInit, NoOut
  <2>3. QED
      BY <2>1, <2>2 DEF EventsInv
<1>7. \A t \in CdevThread : cth[t] = Resting /\ cth[t].pc = "idle"
    BY DEF CdevInit, Resting
<1>8. NewsInv /\ SleepInv
    BY <1>7 DEF CdevInit, NewsInv, SleepInv
<1>9. HandleInv
  <2>1. \A h \in CdevHandle : hnd[h] = "none"
      BY DEF CdevInit
  <2>2. QED
      BY <1>7, <2>1 DEF HandleInv
<1>10. MapsInv
    BY DEF CdevInit, MapsInv, NoContext
<1>3. ReleaseInv
    BY <1>7 DEF CdevInit, ReleaseInv
<1>4. OutHolds = {} /\ HandleHolds = {}
    BY DEF CdevInit, OutHolds, HandleHolds, NoOut
<1>5. cl.kref = Holders
    BY <1>4, FS_EmptySet DEF Holders, CdevInit
<1>6. QED
    BY <1>1, <1>2, <1>3, <1>5, <1>8, <1>9, <1>10 DEF Now, ClientShape

LEMMA ClientInductive == ClientInv /\ [CdevNext]_cdevvars => ClientInv'
<1> SUFFICES ASSUME ClientInv, [CdevNext]_cdevvars, CdevSane' PROVE Now'
    BY DEF ClientInv, Now
<1>1. CASE UNCHANGED cdevvars
  <2>1. CdevSane /\ Now
      BY <1>1 DEF cdevvars, CdevSane, ClientInv, Now
  <2>2. EventsInv' /\ NewsInv' /\ SleepInv' /\ HandleInv' /\ MapsInv'
      BY <1>1, <2>1 DEF cdevvars, Now, ClientShape, EventsInv, NewsInv, SleepInv, HandleInv, MapsInv
  <2>3. ReleaseInv'
      BY <1>1, <2>1 DEF cdevvars, Now, ClientShape, ReleaseInv, Pending
  <2>4. cl'.kref = Holders'
      BY <1>1, <2>1, SameHolders DEF cdevvars
  <2>5. CdevShape'
      BY <1>1, <2>1 DEF cdevvars, Now, ClientShape, CdevShape
  <2>6. QED
      BY <2>2, <2>3, <2>4, <2>5 DEF Now, ClientShape
<1>2. CASE CdevNext
  <2>1. CdevSane /\ Now
      BY <1>2 DEF CdevNext, ClientInv, Now
  <2>2. CASE CdevOpen \/ fw_device_op_release \/ CdevRelease
      BY <2>1, <2>2, ClientCalm, IsoCalm, ReleaseKeeps DEF CdevRelease
  <2>3. ASSUME NEW t \in CdevThread, ThreadStarts(t) \/ ThreadGoesOn(t) \/ ReadInterrupted(t)
        PROVE  Now'
    <3>1. CASE ioctl_flush_iso(t)
        BY <2>1, <3>1, EventsKeep DEF ioctl_flush_iso
    <3>2. CASE ThreadStarts(t) /\ ~ioctl_flush_iso(t)
        BY <2>1, <3>2, ThreadsKeep, ClientCalm, IsoCalm, HandlesKeep, OperationsKeep DEF ThreadStarts
    <3>3. CASE ThreadGoesOn(t)
        BY <2>1, <3>3, ThreadsKeep, HandlesKeep, EventsKeep DEF ThreadGoesOn
    <3>4. CASE ReadInterrupted(t)
        BY <2>1, <3>4, ThreadsKeep
    <3>5. QED
        BY <2>3, <3>1, <3>2, <3>3, <3>4
  <2>4. CASE \E o \in Outbound : Completes(o)
      BY <2>1, <2>4, OperationsKeep DEF Completes
  <2>5. CASE DeviceUpdated \/ DeviceGone \/ IsoInterrupts
      BY <2>1, <2>5, IsoCalm
  <2>6. CASE fw_device_cdev_update \/ fw_device_cdev_remove \/ fw_cdev_handle_phy_packet \/ iso_callback
      BY <2>1, <2>6, EventsKeep
  <2>7. QED
      BY <1>2, <2>2, <2>3, <2>4, <2>5, <2>6 DEF CdevNext
<1>3. QED
    BY <1>1, <1>2

\* An event of the operation o, counted.
LEMMA OneEvent ==
    ASSUME NEW s \in Seq(CdevEvent), NEW o, NEW b \in BOOLEAN,
           \A m, n \in 1..Len(s) : s[m].of = o /\ s[n].of = o => m = n,
           \A m \in 1..Len(s) : s[m].of = o => b
    PROVE  Cardinality({n \in 1..Len(s) : s[n].of = o}) <= (IF b THEN 1 ELSE 0)
<1> DEFINE S == {n \in 1..Len(s) : s[n].of = o}
<1> SUFFICES Cardinality(S) <= (IF b THEN 1 ELSE 0)
    OBVIOUS
<1>1. CASE S = {}
  <2>1. Cardinality(S) = 0
      BY <1>1, FS_EmptySet
  <2> HIDE DEF S
  <2>2. QED
      BY <2>1
<1>2. CASE S # {}
  <2>1. PICK m \in 1..Len(s) : s[m].of = o
      BY <1>2
  <2>2. b /\ S = {m}
      BY <2>1
  <2>3. Cardinality(S) = 1
      BY <2>2, FS_Singleton
  <2> HIDE DEF S
  <2>4. QED
      BY <2>2, <2>3
<1> HIDE DEF S
<1>3. QED
    BY <1>1, <1>2

LEMMA ClientInvExact == ClientInv => ClientExact
<1> SUFFICES ASSUME Now PROVE ClientExact
    BY DEF ClientInv, Now, ClientExact
<1>1. CdevShape /\ EventsInv /\ NewsInv /\ SleepInv /\ ReleaseInv /\ cl.kref = Holders
    BY DEF Now, ClientShape
<1>2. CdevTypeOK
  <2>1. OutHolds \in SUBSET Outbound /\ HandleHolds \in SUBSET CdevHandle
      BY DEF OutHolds, HandleHolds
  <2>2. /\ Cardinality(OutHolds) \in Nat /\ Cardinality(HandleHolds) \in Nat
        /\ Cardinality(Outbound) \in Nat /\ Cardinality(CdevHandle) \in Nat
        /\ Cardinality(OutHolds) <= Cardinality(Outbound)
        /\ Cardinality(HandleHolds) <= Cardinality(CdevHandle)
      BY <2>1, HoldersAreFew
  <2>3. cl.kref <= 1 + Cardinality(Outbound) + Cardinality(CdevHandle)
      BY <1>1, <2>2 DEF Holders
  <2>4. QED
      BY <1>1, <2>3 DEF CdevShape, CdevTypeOK
<1>3. ASSUME NEW o \in Outbound
      PROVE  Cardinality({n \in 1..Len(evs) : evs[n].of = o}) <= (IF o \in seen.events THEN 1 ELSE 0)
    BY <1>1, OneEvent DEF CdevShape, EventsInv
<1>4. \A o \in Outbound : outb[o].pc = "done" /\ ~cl.in_shutdown => o \in seen.events
    BY <1>1 DEF EventsInv
<1>5. cl.listed /\ ~dv.update => seen.gen = dv.gen \/ seen.nomem > 0
    BY <1>1 DEF NewsInv
<1>6. \A t \in CdevThread :
         cth[t].pc = "sleeps" => evs = <<>> /\ (dv.st = "running" \/ dv.remove \/ "unlisted" \in seen.odd)
    BY <1>1 DEF SleepInv
<1>7. cl.pc = "closed" => /\ evs = <<>> /\ iso.maps = 0 /\ ~iso.pages /\ ~cl.listed /\ ~cl.phy
                          /\ \A h \in CdevHandle : hnd[h] = "none"
                          /\ ~Pending("sent")
    BY <1>1 DEF ReleaseInv
<1>8. QED
    BY <1>1, <1>2, <1>3, <1>4, <1>5, <1>6, <1>7 DEF ClientExact

(* ClientExact: the references of a client are counted, each operation gives it one event, a  *)
(* reader is woken, and the release of the file leaves nothing behind (fw_device_op_release(), *)
(* queue_event() and dequeue_event() against the callbacks), for any number of threads,       *)
(* operations, handles, bus resets and packets.                                               *)
THEOREM ClientCorrect == CdevSpec => []ClientExact
<1>1. CdevInit => ClientInv
    BY ClientInitially
<1>2. ClientInv /\ [CdevNext]_cdevvars => ClientInv'
    BY ClientInductive
<1>3. ClientInv => ClientExact
    BY ClientInvExact
<1>4. QED
    BY <1>1, <1>2, <1>3, PTL DEF CdevSpec
=============================================================================
