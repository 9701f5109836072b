----------------------------- MODULE AgpsProofs -----------------------------
(***************************************************************************)
(* That clients, machine and framework agree (InterfaceIsSound of AgpsNif) *)
(* for any number of clients, requests, losses and restarts.  The          *)
(* invariant says, client by client, which messages of it may still be on  *)
(* the way and in which order; and of the framework, that the notice of an *)
(* end is the last thing it says until it is asked again.                  *)
(*                                                                         *)
(* Then that the emergency call has an owner and nobody waits off the      *)
(* lists (EmergencyIsSound of AgpsDs), for any number of clients with one  *)
(* request each and any number of failures.  The invariant DsInv relates   *)
(* the state of the machine to the call, its handle and what is still to   *)
(* be heard of it; and each client to the two lists and its messages.      *)
(***************************************************************************)
EXTENDS MCAgps, FiniteSetTheorems, TLAPS

-----------------------------------------------------------------------------
(* Queues *)

Has(q, m)  == \E i \in DOMAIN q : q[i] = m
Once(q, m) == \A i, j \in DOMAIN q : q[i] = m /\ q[j] = m => i = j

\* Every m is before every n; every m has an n behind it.
Before(q, m, n)   == \A i, j \in DOMAIN q : q[i] = m /\ q[j] = n => i < j
Followed(q, m, n) == \A i \in DOMAIN q : q[i] = m => \E j \in DOMAIN q : i < j /\ q[j] = n

\* What joins a queue at its end is in it, once if it was not; whatever was in it stays,
\* in its order.
LEMMA Joining ==
  ASSUME NEW S, NEW q \in Seq(S), NEW e \in S, NEW m, NEW n
  PROVE  /\ Has(Append(q, e), m) <=> Has(q, m) \/ e = m
         /\ Once(q, m) /\ (e = m => ~Has(q, m)) => Once(Append(q, e), m)
         /\ Before(q, m, n) /\ (e = m => ~Has(q, n) /\ m # n) => Before(Append(q, e), m, n)
         /\ m # n /\ (e = n \/ (Followed(q, m, n) /\ e # m)) => Followed(Append(q, e), m, n)
<1> DEFINE a == Append(q, e)
<1>1. /\ DOMAIN q = 1 .. Len(q) /\ Len(q) \in Nat
      /\ DOMAIN a = 1 .. Len(q) + 1
      /\ \A i \in 1 .. Len(q) : a[i] = q[i]
      /\ a[Len(q) + 1] = e
  OBVIOUS
<1> HIDE DEF a
<1>2. \A i \in DOMAIN a : (i \in DOMAIN q /\ a[i] = q[i]) \/ (i = Len(q) + 1 /\ a[i] = e)
  BY <1>1
<1>3. Has(a, m) <=> Has(q, m) \/ e = m
  <2>1. Has(a, m) => Has(q, m) \/ e = m
    BY <1>2 DEF Has
  <2>2. Has(q, m) => Has(a, m)
    BY <1>1 DEF Has
  <2>3. e = m => Has(a, m)
    BY <1>1 DEF Has
  <2> QED BY <2>1, <2>2, <2>3
<1>4. Once(q, m) /\ (e = m => ~Has(q, m)) => Once(a, m)
  BY <1>2 DEF Has, Once
<1>5. Before(q, m, n) /\ (e = m => ~Has(q, n) /\ m # n) => Before(a, m, n)
  <2> SUFFICES ASSUME Before(q, m, n), e = m => ~Has(q, n) /\ m # n,
                      NEW i \in DOMAIN a, NEW j \in DOMAIN a, a[i] = m, a[j] = n
               PROVE  i < j
    BY DEF Before
  <2>1. CASE i \in DOMAIN q /\ a[i] = q[i] /\ j \in DOMAIN q /\ a[j] = q[j]
    BY <2>1 DEF Before
  <2>2. CASE i \in DOMAIN q /\ j = Len(q) + 1
    BY <2>2, <1>1
  <2>3. CASE i = Len(q) + 1 /\ a[i] = e
    BY <2>3, <1>2 DEF Has
  <2> QED BY <1>2, <2>1, <2>2, <2>3
<1>6. m # n /\ (e = n \/ (Followed(q, m, n) /\ e # m)) => Followed(a, m, n)
  <2> SUFFICES ASSUME m # n, e = n \/ (Followed(q, m, n) /\ e # m),
                      NEW i \in DOMAIN a, a[i] = m
               PROVE  \E j \in DOMAIN a : i < j /\ a[j] = n
    BY DEF Followed
  <2>1. i \in DOMAIN q /\ a[i] = q[i]
    BY <1>2
  <2>2. CASE e = n
    BY <2>1, <2>2, <1>1
  <2>3. CASE Followed(q, m, n)
    <3>1. PICK j \in DOMAIN q : i < j /\ q[j] = n
      BY <2>1, <2>3 DEF Followed
    <3> QED BY <3>1, <1>1
  <2> QED BY <2>2, <2>3
<1> QED BY <1>3, <1>4, <1>5, <1>6 DEF a

\* What is taken from the head of a queue leaves the rest as it was.
LEMMA Leaving ==
  ASSUME NEW S, NEW q \in Seq(S), q # <<>>, NEW m, NEW n
  PROVE  /\ Has(q, m) <=> Head(q) = m \/ Has(Tail(q), m)
         /\ Once(q, m) => Once(Tail(q), m)
         /\ Once(q, m) /\ Head(q) = m => ~Has(Tail(q), m)
         /\ Before(q, m, n) => Before(Tail(q), m, n)
         /\ Before(q, m, n) /\ Head(q) = n => ~Has(Tail(q), m) /\ ~Has(q, m)
         /\ Followed(q, m, n) => Followed(Tail(q), m, n)
         /\ Followed(q, m, n) /\ Head(q) = m => Has(Tail(q), n)
<1> DEFINE t == Tail(q)
<1>1. /\ DOMAIN q = 1 .. Len(q) /\ Len(q) \in Nat \ {0}
      /\ DOMAIN t = 1 .. Len(q) - 1
      /\ \A i \in 1 .. Len(q) - 1 : t[i] = q[i + 1]
      /\ Head(q) = q[1]
  OBVIOUS
<1> HIDE DEF t
<1>2. \A i \in DOMAIN t : i \in Nat /\ i + 1 \in DOMAIN q /\ t[i] = q[i + 1]
  BY <1>1
<1>3. \A i \in DOMAIN q : i # 1 => i - 1 \in DOMAIN t /\ i \in Nat /\ t[i - 1] = q[i]
  BY <1>1
<1>4. 1 \in DOMAIN q
  BY <1>1
<1>5. Has(q, m) <=> Head(q) = m \/ Has(t, m)
  <2>1. Has(q, m) => Head(q) = m \/ Has(t, m)
    BY <1>1, <1>3 DEF Has
  <2>2. Has(t, m) => Has(q, m)
    BY <1>2 DEF Has
  <2>3. Head(q) = m => Has(q, m)
    BY <1>1, <1>4 DEF Has
  <2> QED BY <2>1, <2>2, <2>3
<1>6. Once(q, m) => Once(t, m)
  <2> SUFFICES ASSUME Once(q, m), NEW i \in DOMAIN t, NEW j \in DOMAIN t, t[i] = m, t[j] = m
               PROVE  i = j
    BY DEF Once
  <2>1. i + 1 = j + 1
    BY <1>2 DEF Once
  <2> QED BY <2>1, <1>2
<1>7. Once(q, m) /\ Head(q) = m => ~Has(t, m)
  <2> SUFFICES ASSUME Once(q, m), Head(q) = m, NEW i \in DOMAIN t, t[i] = m
               PROVE  FALSE
    BY DEF Has
  <2>1. 1 = i + 1
    BY <1>1, <1>2, <1>4 DEF Once
  <2> QED BY <2>1, <1>1
<1>8. Before(q, m, n) => Before(t, m, n)
  <2> SUFFICES ASSUME Before(q, m, n), NEW i \in DOMAIN t, NEW j \in DOMAIN t, t[i] = m, t[j] = n
               PROVE  i < j
    BY DEF Before
  <2>1. i + 1 < j + 1
    BY <1>2 DEF Before
  <2> QED BY <2>1, <1>2
<1>9. Before(q, m, n) /\ Head(q) = n => ~Has(q, m)
  <2> SUFFICES ASSUME Before(q, m, n), Head(q) = n, NEW i \in DOMAIN q, q[i] = m
               PROVE  FALSE
    BY DEF Has
  <2>1. i < 1
    BY <1>1, <1>4 DEF Before
  <2> QED BY <2>1, <1>1
<1>10. Followed(q, m, n) => Followed(t, m, n)
  <2> SUFFICES ASSUME Followed(q, m, n), NEW i \in DOMAIN t, t[i] = m
               PROVE  \E j \in DOMAIN t : i < j /\ t[j] = n
    BY DEF Followed
  <2>1. PICK j \in DOMAIN q : i + 1 < j /\ q[j] = n
    BY <1>2 DEF Followed
  <2>2. j # 1 /\ i < j - 1
    BY <2>1, <1>1, <1>2
  <2> QED BY <2>1, <2>2, <1>3
<1>11. Followed(q, m, n) /\ Head(q) = m => Has(t, n)
  <2> SUFFICES ASSUME Followed(q, m, n), Head(q) = m
               PROVE  Has(t, n)
    OBVIOUS
  <2>1. PICK j \in DOMAIN q : 1 < j /\ q[j] = n
    BY <1>1, <1>4 DEF Followed
  <2>2. j # 1
    BY <2>1, <1>1
  <2> QED BY <2>1, <2>2, <1>3 DEF Has
<1> QED BY <1>5, <1>6, <1>7, <1>8, <1>9, <1>10, <1>11 DEF t

-----------------------------------------------------------------------------
(* The transitions *)

\* The transition r: the state st and the list l it leads to, who is told what, and what
\* the framework is asked for, "none" when it is asked for nothing.
Turn(r, st, l, S, status, asks) ==
  /\ r.m = [state |-> st, list |-> l]
  /\ r.told = Tell(S, status)
  /\ Sent(r.m, r.action) = IF asks = "none" THEN <<>> ELSE <<asks>>

Lists == [Subscribers -> {"out", "active", "inactive"}]
Status(st) == st \in Statuses \cup {"NOT_FOUND"}

\* When everybody told hears the same, it is those told whose conversation moves on.
LEMMA ToldOne ==
  ASSUME NEW S \in SUBSET Subscribers, NEW st, Status(st)
  PROVE  Told(Tell(S, st)) = [s \in Subscribers |-> IF s \in S THEN Heard(conv[s], st) ELSE conv[s]]
<1> DEFINE All == Statuses \cup {"NOT_FOUND"}
           T == Tell(S, st)
           new(s) == IF \E x \in All : <<s, x>> \in T
                     THEN Heard(conv[s], CHOOSE x \in All : <<s, x>> \in T) ELSE conv[s]
<1>1. \A s, x : <<s, x>> \in T <=> s \in S /\ x = st
  BY DEF Tell
<1>2. st \in All
  BY DEF Status
<1>3. \A s \in Subscribers : new(s) = IF s \in S THEN Heard(conv[s], st) ELSE conv[s]
  <2> SUFFICES ASSUME NEW s \in Subscribers
               PROVE  new(s) = IF s \in S THEN Heard(conv[s], st) ELSE conv[s]
    OBVIOUS
  <2> HIDE DEF All, T
  <2>1. CASE s \in S
    <3>1. \E x \in All : <<s, x>> \in T
      BY <1>1, <1>2, <2>1
    <3>2. (CHOOSE x \in All : <<s, x>> \in T) = st
      BY <1>1, <1>2, <2>1
    <3> QED BY <2>1, <3>1, <3>2
  <2>2. CASE s \notin S
    BY <1>1, <2>2
  <2> QED BY <2>1, <2>2
<1>4. Told(T) = [s \in Subscribers |-> new(s)]
  BY DEF Told
<1> HIDE DEF new
<1> QED BY <1>3, <1>4

\* What a handler does when it makes a transition.
Made(r, st, l, S, status, asks) ==
  /\ st \in States /\ l \in Lists
  /\ S \in SUBSET Subscribers /\ Status(status) /\ asks \in {"none", "REQUEST", "RELEASE"}
  /\ Turn(r, st, l, S, status, asks) /\ Become(r)

Typed ==
  /\ nif \in Machine /\ asked \in Seq({"REQUEST", "RELEASE"})
  /\ conv \in [Subscribers -> {"closed", "opening", "open", "closing", "lost"}]

Moves(st, l, S, status, asks) ==
  /\ Typed'
  /\ nif' = [state |-> st, list |-> l]
  /\ conv' = [s \in Subscribers |-> IF s \in S THEN Heard(conv[s], status) ELSE conv[s]]
  /\ asked' = IF asks = "none" THEN asked ELSE Append(asked, asks)

LEMMA Turning ==
  ASSUME TypeOK, NEW r, NEW st, NEW l, NEW S, NEW status, NEW asks,
         Made(r, st, l, S, status, asks)
  PROVE  Moves(st, l, S, status, asks)
<1> USE DEF Made
<1>1. nif' = [state |-> st, list |-> l]
  BY DEF Turn, Become
<1>2. conv' = Told(Tell(S, status))
  BY DEF Turn, Become
<1>3. asked \in Seq({"REQUEST", "RELEASE"})
  BY DEF TypeOK
<1>4. asked' = asked \o IF asks = "none" THEN <<>> ELSE <<asks>>
  BY DEF Turn, Become
<1>5. asked \o <<>> = asked
  BY <1>3
<1>6. asks # "none" => asked \o <<asks>> = Append(asked, asks)
  BY <1>3
<1>7. conv' = [s \in Subscribers |-> IF s \in S THEN Heard(conv[s], status) ELSE conv[s]]
  BY <1>2, ToldOne
<1>8. nif' \in Machine
  BY <1>1 DEF Machine, Lists
<1>9. asked' \in Seq({"REQUEST", "RELEASE"})
  <2>1. CASE asks = "none"
    BY <1>3, <1>4, <1>5, <2>1
  <2>2. CASE asks # "none"
    <3>1. asked' = asked \o <<asks>>
      BY <1>4, <2>2
    <3>2. <<asks>> \in Seq({"REQUEST", "RELEASE"})
      BY <2>2
    <3> QED BY <1>3, <3>1, <3>2
  <2> QED BY <2>1, <2>2
<1>10. \A c \in {"closed", "opening", "open", "closing", "lost"} :
         Heard(c, status) \in {"closed", "opening", "open", "closing", "lost"}
  BY DEF Heard, atlOpenStatus, atlCloseStatus
<1>11. conv \in [Subscribers -> {"closed", "opening", "open", "closing", "lost"}]
  BY DEF TypeOK
<1>12. conv' \in [Subscribers -> {"closed", "opening", "open", "closing", "lost"}]
  BY <1>7, <1>10, <1>11
<1> QED BY <1>1, <1>4, <1>5, <1>6, <1>7, <1>8, <1>9, <1>12 DEF Moves, Typed

\* A handler keeps the types if the transition does.
LEMMA HandleTyped ==
  ASSUME TypeOK, NEW what, Handle(what), Typed'
  PROVE  TypeOK'
<1>1. msgs' \in Seq(MsgType)
  <2>1. msgs \in Seq(MsgType) /\ msgs # <<>> /\ msgs' = Tail(msgs)
    BY DEF TypeOK, Handle
  <2> QED BY <2>1
<1>2. UNCHANGED <<kind, conn, used>>
  BY DEF Handle
<1> QED BY <1>1, <1>2 DEF TypeOK, Typed, MsgType

LEMMA ActivesOf ==
  ASSUME NEW st, NEW l
  PROVE  /\ Actives([state |-> st, list |-> l]) = {s \in Subscribers : l[s] = "active"}
         /\ Inactives([state |-> st, list |-> l]) = {s \in Subscribers : l[s] = "inactive"}
  BY DEF Actives, Inactives

\* A machine with a subscriber more.
With(l, s) == [l EXCEPT ![s] = IF @ = "out" THEN "active" ELSE @]

\* A Released machine asks for the interface; an Acquired one grants it at once.
LEMMA SubscribeTurns ==
  ASSUME NEW m \in Machine, NEW s \in Subscribers
  PROVE  IF m.state = "Released" /\ m.list[s] = "out"
         THEN Turn(Subscribe(m, s, TRUE), "Pending", With(m.list, s), {}, "GRANTED", "REQUEST")
         ELSE m.state # "Released" =>
              Turn(Subscribe(m, s, TRUE), m.state, With(m.list, s),
                   IF m.state = "Acquired" THEN {s} ELSE {}, "GRANTED", "none")
<1> DEFINE r == Subscribe(m, s, TRUE)
<1>1. /\ m = [state |-> m.state, list |-> m.list] /\ m.list \in Lists
  BY DEF Machine, Lists
<1>2. addSubscriber(m, s) = [state |-> m.state, list |-> With(m.list, s)]
  <2>1. With(m.list, s) = IF m.list[s] = "out" THEN [m.list EXCEPT ![s] = "active"] ELSE m.list
    BY <1>1 DEF With, Lists
  <2> QED BY <1>1, <2>1 DEF addSubscriber
<1>3. Tell({}, "GRANTED") = {}
  BY DEF Tell
<1>4. With(m.list, s) \in Lists
  BY <1>1 DEF With, Lists
<1>5. CASE m.state = "Released" /\ m.list[s] = "out"
  <2>1. r.m = [state |-> "Pending", list |-> With(m.list, s)] /\ r.told = {} /\ r.action = "REQUEST"
    BY <1>2, <1>5 DEF Subscribe, Outcome, InState
  <2> HIDE DEF r
  <2>2. s \in Actives(r.m)
    <3>1. With(m.list, s)[s] = "active"
      BY <1>1, <1>5 DEF With, Lists
    <3>2. Actives(r.m) = {t \in Subscribers : With(m.list, s)[t] = "active"}
      BY <2>1, ActivesOf
    <3> QED BY <3>1, <3>2
  <2>3. Sent(r.m, r.action) = <<"REQUEST">>
    BY <2>1, <2>2 DEF Sent
  <2> QED BY <1>3, <1>5, <2>1, <2>3 DEF Turn, r
<1>6. CASE m.state # "Released"
  <2>1. /\ r.m = [state |-> m.state, list |-> With(m.list, s)] /\ r.action = "none"
        /\ r.told = IF m.state = "Acquired" THEN Tell({s}, "GRANTED") ELSE {}
    BY <1>2, <1>6 DEF Subscribe, Outcome
  <2>2. Sent(r.m, r.action) = <<>>
    BY <2>1 DEF Sent
  <2> QED BY <1>3, <1>6, <2>1, <2>2 DEF Turn
<1> QED BY <1>5, <1>6

\* A list with a subscriber gone, or waiting for the close.
Less(l, s, wait) == [l EXCEPT ![s] = IF wait THEN "inactive" ELSE "out"]

\* How far the machine goes when s leaves.
Leaves(m, s, wait, st, asks) ==
  LET l == Less(m.list, s, wait) IN
  /\ Turn(Unsubscribe(m, s, wait), st, l, IF wait THEN {} ELSE {s}, "UNSUBSCRIBE", asks)
  /\ st = "Released" => \A t \in Subscribers : l[t] = "out"
  /\ st = "Releasing" => m.state = "Releasing" \/ \A t \in Subscribers : l[t] # "active"
  /\ st # m.state => \A t \in Subscribers : l[t] # "active"
  /\ st = "Acquired" => m.state = "Acquired"
  /\ wait => st # "Released"

\* Without active subscribers the machine gives the interface back, and Released it has none
\* at all.
LEMMA UnsubscribeTurns ==
  ASSUME NEW m \in Machine, NEW s \in Subscribers, NEW wait \in BOOLEAN,
         m.list[s] # "out", m.state # "Released"
  PROVE  \E st \in States, asks \in {"none", "RELEASE"} : Leaves(m, s, wait, st, asks)
<1> DEFINE r    == Unsubscribe(m, s, wait)
           l    == Less(m.list, s, wait)
           left == [state |-> m.state, list |-> l]
           told == Tell(IF wait THEN {} ELSE {s}, "UNSUBSCRIBE")
<1>1. m = [state |-> m.state, list |-> m.list] /\ m.list \in Lists /\ m.state \in States
  BY DEF Machine, Lists
<1>2. IF wait THEN [m EXCEPT !.list[s] = "inactive"] = left ELSE Without(m, {s}) = left
  <2>1. CASE wait
    BY <1>1, <2>1 DEF Less
  <2>2. CASE ~wait
    <3>1. l = [t \in Subscribers |-> IF t \in {s} THEN "out" ELSE m.list[t]]
      BY <1>1, <2>2 DEF Less, Lists
    <3>2. Without(m, {s}) = [m EXCEPT !.list = [t \in Subscribers |-> IF t \in {s} THEN "out" ELSE m.list[t]]]
      BY <1>1 DEF Without
    <3> QED BY <1>1, <2>2, <3>1, <3>2
  <2> QED BY <2>1, <2>2
<1>3. told = IF wait THEN {} ELSE Tell({s}, "UNSUBSCRIBE")
  BY DEF Tell
<1>4. l \in Lists
  BY <1>1 DEF Less, Lists
<1>5. r = IF ~hasSubscribers(left)
          THEN Outcome(InState(left, "Released"), told,
                       IF m.state = "Releasing" THEN "none" ELSE "RELEASE")
          ELSE IF ~hasActiveSubscribers(left) /\ m.state # "Releasing"
          THEN Outcome(InState(left, "Releasing"), told, "RELEASE")
          ELSE Outcome(left, told, "none")
  <2>1. CASE wait
    BY <1>2, <1>3, <2>1 DEF Unsubscribe
  <2>2. CASE ~wait
    BY <1>2, <1>3, <2>2 DEF Unsubscribe
  <2> QED BY <2>1, <2>2
<1>6. wait => l[s] = "inactive"
  BY <1>1 DEF Less, Lists
<1> HIDE DEF l, told
<1>7. \A st : /\ Actives([state |-> st, list |-> l]) = {t \in Subscribers : l[t] = "active"}
              /\ Inactives([state |-> st, list |-> l]) = {t \in Subscribers : l[t] = "inactive"}
              /\ InState(left, st) = [state |-> st, list |-> l]
  BY ActivesOf DEF InState
<1>8. /\ hasSubscribers(left) <=> \E t \in Subscribers : l[t] # "out"
      /\ hasActiveSubscribers(left) <=> \E t \in Subscribers : l[t] = "active"
  BY <1>4, <1>7 DEF hasSubscribers, hasActiveSubscribers, Lists
<1> HIDE DEF left
<1>9. CASE ~hasSubscribers(left)
  <2> DEFINE asks == IF m.state = "Releasing" THEN "none" ELSE "RELEASE"
  <2>1. \A t \in Subscribers : l[t] = "out"
    BY <1>8, <1>9
  <2>2. r.m = [state |-> "Released", list |-> l] /\ r.told = told /\ r.action = asks
    BY <1>5, <1>7, <1>9 DEF Outcome
  <2>3. Actives(r.m) = {}
    BY <1>7, <2>1, <2>2
  <2>4. Sent(r.m, r.action) = IF asks = "none" THEN <<>> ELSE <<asks>>
    BY <2>2, <2>3 DEF Sent
  <2>5. Turn(r, "Released", l, IF wait THEN {} ELSE {s}, "UNSUBSCRIBE", asks)
    BY <2>2, <2>4 DEF Turn, told
  <2>6. ~wait
    BY <1>6, <2>1
  <2>7. Leaves(m, s, wait, "Released", asks)
    BY <2>1, <2>5, <2>6 DEF Leaves, l
  <2> QED BY <2>7 DEF States
<1>10. CASE hasSubscribers(left) /\ ~hasActiveSubscribers(left) /\ m.state # "Releasing"
  <2>1. \A t \in Subscribers : l[t] # "active"
    BY <1>8, <1>10
  <2>2. r.m = [state |-> "Releasing", list |-> l] /\ r.told = told /\ r.action = "RELEASE"
    BY <1>5, <1>7, <1>10 DEF Outcome
  <2>3. Actives(r.m) = {}
    BY <1>7, <2>1, <2>2
  <2>4. Sent(r.m, r.action) = <<"RELEASE">>
    BY <2>2, <2>3 DEF Sent
  <2>5. Turn(r, "Releasing", l, IF wait THEN {} ELSE {s}, "UNSUBSCRIBE", "RELEASE")
    BY <2>2, <2>4 DEF Turn, told
  <2>6. Leaves(m, s, wait, "Releasing", "RELEASE")
    BY <2>1, <2>5 DEF Leaves, l
  <2> QED BY <2>6 DEF States
<1>11. CASE hasSubscribers(left) /\ (hasActiveSubscribers(left) \/ m.state = "Releasing")
  <2>1. r.m = [state |-> m.state, list |-> l] /\ r.told = told /\ r.action = "none"
    BY <1>5, <1>11 DEF Outcome, left
  <2>2. Sent(r.m, r.action) = <<>>
    BY <2>1 DEF Sent
  <2>3. Turn(r, m.state, l, IF wait THEN {} ELSE {s}, "UNSUBSCRIBE", "none")
    BY <2>1, <2>2 DEF Turn, told
  <2>4. Leaves(m, s, wait, m.state, "none")
    BY <2>3 DEF Leaves, l
  <2> QED BY <1>1, <2>4
<1> QED BY <1>9, <1>10, <1>11

\* A transition that changes nothing and tells nobody.
LEMMA NothingTurns ==
  ASSUME NEW m \in Machine, NEW status
  PROVE  /\ Turn(Outcome(m, {}, "none"), m.state, m.list, {}, "GRANTED", "none")
         /\ \A s : Turn(Outcome(m, Tell({s}, status), "none"), m.state, m.list, {s}, status, "none")
<1>1. m = [state |-> m.state, list |-> m.list]
  BY DEF Machine
<1>2. Tell({}, "GRANTED") = {}
  BY DEF Tell
<1> QED BY <1>1, <1>2 DEF Turn, Outcome, Sent

\* A grant means something to a Pending machine only.
LEMMA GrantedTurns ==
  ASSUME NEW m \in Machine
  PROVE  IF m.state = "Pending"
         THEN Turn(Granted(m), "Acquired", m.list, Actives(m), "GRANTED", "none")
         ELSE Turn(Granted(m), m.state, m.list, {}, "GRANTED", "none")
<1>1. m = [state |-> m.state, list |-> m.list]
  BY DEF Machine
<1>2. CASE m.state = "Pending"
  <2>1. Granted(m).m = [state |-> "Acquired", list |-> m.list]
    BY <1>1, <1>2 DEF Granted, Outcome, InState
  <2> QED BY <1>2, <2>1 DEF Turn, Granted, Outcome, Sent
<1>3. CASE m.state # "Pending"
  <2>1. Granted(m) = Outcome(m, {}, "none")
    BY <1>3 DEF Granted
  <2> QED BY <1>3, <2>1, NothingTurns
<1> QED BY <1>2, <1>3

\* The list without those that wait for the close.
Waiting(l) == [s \in Subscribers |-> IF l[s] = "inactive" THEN "out" ELSE l[s]]

\* The end of an interface tells all, or those that waited for it; if others are left it is
\* asked for again.
LEMMA EndingTurns ==
  ASSUME NEW m \in Machine, NEW status
  PROVE  /\ Turn(Dismiss(m, status), "Released", [s \in Subscribers |-> "out"],
                 Actives(m) \cup Inactives(m), status, "none")
         /\ IF hasActiveSubscribers(m)
            THEN Turn(Rearm(m, status), "Pending", Waiting(m.list), Inactives(m), status, "REQUEST")
            ELSE Turn(Rearm(m, status), "Released", Waiting(m.list), Inactives(m), status, "none")
<1>1. m = [state |-> m.state, list |-> m.list] /\ m.list \in Lists
  BY DEF Machine, Lists
<1>2. Turn(Dismiss(m, status), "Released", [s \in Subscribers |-> "out"],
           Actives(m) \cup Inactives(m), status, "none")
  BY DEF Turn, Dismiss, Outcome, Sent, NewMachine
<1>3. \A st : InState(Without(m, Inactives(m)), st) = [state |-> st, list |-> Waiting(m.list)]
  <2>1. Waiting(m.list) = [s \in Subscribers |-> IF s \in Inactives(m) THEN "out" ELSE m.list[s]]
    BY DEF Waiting, Inactives
  <2>2. Without(m, Inactives(m)) = [m EXCEPT !.list = Waiting(m.list)]
    BY <2>1, <1>1 DEF Without
  <2>3. Without(m, Inactives(m)) = [state |-> m.state, list |-> Waiting(m.list)]
    BY <1>1, <2>2
  <2> QED BY <2>3 DEF InState
<1>4. CASE hasActiveSubscribers(m)
  <2> DEFINE r == Rearm(m, status)
  <2>1. /\ r.m = [state |-> "Pending", list |-> Waiting(m.list)]
        /\ r.told = Tell(Inactives(m), status) /\ r.action = "REQUEST"
    BY <1>3, <1>4 DEF Rearm, Outcome
  <2>2. Actives(r.m) = Actives(m)
    BY <1>1, <2>1, ActivesOf DEF Waiting
  <2>3. Sent(r.m, r.action) = <<"REQUEST">>
    BY <1>4, <2>1, <2>2 DEF Sent, hasActiveSubscribers
  <2> QED BY <1>2, <1>4, <2>1, <2>3 DEF Turn
<1>5. CASE ~hasActiveSubscribers(m)
  <2> DEFINE r == Rearm(m, status)
  <2>1. /\ r.m = [state |-> "Released", list |-> Waiting(m.list)]
        /\ r.told = Tell(Inactives(m), status) /\ r.action = "none"
    BY <1>3, <1>5 DEF Rearm, Outcome
  <2> QED BY <1>2, <1>5, <2>1 DEF Turn, Sent
<1> QED BY <1>4, <1>5

-----------------------------------------------------------------------------
(* The invariant *)

req(s)  == Msg("request", s)
rel(s)  == Msg("release", s)
up      == Event("engineUp")
granted == Event("GRANTED")
denied  == Event("DENIED")
closed  == Event("RELEASED")

\* A client that sees its conversation as c and that the list has as l, with a request
\* and a release of it on the way or not.
Fit(k, c, l, asks, leaves) ==
  \/ c = "closed" /\ l = "out" /\ ~asks
  \/ c = "opening" /\ l = "out" /\ asks /\ ~leaves
  \/ c \in {"opening", "open"} /\ l = "active" /\ ~asks /\ ~leaves
  \/ c = "closing" /\ l = "out" /\ asks /\ leaves
  \/ c = "closing" /\ l = "active" /\ ~asks /\ leaves
  \/ c = "closing" /\ l = "inactive" /\ ~asks /\ ~leaves /\ k = "wifi"
  \/ c = "lost" /\ l # "inactive" /\ k = "plain"

\* The messages of s on the way: each once, the request first, and none of them behind
\* the news of a restart.
Order(s) ==
  /\ Once(msgs, req(s)) /\ Once(msgs, rel(s))
  /\ Before(msgs, req(s), rel(s)) /\ Before(msgs, req(s), up) /\ Before(msgs, rel(s), up)

Standing(s) ==
  /\ Fit(kind, conv[s], nif.list[s], Has(msgs, req(s)), Has(msgs, rel(s)))
  /\ conv[s] = "lost" <=> Has(msgs, up)
  /\ nif.state = "Released" => nif.list[s] = "out"
  /\ conv[s] = "open" => nif.state = "Acquired"

\* A grant on the way, or taken, has its connection, or the notice of the end behind it.
Backed ==
  /\ conn = "open" \/ Followed(msgs, granted, closed)
  /\ nif.state = "Acquired" => conn = "open" \/ Has(msgs, closed)

\* A Wi-Fi interface has one subscriber, or it is Released.
Single == kind = "wifi" =>
  /\ \A s, t \in Subscribers : nif.list[s] # "out" /\ nif.list[t] # "out" => s = t
  /\ nif.state # "Released" => \E s \in Subscribers : nif.list[s] # "out"
  /\ nif.state = "Releasing" => \A s \in Subscribers : nif.list[s] # "active"

\* The course of a Wi-Fi connection: it is asked for once, opens or is denied, and ends;
\* its end is the last that is heard of it until it is asked for again.
Ended  == Has(msgs, denied) \/ Has(msgs, closed)
Quiet  == ~Has(msgs, granted) /\ ~Ended
Wanted == Has(asked, "REQUEST")
Course == kind = "wifi" =>
  /\ nif.state = "Released" => Quiet /\ conn = "closed" /\ ~Wanted
  /\ Ended => conn = "closed" /\ ~Wanted
  /\ Wanted => conn = "closed" /\ Quiet
  /\ conn = "opening" => Quiet
  /\ Once(asked, "REQUEST")
  /\ Once(msgs, denied) /\ Once(msgs, closed)
  /\ ~(Has(msgs, denied) /\ Has(msgs, closed))
  /\ Before(msgs, granted, denied) /\ Before(msgs, granted, closed)

Clients == \A s \in Subscribers : Order(s) /\ Standing(s)
Inv == TypeOK /\ Clients /\ Backed /\ Single /\ Course

-----------------------------------------------------------------------------
(* Messages *)

Events == {granted, denied, closed}

\* No two kinds of messages are confused.
LEMMA Distinct ==
  /\ \A s, t : /\ req(s) = req(t) <=> s = t
               /\ rel(s) = rel(t) <=> s = t
               /\ req(s) # rel(t) /\ req(s) # up /\ rel(s) # up
               /\ req(s) \notin Events /\ rel(s) \notin Events
  /\ up \notin Events
  /\ granted # denied /\ granted # closed /\ denied # closed
  BY DEF req, rel, up, granted, denied, closed, Msg, Event, Events

LEMMA MsgTypes ==
  /\ \A s \in Subscribers : req(s) \in MsgType /\ rel(s) \in MsgType
  /\ up \in MsgType /\ Events \subseteq MsgType
  BY DEF req, rel, up, granted, denied, closed, Msg, Event, Events, MsgType

\* A message is the same at any time.
LEMMA Constant ==
  /\ \A s : req(s)' = req(s) /\ rel(s)' = rel(s)
  /\ up' = up /\ granted' = granted /\ denied' = denied /\ closed' = closed
  BY DEF req, rel, up, granted, denied, closed, Msg, Event

\* Which message a handler takes.
LEMMA Taken ==
  ASSUME TypeOK, NEW what, Handle(what)
  PROVE  /\ what = "request" => Head(msgs).who \in Subscribers /\ Head(msgs) = req(Head(msgs).who)
         /\ what = "release" => Head(msgs).who \in Subscribers /\ Head(msgs) = rel(Head(msgs).who)
         /\ what = "engineUp" => Head(msgs) = up
         /\ what = "GRANTED" => Head(msgs) = granted
         /\ what = "DENIED" => Head(msgs) = denied
         /\ what = "RELEASED" => Head(msgs) = closed
<1>1. Head(msgs) \in MsgType /\ Head(msgs).what = what
  BY DEF TypeOK, Handle
<1>2. \A m \in MsgType : m = [what |-> m.what, who |-> m.who]
                       /\ (IF m.what \in {"request", "release"} THEN m.who \in Subscribers
                                                             ELSE m.who = "framework")
  BY DEF MsgType
<1> QED BY <1>1, <1>2 DEF req, rel, up, granted, denied, closed, Msg, Event

\* The order of the clients' messages outlives the handling of any message.
LEMMA OrderTaken ==
  ASSUME TypeOK, Clients, NEW what, Handle(what)
  PROVE  \A s \in Subscribers : Order(s)'
<1>1. msgs \in Seq(MsgType) /\ msgs # <<>> /\ msgs' = Tail(msgs)
  BY DEF TypeOK, Handle
<1>2. \A m, n : /\ Once(msgs, m) => Once(msgs', m)
                /\ Before(msgs, m, n) => Before(msgs', m, n)
  BY <1>1, Leaving
<1> SUFFICES ASSUME NEW s \in Subscribers
             PROVE  Order(s)'
  OBVIOUS
<1>3. Order(s)
  BY DEF Clients
<1> QED BY <1>2, <1>3, Constant DEF Order

\* What an event of the framework changes for the clients: nothing.
LEMMA EventPosted ==
  ASSUME TypeOK, Clients, NEW e \in Events, Post(e), UNCHANGED <<kind, nif, conv>>
  PROVE  Clients'
<1>1. msgs \in Seq(MsgType) /\ e \in MsgType /\ msgs' = Append(msgs, e)
  BY MsgTypes DEF TypeOK, Post
<1>2. \A m, n : e # m =>
        /\ Has(msgs', m) <=> Has(msgs, m)
        /\ Once(msgs, m) => Once(msgs', m)
        /\ Before(msgs, m, n) => Before(msgs', m, n)
  BY <1>1, Joining
<1> SUFFICES ASSUME NEW s \in Subscribers
             PROVE  Order(s)' /\ Standing(s)'
  BY DEF Clients
<1>3. Order(s) /\ Standing(s)
  BY DEF Clients
<1>4. e # req(s) /\ e # rel(s) /\ e # up
  BY Distinct
<1>5. Order(s)'
  BY <1>2, <1>3, <1>4, Constant DEF Order
<1>6. Standing(s)'
  BY <1>2, <1>3, <1>4, Constant DEF Standing, Fit
<1> QED BY <1>5, <1>6

\* What a client or the modem posts changes nothing for the framework.
LEMMA ClientPosted ==
  ASSUME TypeOK, Backed, Single, Course, NEW e \in MsgType, e \notin Events, Post(e),
         UNCHANGED <<kind, nif, asked, conn>>
  PROVE  Backed' /\ Single' /\ Course'
<1>1. msgs \in Seq(MsgType) /\ msgs' = Append(msgs, e)
  BY DEF TypeOK, Post
<1>2. \A m \in Events : /\ Has(msgs', m) <=> Has(msgs, m)
                        /\ Once(msgs, m) => Once(msgs', m)
  BY <1>1, Joining
<1>3. \A m \in Events, n \in Events : m # n =>
        /\ Before(msgs, m, n) => Before(msgs', m, n)
        /\ Followed(msgs, m, n) => Followed(msgs', m, n)
  BY <1>1, Joining
<1>4. granted \in Events /\ denied \in Events /\ closed \in Events
  BY DEF Events
<1>5. Backed'
  BY <1>2, <1>3, <1>4, Distinct, Constant DEF Backed
<1>6. Single'
  BY DEF Single
<1>7. (Quiet' <=> Quiet) /\ (Ended' <=> Ended) /\ (Wanted' <=> Wanted)
  BY <1>2, <1>4, Constant DEF Quiet, Ended, Wanted
<1>8. Course'
  BY <1>2, <1>3, <1>4, <1>7, Distinct, Constant DEF Course
<1> QED BY <1>5, <1>6, <1>8

-----------------------------------------------------------------------------
(* The steps of clients and modem *)

\* A request joins the queue when nothing else of its client is in it.
LEMMA RequestKeeps ==
  ASSUME Inv, NEW s \in Subscribers, client_request(s)
  PROVE  Clients' /\ Backed' /\ Single' /\ Course'
<1>1. /\ msgs \in Seq(MsgType) /\ req(s) \in MsgType /\ req(s) \notin Events
      /\ msgs' = Append(msgs, req(s)) /\ Post(req(s))
  BY MsgTypes, Distinct DEF Inv, TypeOK, client_request, Post, req
<1>2. /\ conv[s] = "closed" /\ ~Has(msgs, rel(s))
      /\ conv' = [conv EXCEPT ![s] = "opening"] /\ UNCHANGED <<kind, nif, asked, conn>>
      /\ conv \in [Subscribers -> {"closed", "opening", "open", "closing", "lost"}]
  BY DEF Inv, TypeOK, client_request, Pending, rel, Has
<1>3. \A m : /\ Has(msgs', m) <=> Has(msgs, m) \/ m = req(s)
             /\ Once(msgs, m) /\ (req(s) = m => ~Has(msgs, m)) => Once(msgs', m)
  BY <1>1, Joining
<1>4. \A m, n : Before(msgs, m, n) /\ (req(s) = m => ~Has(msgs, n) /\ m # n)
                => Before(msgs', m, n)
  BY <1>1, Joining
<1>5. nif.list[s] = "out" /\ ~Has(msgs, req(s)) /\ ~Has(msgs, up)
  BY <1>2 DEF Inv, Clients, Standing, Fit
<1>6. Clients'
  <2> SUFFICES ASSUME NEW t \in Subscribers
               PROVE  Order(t)' /\ Standing(t)'
    BY DEF Clients
  <2>1. Order(t) /\ Standing(t)
    BY DEF Inv, Clients
  <2>2. req(t) = req(s) <=> t = s
    BY Distinct
  <2>3. /\ req(t) # rel(t) /\ req(t) # up /\ rel(t) # up /\ rel(t) # req(s) /\ up # req(s)
    BY Distinct
  <2>4. Order(t)'
    BY <1>2, <1>3, <1>4, <1>5, <2>1, <2>2, <2>3, Constant DEF Order
  <2>5. CASE t = s
    <3>1. conv'[s] = "opening"
      BY <1>2
    <3> QED BY <1>2, <1>3, <1>5, <2>1, <2>3, <2>4, <2>5, <3>1, Constant DEF Standing, Fit
  <2>6. CASE t # s
    <3>1. conv'[t] = conv[t]
      BY <1>2, <2>6
    <3> QED BY <1>2, <1>3, <2>1, <2>2, <2>3, <2>4, <2>6, <3>1, Constant DEF Standing, Fit
  <2> QED BY <2>5, <2>6
<1>7. Backed' /\ Single' /\ Course'
  BY <1>1, <1>2, ClientPosted DEF Inv
<1> QED BY <1>6, <1>7

\* A release joins the queue behind the request, if that is still there.
LEMMA ReleaseKeeps ==
  ASSUME Inv, NEW s \in Subscribers, client_release(s)
  PROVE  Clients' /\ Backed' /\ Single' /\ Course'
<1>1. /\ msgs \in Seq(MsgType) /\ rel(s) \in MsgType /\ rel(s) \notin Events
      /\ msgs' = Append(msgs, rel(s)) /\ Post(rel(s))
  BY MsgTypes, Distinct DEF Inv, TypeOK, client_release, Post, rel
<1>2. /\ conv[s] \in {"opening", "open"}
      /\ conv' = [conv EXCEPT ![s] = "closing"] /\ UNCHANGED <<kind, nif, asked, conn>>
      /\ conv \in [Subscribers -> {"closed", "opening", "open", "closing", "lost"}]
  BY DEF Inv, TypeOK, client_release
<1>3. \A m : /\ Has(msgs', m) <=> Has(msgs, m) \/ m = rel(s)
             /\ Once(msgs, m) /\ (rel(s) = m => ~Has(msgs, m)) => Once(msgs', m)
  BY <1>1, Joining
<1>4. \A m, n : Before(msgs, m, n) /\ (rel(s) = m => ~Has(msgs, n) /\ m # n)
                => Before(msgs', m, n)
  BY <1>1, Joining
<1>5. ~Has(msgs, rel(s)) /\ ~Has(msgs, up)
  BY <1>2 DEF Inv, Clients, Standing, Fit
<1>6. Clients'
  <2> SUFFICES ASSUME NEW t \in Subscribers
               PROVE  Order(t)' /\ Standing(t)'
    BY DEF Clients
  <2>1. Order(t) /\ Standing(t)
    BY DEF Inv, Clients
  <2>2. rel(t) = rel(s) <=> t = s
    BY Distinct
  <2>3. /\ req(t) # rel(t) /\ req(t) # up /\ rel(t) # up /\ req(t) # rel(s) /\ up # rel(s)
    BY Distinct
  <2>4. Order(t)'
    BY <1>2, <1>3, <1>4, <1>5, <2>1, <2>2, <2>3, Constant DEF Order
  <2>5. CASE t = s
    <3>1. conv'[s] = "closing"
      BY <1>2
    <3> QED BY <1>2, <1>3, <1>5, <2>1, <2>3, <2>4, <2>5, <3>1, Constant DEF Standing, Fit
  <2>6. CASE t # s
    <3>1. conv'[t] = conv[t]
      BY <1>2, <2>6
    <3> QED BY <1>2, <1>3, <2>1, <2>2, <2>3, <2>4, <2>6, <3>1, Constant DEF Standing, Fit
  <2> QED BY <2>5, <2>6
<1>7. Backed' /\ Single' /\ Course'
  BY <1>1, <1>2, ClientPosted DEF Inv
<1> QED BY <1>6, <1>7

\* The news of a restart joins the queue behind all that its clients said.
LEMMA RestartKeeps ==
  ASSUME Inv, modem_restart
  PROVE  Clients' /\ Backed' /\ Single' /\ Course'
<1>1. /\ msgs \in Seq(MsgType) /\ up \in MsgType /\ up \notin Events
      /\ msgs' = Append(msgs, up) /\ Post(up)
  BY MsgTypes, Distinct DEF Inv, TypeOK, modem_restart, Post, up
<1>2. /\ kind = "plain" /\ conv' = [s \in Subscribers |-> "lost"]
      /\ UNCHANGED <<kind, nif, asked, conn>>
  BY DEF modem_restart
<1>3. \A m : /\ Has(msgs', m) <=> Has(msgs, m) \/ m = up
             /\ Once(msgs, m) /\ up # m => Once(msgs', m)
  BY <1>1, Joining
<1>4. \A m, n : Before(msgs, m, n) /\ up # m => Before(msgs', m, n)
  BY <1>1, Joining
<1>5. Clients'
  <2> SUFFICES ASSUME NEW t \in Subscribers
               PROVE  Order(t)' /\ Standing(t)'
    BY DEF Clients
  <2>1. Order(t) /\ Standing(t)
    BY DEF Inv, Clients
  <2>2. req(t) # up /\ rel(t) # up
    BY Distinct
  <2>3. Order(t)'
    BY <1>3, <1>4, <2>1, <2>2, Constant DEF Order
  <2>4. conv'[t] = "lost" /\ nif.list[t] # "inactive"
    BY <1>2, <2>1 DEF Standing, Fit
  <2>5. Standing(t)'
    BY <1>2, <1>3, <2>1, <2>4, Constant DEF Standing, Fit
  <2> QED BY <2>3, <2>5
<1>6. Backed' /\ Single' /\ Course'
  BY <1>1, <1>2, ClientPosted DEF Inv
<1> QED BY <1>5, <1>6

-----------------------------------------------------------------------------
(* The steps of the framework *)

\* The requests not yet read: none is more than before, and none is left of one read.
Reading ==
  /\ Wanted' => Wanted
  /\ Once(asked, "REQUEST") => Once(asked', "REQUEST")

\* What is asked for once is, when read, not asked for any more.
LEMMA ReadAsked ==
  ASSUME TypeOK, fw_read
  PROVE  /\ Reading
         /\ Head(asked) = "REQUEST" => Wanted /\ (Once(asked, "REQUEST") => ~Wanted')
         /\ Head(asked) \in {"REQUEST", "RELEASE"}
<1>1. asked \in Seq({"REQUEST", "RELEASE"}) /\ asked # <<>> /\ asked' = Tail(asked)
  BY DEF TypeOK, fw_read
<1>2. /\ Has(asked, "REQUEST") <=> Head(asked) = "REQUEST" \/ Has(asked', "REQUEST")
      /\ Once(asked, "REQUEST") => Once(asked', "REQUEST")
      /\ Once(asked, "REQUEST") /\ Head(asked) = "REQUEST" => ~Has(asked', "REQUEST")
  BY <1>1, Leaving
<1> QED BY <1>1, <1>2 DEF Reading, Wanted

\* What posting an event does to the events.
LEMMA EventQueued ==
  ASSUME TypeOK, NEW e \in Events, Post(e)
  PROVE  /\ \A m : Has(msgs', m) <=> Has(msgs, m) \/ m = e
         /\ \A m : Once(msgs, m) /\ (e = m => ~Has(msgs, m)) => Once(msgs', m)
         /\ \A m, n : Before(msgs, m, n) /\ (e = m => ~Has(msgs, n) /\ m # n)
                      => Before(msgs', m, n)
         /\ \A m, n : m # n /\ (e = n \/ (Followed(msgs, m, n) /\ e # m))
                      => Followed(msgs', m, n)
<1>1. msgs \in Seq(MsgType) /\ e \in MsgType /\ msgs' = Append(msgs, e)
  BY MsgTypes DEF TypeOK, Post
<1> QED BY <1>1, Joining

\* A grant is posted for a connection that is there.
LEMMA GrantPosted ==
  ASSUME TypeOK, Backed, Course, Reading, Post(granted), conn \in {"opening", "open"}, conn' = "open",
         UNCHANGED <<kind, nif>>
  PROVE  Backed' /\ Course'
<1>1. granted \in Events
  BY DEF Events
<1>2. /\ \A m : Has(msgs', m) <=> Has(msgs, m) \/ m = granted
      /\ \A m : Once(msgs, m) /\ (granted = m => ~Has(msgs, m)) => Once(msgs', m)
      /\ \A m, n : Before(msgs, m, n) /\ (granted = m => ~Has(msgs, n) /\ m # n)
                   => Before(msgs', m, n)
  BY <1>1, EventQueued
<1>3. Backed'
  BY DEF Backed
<1>4. CASE kind = "wifi"
  <2>3. ~Ended /\ ~Wanted /\ nif.state # "Released"
    BY <1>4 DEF Course, Quiet
  <2>4. ~Ended'
    BY <1>2, <2>3, Distinct, Constant DEF Ended
  <2>5. /\ Once(msgs, denied)' /\ Once(msgs, closed)'
        /\ Before(msgs, granted, denied)' /\ Before(msgs, granted, closed)'
    BY <1>2, <1>4, <2>3, Distinct, Constant DEF Course, Ended
  <2> QED BY <1>3, <1>4, <2>3, <2>4, <2>5 DEF Course, Ended, Reading
<1>5. CASE kind # "wifi"
  BY <1>3, <1>5 DEF Course
<1> QED BY <1>4, <1>5

\* A denial is posted when nothing was said since the connection was asked for.
LEMMA DenialPosted ==
  ASSUME TypeOK, Backed, Course, Reading, Post(denied), conn = "opening", conn' = "closed",
         UNCHANGED <<kind, nif>>
  PROVE  Backed' /\ Course'
<1>1. denied \in Events
  BY DEF Events
<1>2. /\ \A m : Has(msgs', m) <=> Has(msgs, m) \/ m = denied
      /\ \A m : Once(msgs, m) /\ (denied = m => ~Has(msgs, m)) => Once(msgs', m)
      /\ \A m, n : Before(msgs, m, n) /\ (denied = m => ~Has(msgs, n) /\ m # n)
                   => Before(msgs', m, n)
      /\ \A m, n : m # n /\ (denied = n \/ (Followed(msgs, m, n) /\ denied # m))
                   => Followed(msgs', m, n)
  BY <1>1, EventQueued
<1>3. Backed'
  BY <1>2, Distinct, Constant DEF Backed
<1>4. CASE kind = "wifi"
  <2>1. Quiet /\ ~Wanted /\ nif.state # "Released"
    BY <1>4 DEF Course
  <2>2. /\ Once(msgs, denied)' /\ Once(msgs, closed)' /\ ~Has(msgs, closed)'
        /\ Before(msgs, granted, denied)' /\ Before(msgs, granted, closed)'
    BY <1>2, <1>4, <2>1, Distinct, Constant DEF Course, Quiet, Ended
  <2> QED BY <1>3, <1>4, <2>1, <2>2 DEF Course, Reading
<1>5. CASE kind # "wifi"
  BY <1>3, <1>5 DEF Course
<1> QED BY <1>4, <1>5

\* The connection is closed, as asked or by itself.
LEMMA ClosePosted ==
  ASSUME TypeOK, Backed, Course, Reading, Post(closed), conn \in {"opening", "open"},
         conn' = "closed", UNCHANGED <<kind, nif>>
  PROVE  Backed' /\ Course'
<1>1. closed \in Events
  BY DEF Events
<1>2. /\ \A m : Has(msgs', m) <=> Has(msgs, m) \/ m = closed
      /\ \A m : Once(msgs, m) /\ (closed = m => ~Has(msgs, m)) => Once(msgs', m)
      /\ \A m, n : Before(msgs, m, n) /\ (closed = m => ~Has(msgs, n) /\ m # n)
                   => Before(msgs', m, n)
      /\ \A m, n : m # n /\ (closed = n \/ (Followed(msgs, m, n) /\ closed # m))
                   => Followed(msgs', m, n)
  BY <1>1, EventQueued
<1>3. Backed'
  BY <1>2, Distinct, Constant DEF Backed
<1>4. CASE kind = "wifi"
  <2>1. ~Ended /\ ~Wanted /\ nif.state # "Released"
    BY <1>4 DEF Course, Quiet
  <2>2. /\ Once(msgs, denied)' /\ Once(msgs, closed)' /\ ~Has(msgs, denied)'
        /\ Before(msgs, granted, denied)' /\ Before(msgs, granted, closed)'
    BY <1>2, <1>4, <2>1, Distinct, Constant DEF Course, Ended
  <2> QED BY <1>3, <1>4, <2>1, <2>2 DEF Course, Reading
<1>5. CASE kind # "wifi"
  BY <1>3, <1>5 DEF Course
<1> QED BY <1>4, <1>5

\* The framework reads and posts nothing.
LEMMA SilentRead ==
  ASSUME TypeOK, Backed, Course, Reading, UNCHANGED <<kind, nif, msgs>>,
         \/ conn' = conn
         \/ conn # "open" /\ conn' = "opening"
            /\ (kind = "wifi" => (Once(asked, "REQUEST") => ~Wanted') /\ Wanted)
  PROVE  Backed' /\ Course'
<1>1. Backed'
  BY Constant DEF Backed
<1>2. CASE kind = "wifi"
  <2>1. (Quiet' <=> Quiet) /\ (Ended' <=> Ended)
    BY Constant DEF Quiet, Ended
  <2>2. /\ Once(msgs, denied)' /\ Once(msgs, closed)'
        /\ ~(Has(msgs, denied)' /\ Has(msgs, closed)')
        /\ Before(msgs, granted, denied)' /\ Before(msgs, granted, closed)'
    BY <1>2, Constant DEF Course
  <2>3. CASE conn' = conn
    BY <1>1, <1>2, <2>1, <2>2, <2>3 DEF Course, Reading
  <2>4. CASE conn' = "opening" /\ ~Wanted' /\ Wanted
    BY <1>1, <1>2, <2>1, <2>2, <2>4 DEF Course, Reading, Quiet
  <2> QED BY <1>2, <2>3, <2>4 DEF Course
<1>3. CASE kind # "wifi"
  BY <1>1, <1>3 DEF Course
<1> QED BY <1>2, <1>3

\* The framework reads, opens, closes and loses connections.
LEMMA FrameworkKeeps ==
  ASSUME Inv, fw_read \/ fw_opening_ends \/ fw_loses
  PROVE  Clients' /\ Backed' /\ Single' /\ Course'
<1>1. /\ Post(Event("GRANTED")) => Post(granted)
      /\ Post(Event("DENIED")) => Post(denied)
      /\ Post(Event("RELEASED")) => Post(closed)
  BY DEF granted, denied, closed
<1>2. UNCHANGED <<kind, nif, conv>>
  BY DEF fw_read, fw_opening_ends, fw_loses
<1>3. TypeOK /\ Clients /\ Backed /\ Single /\ Course
  BY DEF Inv
<1>4. Single'
  BY <1>2, <1>3 DEF Single
<1>5. granted \in Events /\ denied \in Events /\ closed \in Events
  BY DEF Events
<1>6. UNCHANGED msgs => Clients'
  <2> SUFFICES ASSUME UNCHANGED msgs, NEW s \in Subscribers
               PROVE  Order(s)' /\ Standing(s)'
    BY DEF Clients
  <2>1. Order(s) /\ Standing(s)
    BY <1>3 DEF Clients
  <2> QED BY <1>2, <2>1, Constant DEF Order, Standing, Fit
<1>7. Post(granted) \/ Post(denied) \/ Post(closed) => Clients'
  BY <1>2, <1>3, <1>5, EventPosted
<1>8. conn \in {"closed", "opening", "open"}
  BY <1>3 DEF TypeOK
<1>9. UNCHANGED asked => Reading
  BY DEF Reading, Wanted
<1>10. CASE fw_read
  <2>1. Reading /\ Head(asked) \in {"REQUEST", "RELEASE"}
        /\ (Head(asked) = "REQUEST" => Wanted /\ (Once(asked, "REQUEST") => ~Wanted'))
    BY <1>3, <1>10, ReadAsked
  <2>2. CASE Head(asked) = "REQUEST" /\ conn # "open" /\ conn' = "opening" /\ UNCHANGED msgs
    BY <1>2, <1>3, <1>4, <1>6, <2>1, <2>2, SilentRead
  <2>3. CASE Head(asked) = "REQUEST" /\ conn = "open" /\ UNCHANGED conn /\ Post(granted)
    BY <1>2, <1>3, <1>4, <1>7, <2>1, <2>3, GrantPosted
  <2>4. CASE Head(asked) = "RELEASE" /\ conn = "closed" /\ UNCHANGED <<conn, msgs>>
    BY <1>2, <1>3, <1>4, <1>6, <2>1, <2>4, SilentRead
  <2>5. CASE Head(asked) = "RELEASE" /\ conn # "closed" /\ conn' = "closed" /\ Post(closed)
    BY <1>2, <1>3, <1>4, <1>7, <1>8, <2>1, <2>5, ClosePosted
  <2> QED BY <1>1, <1>10, <2>2, <2>3, <2>4, <2>5 DEF fw_read, loc_eng_agps_open, loc_eng_agps_closed
<1>11. CASE fw_opening_ends
  <2>1. Reading /\ conn = "opening"
    BY <1>9, <1>11 DEF fw_opening_ends
  <2>2. CASE conn' = "open" /\ Post(granted)
    BY <1>2, <1>3, <1>4, <1>7, <2>1, <2>2, GrantPosted
  <2>3. CASE conn' = "closed" /\ Post(denied)
    BY <1>2, <1>3, <1>4, <1>7, <2>1, <2>3, DenialPosted
  <2> QED BY <1>1, <1>11, <2>2, <2>3 DEF fw_opening_ends, loc_eng_agps_open, loc_eng_agps_open_failed
<1>12. CASE fw_loses
  <2>1. Reading /\ conn = "open" /\ conn' = "closed" /\ Post(closed)
    BY <1>1, <1>9, <1>12 DEF fw_loses, loc_eng_agps_closed
  <2> QED BY <1>2, <1>3, <1>4, <1>7, <2>1, ClosePosted
<1> QED BY <1>10, <1>11, <1>12

-----------------------------------------------------------------------------
(* The steps of the message thread *)

\* The message m is taken from the queue.
Takes(m) ==
  /\ \A n : Has(msgs, n) <=> n = m \/ Has(msgs', n)
  /\ Once(msgs, m) => ~Has(msgs', m)
  /\ \A n : Once(msgs, n) => Once(msgs', n)
  /\ \A n, p : Before(msgs, n, p) => Before(msgs', n, p)
  /\ \A n : Before(msgs, n, m) => ~Has(msgs', n) /\ ~Has(msgs, n)
  /\ \A n, p : Followed(msgs, n, p) => Followed(msgs', n, p)
  /\ \A n : Followed(msgs, m, n) => Has(msgs', n)

LEMMA TakesHead ==
  ASSUME TypeOK, NEW what, Handle(what)
  PROVE  Takes(Head(msgs))
<1>1. msgs \in Seq(MsgType) /\ msgs # <<>> /\ msgs' = Tail(msgs)
  BY DEF TypeOK, Handle
<1>2. \A n, p :
        /\ Has(msgs, n) <=> Head(msgs) = n \/ Has(msgs', n)
        /\ Once(msgs, n) => Once(msgs', n)
        /\ Once(msgs, n) /\ Head(msgs) = n => ~Has(msgs', n)
        /\ Before(msgs, n, p) => Before(msgs', n, p)
        /\ Before(msgs, n, p) /\ Head(msgs) = p => ~Has(msgs', n) /\ ~Has(msgs, n)
        /\ Followed(msgs, n, p) => Followed(msgs', n, p)
        /\ Followed(msgs, n, p) /\ Head(msgs) = n => Has(msgs', p)
  BY <1>1, Leaving
<1> QED BY <1>2 DEF Takes

\* What a client's message leaves as it was, when it is taken.
Unheard ==
  /\ \A m \in Events : Has(msgs', m) <=> Has(msgs, m)
  /\ (Quiet' <=> Quiet) /\ (Ended' <=> Ended)
  /\ Followed(msgs, granted, closed) => Followed(msgs', granted, closed)
  /\ Once(msgs, denied) => Once(msgs', denied)
  /\ Once(msgs, closed) => Once(msgs', closed)
  /\ Before(msgs, granted, denied) => Before(msgs', granted, denied)
  /\ Before(msgs, granted, closed) => Before(msgs', granted, closed)

LEMMA TakesUnheard ==
  ASSUME NEW m, m \notin Events, Takes(m)
  PROVE  Unheard
<1>1. \A n \in Events : Has(msgs', n) <=> Has(msgs, n)
  BY DEF Takes
<1>2. granted \in Events /\ denied \in Events /\ closed \in Events
  BY DEF Events
<1>3. (Quiet' <=> Quiet) /\ (Ended' <=> Ended)
  BY <1>1, <1>2, Constant DEF Quiet, Ended
<1> QED BY <1>1, <1>3 DEF Takes, Unheard

\* The framework is not concerned as long as the machine does not move.
LEMMA StillBacked ==
  ASSUME Backed, Unheard, UNCHANGED conn, nif'.state = "Acquired" => nif.state = "Acquired"
  PROVE  Backed'
<1>1. closed \in Events
  BY DEF Events
<1> QED BY <1>1, Constant DEF Backed, Unheard

LEMMA StillOnCourse ==
  ASSUME Course, Unheard, UNCHANGED <<kind, conn>>, Wanted' <=> Wanted,
         Once(asked, "REQUEST") => Once(asked', "REQUEST"),
         kind = "wifi" /\ nif'.state = "Released" => nif.state = "Released"
  PROVE  Course'
<1>1. denied \in Events /\ closed \in Events
  BY DEF Events
<1> QED BY <1>1, Constant DEF Course, Unheard

\* A request is handled: it was behind nothing of its client, so the client is not listed.
LEMMA SubscribeKeeps ==
  ASSUME Inv, subscribeRsrc
  PROVE  TypeOK' /\ Clients' /\ Backed' /\ Single' /\ Course'
<1> DEFINE s == Head(msgs).who
           refused == SingleSubscriber /\ hasSubscribers(nif)
<1>1. TypeOK /\ Clients /\ Backed /\ Single /\ Course /\ Handle("request")
  BY DEF Inv, subscribeRsrc
<1>2. s \in Subscribers /\ Head(msgs) = req(s) /\ UNCHANGED <<kind, conn>>
  BY <1>1, Taken DEF Handle
<1>3. /\ nif \in Machine /\ nif.list \in Lists /\ nif.state \in States
      /\ conv \in [Subscribers -> {"closed", "opening", "open", "closing", "lost"}]
      /\ asked \in Seq({"REQUEST", "RELEASE"}) /\ kind \in {"plain", "wifi"}
  BY <1>1 DEF TypeOK, Machine, Lists
<1>4. Takes(req(s))
  BY <1>1, <1>2, TakesHead
<1>5. Unheard
  BY <1>2, <1>4, TakesUnheard, Distinct
<1>6. \A t \in Subscribers : Order(t)'
  BY <1>1, OrderTaken
<1>7. IF refused THEN Become(Outcome(nif, Tell({s}, "DENIED"), "none"))
                 ELSE Become(Subscribe(nif, s, TRUE))
  BY DEF subscribeRsrc
<1> HIDE DEF s
<1>8. hasSubscribers(nif) <=> \E t \in Subscribers : nif.list[t] # "out"
  BY <1>3 DEF hasSubscribers, Actives, Inactives, Lists
<1>9. /\ Has(msgs, req(s)) /\ ~Has(msgs', req(s))
      /\ Has(msgs', rel(s)) <=> Has(msgs, rel(s))
      /\ Has(msgs', up) <=> Has(msgs, up)
  BY <1>1, <1>2, <1>4, Distinct DEF Takes, Clients, Order
<1>10. \A t \in Subscribers : t # s =>
         /\ Has(msgs', req(t)) <=> Has(msgs, req(t))
         /\ Has(msgs', rel(t)) <=> Has(msgs, rel(t))
  BY <1>4, Distinct DEF Takes
<1>11. Standing(s)
  BY <1>1, <1>2 DEF Clients
<1>12. CASE refused
  <2>1. kind = "wifi"
    BY <1>12 DEF SingleSubscriber
  <2>2. Turn(Outcome(nif, Tell({s}, "DENIED"), "none"), nif.state, nif.list, {s}, "DENIED", "none")
    BY <1>3, NothingTurns
  <2>3. /\ TypeOK'
        /\ nif' = [state |-> nif.state, list |-> nif.list] /\ asked' = asked
        /\ conv' = [t \in Subscribers |-> IF t \in {s} THEN Heard(conv[t], "DENIED") ELSE conv[t]]
    <3>1. {s} \in SUBSET Subscribers /\ Status("DENIED")
      BY <1>2 DEF Status, Statuses
    <3>2. Become(Outcome(nif, Tell({s}, "DENIED"), "none"))
      BY <1>7, <1>12
    <3>3. Made(Outcome(nif, Tell({s}, "DENIED"), "none"), nif.state, nif.list, {s}, "DENIED", "none")
      BY <1>3, <2>2, <3>1, <3>2 DEF Made
    <3>4. Moves(nif.state, nif.list, {s}, "DENIED", "none")
      BY <1>1, <3>3, Turning
    <3>5. TypeOK'
      BY <1>1, <3>4, HandleTyped DEF Moves
    <3> QED BY <3>4, <3>5 DEF Moves
  <2>4. nif'.state = nif.state /\ nif'.list = nif.list
    BY <2>3
  <2>5. Clients'
    <3> SUFFICES ASSUME NEW t \in Subscribers
                 PROVE  Standing(t)'
      BY <1>6 DEF Clients
    <3>1. CASE t = s
      <4>1. conv'[s] = Heard(conv[s], "DENIED")
        BY <1>2, <2>3
      <4>2. conv[s] \in {"opening", "closing"} /\ nif.list[s] = "out"
        BY <1>9, <1>11, <2>1 DEF Standing, Fit
      <4>3. conv'[s] = "closed"
        BY <4>1, <4>2 DEF Heard, atlOpenStatus
      <4> QED BY <1>9, <1>11, <2>1, <2>4, <3>1, <4>2, <4>3, Constant DEF Standing, Fit
    <3>2. CASE t # s
      <4>1. Standing(t) /\ conv'[t] = conv[t]
        BY <1>1, <2>3, <3>2 DEF Clients
      <4> QED BY <1>2, <1>9, <1>10, <2>4, <3>2, <4>1, Constant DEF Standing, Fit
    <3> QED BY <3>1, <3>2
  <2>6. Single'
    BY <1>1, <1>2, <2>4 DEF Single
  <2>7. Backed'
    BY <1>1, <1>2, <1>5, <2>4, StillBacked
  <2>8. Course'
    <3>1. Wanted' <=> Wanted
      BY <2>3 DEF Wanted
    <3> QED BY <1>1, <1>2, <1>5, <2>3, <2>4, <3>1, StillOnCourse
  <2> QED BY <2>3, <2>5, <2>6, <2>7, <2>8
<1>13. CASE ~refused
  <2> DEFINE l    == With(nif.list, s)
             free == nif.state = "Released"
  <2>1. nif.state = "Released" => nif.list[s] = "out"
    BY <1>11 DEF Standing
  <2>2. IF free
        THEN Turn(Subscribe(nif, s, TRUE), "Pending", l, {}, "GRANTED", "REQUEST")
        ELSE Turn(Subscribe(nif, s, TRUE), nif.state, l,
                  IF nif.state = "Acquired" THEN {s} ELSE {}, "GRANTED", "none")
    BY <1>2, <1>3, <2>1, SubscribeTurns
  <2>3. Become(Subscribe(nif, s, TRUE)) /\ Status("GRANTED")
    BY <1>7, <1>13 DEF Status, Statuses
  <2>4. /\ l \in Lists
        /\ l[s] = IF nif.list[s] = "out" THEN "active" ELSE nif.list[s]
        /\ \A t \in Subscribers : t # s => l[t] = nif.list[t]
    BY <1>2, <1>3 DEF With, Lists
  <2> HIDE DEF l, refused
  <2>5. CASE free
    <3>1. /\ TypeOK'
          /\ nif' = [state |-> "Pending", list |-> l] /\ asked' = Append(asked, "REQUEST")
          /\ conv' = [t \in Subscribers |-> IF t \in {} THEN Heard(conv[t], "GRANTED") ELSE conv[t]]
      <4>1. {} \in SUBSET Subscribers
        OBVIOUS
      <4>2. Turn(Subscribe(nif, s, TRUE), "Pending", l, {}, "GRANTED", "REQUEST")
        BY <2>2, <2>5
      <4>3. Made(Subscribe(nif, s, TRUE), "Pending", l, {}, "GRANTED", "REQUEST")
        BY <1>3, <2>3, <2>4, <4>1, <4>2 DEF Made, States
      <4>4. Moves("Pending", l, {}, "GRANTED", "REQUEST")
        BY <1>1, <4>3, Turning
      <4>5. TypeOK'
        BY <1>1, <4>4, HandleTyped DEF Moves
      <4> QED BY <4>4, <4>5 DEF Moves
    <3>2. nif'.state = "Pending" /\ nif'.list = l /\ \A t \in Subscribers : conv'[t] = conv[t]
      BY <3>1
    <3>3. Clients'
      <4> SUFFICES ASSUME NEW t \in Subscribers
                   PROVE  Standing(t)'
        BY <1>6 DEF Clients
      <4>1. Standing(t)
        BY <1>1 DEF Clients
      <4>2. CASE t = s
        BY <1>2, <1>9, <2>1, <2>4, <2>5, <3>2, <4>1, <4>2, Constant DEF Standing, Fit
      <4>3. CASE t # s
        BY <1>2, <1>9, <1>10, <2>4, <2>5, <3>2, <4>1, <4>3, Constant DEF Standing, Fit
      <4> QED BY <4>2, <4>3
    <3>4. \A t \in Subscribers : nif.list[t] = "out"
      BY <1>1, <2>5 DEF Clients, Standing
    <3>5. Single'
      BY <1>2, <2>4, <3>2, <3>4 DEF Single
    <3>6. Backed'
      BY <1>1, <1>2, <1>5, <3>2, StillBacked
    <3>7. Course'
      <4>1. Once(asked, "REQUEST") /\ ~Has(asked, "REQUEST") => Once(asked', "REQUEST")
        <5> DEFINE Asks == {"REQUEST", "RELEASE"}
        <5>1. asked' = Append(asked, "REQUEST")
          BY <3>1
        <5>2. asked \in Seq(Asks) /\ "REQUEST" \in Asks
          BY <1>3
        <5> HIDE DEF Asks
        <5> QED BY <5>1, <5>2, Joining
      <4> QED BY <1>1, <1>2, <1>5, <2>5, <3>2, <4>1, Constant, Distinct
              DEF Course, Unheard, Wanted, Quiet, Ended, Events
    <3> QED BY <3>1, <3>3, <3>5, <3>6, <3>7
  <2>6. CASE ~free
    <3> DEFINE S == IF nif.state = "Acquired" THEN {s} ELSE {}
    <3>1. /\ TypeOK'
          /\ nif' = [state |-> nif.state, list |-> l] /\ asked' = asked
          /\ conv' = [t \in Subscribers |-> IF t \in S THEN Heard(conv[t], "GRANTED") ELSE conv[t]]
      <4>1. S \in SUBSET Subscribers
        BY <1>2
      <4>2. Turn(Subscribe(nif, s, TRUE), nif.state, l, S, "GRANTED", "none")
        BY <2>2, <2>6
      <4>3. Made(Subscribe(nif, s, TRUE), nif.state, l, S, "GRANTED", "none")
        BY <1>3, <2>3, <2>4, <4>1, <4>2 DEF Made, States
      <4>4. Moves(nif.state, l, S, "GRANTED", "none")
        BY <1>1, <4>3, Turning
      <4>5. TypeOK'
        BY <1>1, <4>4, HandleTyped DEF Moves
      <4> QED BY <4>4, <4>5 DEF Moves
    <3>2. nif'.state = nif.state /\ nif'.list = l
      BY <3>1
    <3>3. kind # "wifi"
      <4>1. kind = "wifi" => \E t \in Subscribers : nif.list[t] # "out"
        BY <1>1, <2>6 DEF Single
      <4> QED BY <1>8, <1>13, <4>1 DEF refused, SingleSubscriber
    <3>4. Clients'
      <4> SUFFICES ASSUME NEW t \in Subscribers
                   PROVE  Standing(t)'
        BY <1>6 DEF Clients
      <4>1. Standing(t)
        BY <1>1 DEF Clients
      <4>2. CASE t = s
        <5>1. conv'[s] = IF nif.state = "Acquired" THEN Heard(conv[s], "GRANTED") ELSE conv[s]
          BY <1>2, <3>1
        <5>2. Heard(conv[s], "GRANTED") = IF conv[s] = "opening" THEN "open" ELSE conv[s]
          BY DEF Heard, atlOpenStatus
        <5> QED BY <1>2, <1>9, <2>4, <2>6, <3>2, <4>1, <4>2, <5>1, <5>2, Constant DEF Standing, Fit
      <4>3. CASE t # s
        <5>1. conv'[t] = conv[t]
          BY <3>1, <4>3
        <5> QED BY <1>2, <1>9, <1>10, <2>4, <3>2, <4>1, <4>3, <5>1, Constant DEF Standing, Fit
      <4> QED BY <4>2, <4>3
    <3>5. Single' /\ Course'
      BY <1>2, <3>3 DEF Single, Course
    <3>6. Backed'
      BY <1>1, <1>2, <1>5, <3>2, StillBacked
    <3> QED BY <3>1, <3>4, <3>5, <3>6
  <2> QED BY <2>5, <2>6
<1> QED BY <1>12, <1>13

\* A release is handled: the request is, too, so the client is listed or was dismissed.
LEMMA UnsubscribeKeeps ==
  ASSUME Inv, unsubscribeRsrc
  PROVE  TypeOK' /\ Clients' /\ Backed' /\ Single' /\ Course'
<1> DEFINE s == Head(msgs).who
<1>1. TypeOK /\ Clients /\ Backed /\ Single /\ Course /\ Handle("release")
  BY DEF Inv, unsubscribeRsrc
<1>2. s \in Subscribers /\ Head(msgs) = rel(s) /\ UNCHANGED <<kind, conn>>
  BY <1>1, Taken DEF Handle
<1>3. /\ nif \in Machine /\ nif.list \in Lists /\ nif.state \in States
      /\ conv \in [Subscribers -> {"closed", "opening", "open", "closing", "lost"}]
      /\ asked \in Seq({"REQUEST", "RELEASE"}) /\ kind \in {"plain", "wifi"}
  BY <1>1 DEF TypeOK, Machine, Lists
<1>4. Takes(rel(s))
  BY <1>1, <1>2, TakesHead
<1>5. Unheard
  BY <1>2, <1>4, TakesUnheard, Distinct
<1>6. \A t \in Subscribers : Order(t)'
  BY <1>1, OrderTaken
<1>7. IF nif.list[s] = "out"
      THEN Become(Outcome(nif, IF WaitForClose THEN {} ELSE Tell({s}, "NOT_FOUND"), "none"))
      ELSE Become(Unsubscribe(nif, s, WaitForClose))
  BY DEF unsubscribeRsrc
<1> HIDE DEF s
<1>8. /\ Has(msgs, rel(s)) /\ ~Has(msgs', rel(s)) /\ ~Has(msgs', req(s)) /\ ~Has(msgs, req(s))
      /\ Has(msgs', up) <=> Has(msgs, up)
  BY <1>1, <1>2, <1>4, Distinct DEF Takes, Clients, Order
<1>9. \A t \in Subscribers : t # s =>
         /\ Has(msgs', req(t)) <=> Has(msgs, req(t))
         /\ Has(msgs', rel(t)) <=> Has(msgs, rel(t))
  BY <1>4, Distinct DEF Takes
<1>10. Standing(s)
  BY <1>1, <1>2 DEF Clients
<1>11. CASE nif.list[s] = "out"
  <2> DEFINE S  == IF WaitForClose THEN {} ELSE {s}
             st == IF WaitForClose THEN "GRANTED" ELSE "NOT_FOUND"
             r  == Outcome(nif, IF WaitForClose THEN {} ELSE Tell({s}, "NOT_FOUND"), "none")
  <2>1. Turn(r, nif.state, nif.list, S, st, "none")
    BY <1>3, NothingTurns
  <2>2. S \in SUBSET Subscribers /\ Status(st)
    BY <1>2 DEF Status, Statuses
  <2>3. Become(r)
    BY <1>7, <1>11
  <2> HIDE DEF S, st, r
  <2>4. Made(r, nif.state, nif.list, S, st, "none")
    BY <1>3, <2>1, <2>2, <2>3 DEF Made
  <2>5. Moves(nif.state, nif.list, S, st, "none")
    BY <1>1, <2>4, Turning
  <2>6. TypeOK'
    BY <1>1, <2>5, HandleTyped DEF Moves
  <2>7. /\ nif'.state = nif.state /\ nif'.list = nif.list /\ asked' = asked
        /\ conv' = [t \in Subscribers |-> IF t \in S THEN Heard(conv[t], st) ELSE conv[t]]
    BY <2>5 DEF Moves
  <2>8. \A t \in Subscribers : conv'[t] = conv[t]
    <3> SUFFICES ASSUME NEW t \in Subscribers, t \in S
                 PROVE  Heard(conv[t], st) = conv[t]
      BY <2>7
    <3>1. t = s /\ st = "NOT_FOUND"
      BY DEF S, st
    <3>2. conv[s] # "closing"
      BY <1>8, <1>10, <1>11 DEF Standing, Fit
    <3> QED BY <3>1, <3>2 DEF Heard, atlCloseStatus
  <2>9. Clients'
    <3> SUFFICES ASSUME NEW t \in Subscribers
                 PROVE  Standing(t)'
      BY <1>6 DEF Clients
    <3>1. Standing(t)
      BY <1>1 DEF Clients
    <3>2. CASE t = s
      BY <1>2, <1>8, <1>11, <2>7, <2>8, <3>1, <3>2, Constant DEF Standing, Fit
    <3>3. CASE t # s
      BY <1>2, <1>8, <1>9, <2>7, <2>8, <3>1, <3>3, Constant DEF Standing, Fit
    <3> QED BY <3>2, <3>3
  <2>10. Single'
    BY <1>1, <1>2, <2>7 DEF Single
  <2>11. Backed'
    BY <1>1, <1>2, <1>5, <2>7, StillBacked
  <2>12. Course'
    <3>1. Wanted' <=> Wanted
      BY <2>7 DEF Wanted
    <3> QED BY <1>1, <1>2, <1>5, <2>7, <3>1, StillOnCourse
  <2> QED BY <2>6, <2>9, <2>10, <2>11, <2>12
<1>12. CASE nif.list[s] # "out"
  <2> DEFINE l == Less(nif.list, s, WaitForClose)
             S == IF WaitForClose THEN {} ELSE {s}
             r == Unsubscribe(nif, s, WaitForClose)
  <2>1. nif.state # "Released" /\ WaitForClose \in BOOLEAN
    BY <1>10, <1>12 DEF Standing, WaitForClose
  <2>2. PICK st \in States, asks \in {"none", "RELEASE"} : Leaves(nif, s, WaitForClose, st, asks)
    BY <1>2, <1>3, <1>12, <2>1, UnsubscribeTurns
  <2>3. /\ Turn(r, st, l, S, "UNSUBSCRIBE", asks)
        /\ st = "Released" => \A t \in Subscribers : l[t] = "out"
        /\ st = "Releasing" => nif.state = "Releasing" \/ \A t \in Subscribers : l[t] # "active"
        /\ st # nif.state => \A t \in Subscribers : l[t] # "active"
        /\ st = "Acquired" => nif.state = "Acquired"
        /\ WaitForClose => st # "Released"
    BY <2>2 DEF Leaves
  <2>4. /\ l \in Lists
        /\ l[s] = IF kind = "wifi" THEN "inactive" ELSE "out"
        /\ \A t \in Subscribers : t # s => l[t] = nif.list[t]
    BY <1>2, <1>3 DEF Less, Lists, WaitForClose
  <2>5. S \in SUBSET Subscribers /\ Status("UNSUBSCRIBE") /\ asks \in {"none", "REQUEST", "RELEASE"}
    BY <1>2 DEF Status, Statuses
  <2>6. Become(r)
    BY <1>7, <1>12
  <2> HIDE DEF l, S, r
  <2>7. Made(r, st, l, S, "UNSUBSCRIBE", asks)
    BY <2>2, <2>3, <2>4, <2>5, <2>6 DEF Made
  <2>8. Moves(st, l, S, "UNSUBSCRIBE", asks)
    BY <1>1, <2>7, Turning
  <2>9. TypeOK'
    BY <1>1, <2>8, HandleTyped DEF Moves
  <2>10. /\ nif'.state = st /\ nif'.list = l
         /\ asked' = IF asks = "none" THEN asked ELSE Append(asked, asks)
         /\ conv' = [t \in Subscribers |-> IF t \in S THEN Heard(conv[t], "UNSUBSCRIBE") ELSE conv[t]]
    BY <2>8 DEF Moves
  <2>11. conv[s] = "closing" \/ (conv[s] = "lost" /\ kind = "plain")
    BY <1>8, <1>10, <1>12 DEF Standing, Fit
  <2>12. conv'[s] = IF kind = "wifi" \/ conv[s] = "lost" THEN conv[s] ELSE "closed"
    BY <1>2, <2>10, <2>11 DEF S, Heard, atlCloseStatus, WaitForClose
  <2>13. \A t \in Subscribers : t # s => conv'[t] = conv[t]
    BY <2>10 DEF S
  <2>14. Clients'
    <3> SUFFICES ASSUME NEW t \in Subscribers
                 PROVE  Standing(t)'
      BY <1>6 DEF Clients
    <3>1. Standing(t)
      BY <1>1 DEF Clients
    <3>2. CASE t = s
      <4>1. nif'.state = "Released" => nif'.list[t] = "out"
        BY <2>3, <2>10
      <4>2. kind = "plain" \/ kind = "wifi"
        BY <1>3
      <4> QED BY <1>2, <1>8, <2>4, <2>10, <2>11, <2>12, <3>1, <3>2, <4>1, <4>2, Constant DEF Standing, Fit
    <3>3. CASE t # s
      <4>1. nif'.state = "Released" => nif'.list[t] = "out"
        BY <2>3, <2>10
      <4>2. conv[t] = "open" => nif'.state = "Acquired"
        BY <2>3, <2>4, <2>10, <3>1, <3>3 DEF Standing, Fit
      <4>3. nif'.list[t] = nif.list[t] /\ conv'[t] = conv[t]
        BY <2>4, <2>10, <2>13, <3>3
      <4> QED BY <1>2, <1>8, <1>9, <3>1, <3>3, <4>1, <4>2, <4>3, Constant DEF Standing, Fit
    <3> QED BY <3>2, <3>3
  <2>15. Single'
    <3> SUFFICES ASSUME kind = "wifi"
                 PROVE  /\ \A t, u \in Subscribers : l[t] # "out" /\ l[u] # "out" => t = u
                        /\ st # "Released" => \E t \in Subscribers : l[t] # "out"
                        /\ st = "Releasing" => \A t \in Subscribers : l[t] # "active"
      BY <1>2, <2>10 DEF Single
    <3>1. \A t \in Subscribers : l[t] # "out" => nif.list[t] # "out"
      BY <1>12, <2>4
    <3>2. l[s] # "out"
      BY <2>4
    <3>3. nif.state = "Releasing" => \A t \in Subscribers : l[t] # "active"
      BY <1>1, <2>4 DEF Single
    <3> QED BY <1>1, <1>2, <2>3, <3>1, <3>2, <3>3 DEF Single
  <2>16. Backed'
    BY <1>1, <1>2, <1>5, <2>2, <2>3, <2>10, StillBacked
  <2>17. Course'
    <3>1. /\ Has(asked', "REQUEST") <=> Has(asked, "REQUEST")
          /\ Once(asked, "REQUEST") => Once(asked', "REQUEST")
      <4>1. CASE asks = "none"
        BY <2>10, <4>1
      <4>2. CASE asks = "RELEASE"
        <5>1. asked' = Append(asked, "RELEASE") /\ "RELEASE" # "REQUEST"
          BY <2>10, <4>2
        <5> DEFINE A == {"REQUEST", "RELEASE"}
        <5>2. asked \in Seq(A) /\ "RELEASE" \in A
          BY <1>3
        <5> HIDE DEF A
        <5>3. \A e \in A : \A m :
                /\ Has(Append(asked, e), m) <=> Has(asked, m) \/ e = m
                /\ Once(asked, m) /\ e # m => Once(Append(asked, e), m)
          BY <5>2, Joining
        <5> QED BY <5>1, <5>2, <5>3
      <4> QED BY <4>1, <4>2
    <3>2. Wanted' <=> Wanted
      BY <3>1 DEF Wanted
    <3>3. kind = "wifi" /\ nif'.state = "Released" => nif.state = "Released"
      BY <2>3, <2>10 DEF WaitForClose
    <3> QED BY <1>1, <1>2, <1>5, <3>1, <3>2, <3>3, StillOnCourse
  <2> QED BY <2>9, <2>14, <2>15, <2>16, <2>17
<1> QED BY <1>11, <1>12

\* What an event leaves as it was for the clients, when it is taken.
LEMMA TakesEvent ==
  ASSUME NEW e \in Events, Takes(e)
  PROVE  \A t : /\ Has(msgs', req(t)) <=> Has(msgs, req(t))
                /\ Has(msgs', rel(t)) <=> Has(msgs, rel(t))
                /\ Has(msgs', up) <=> Has(msgs, up)
<1>1. \A t : req(t) # e /\ rel(t) # e /\ up # e
  BY Distinct
<1> QED BY <1>1 DEF Takes

\* A grant is handled: the connection is there or the notice of its end still follows.
LEMMA GrantedKeeps ==
  ASSUME Inv, LocEngAtlOpenSuccess
  PROVE  TypeOK' /\ Clients' /\ Backed' /\ Single' /\ Course'
<1> DEFINE pending == nif.state = "Pending"
           st      == IF pending THEN "Acquired" ELSE nif.state
           S       == IF pending THEN Actives(nif) ELSE {}
<1>1. TypeOK /\ Clients /\ Backed /\ Single /\ Course /\ Handle("GRANTED")
  BY DEF Inv, LocEngAtlOpenSuccess
<1>2. Head(msgs) = granted /\ UNCHANGED <<kind, conn>>
  BY <1>1, Taken DEF Handle
<1>3. /\ nif \in Machine /\ nif.list \in Lists /\ nif.state \in States
      /\ conv \in [Subscribers -> {"closed", "opening", "open", "closing", "lost"}]
  BY <1>1 DEF TypeOK, Machine, Lists
<1>4. Takes(granted) /\ granted \in Events /\ denied \in Events /\ closed \in Events
  BY <1>1, <1>2, TakesHead DEF Events
<1>5. \A t : /\ Has(msgs', req(t)) <=> Has(msgs, req(t))
             /\ Has(msgs', rel(t)) <=> Has(msgs, rel(t))
             /\ Has(msgs', up) <=> Has(msgs, up)
  BY <1>4, TakesEvent
<1>6. \A t \in Subscribers : Order(t)'
  BY <1>1, OrderTaken
<1>7. Turn(Granted(nif), st, nif.list, S, "GRANTED", "none")
  BY <1>3, GrantedTurns
<1>8. st \in States /\ S \in SUBSET Subscribers /\ Status("GRANTED") /\ Become(Granted(nif))
  BY <1>3 DEF States, Actives, Status, Statuses, LocEngAtlOpenSuccess
<1>9. S = IF pending THEN {t \in Subscribers : nif.list[t] = "active"} ELSE {}
  BY DEF Actives
<1>10. pending => st = "Acquired"
  OBVIOUS
<1>11. ~pending => st = nif.state
  OBVIOUS
<1> HIDE DEF st, S
<1>12. Made(Granted(nif), st, nif.list, S, "GRANTED", "none")
  BY <1>3, <1>7, <1>8 DEF Made
<1>13. Moves(st, nif.list, S, "GRANTED", "none")
  BY <1>1, <1>12, Turning
<1>14. TypeOK'
  BY <1>1, <1>13, HandleTyped DEF Moves
<1>15. /\ nif'.state = st /\ nif'.list = nif.list /\ asked' = asked
       /\ conv' = [t \in Subscribers |-> IF t \in S THEN Heard(conv[t], "GRANTED") ELSE conv[t]]
  BY <1>13 DEF Moves
<1>16. Clients'
  <2> SUFFICES ASSUME NEW t \in Subscribers
               PROVE  Standing(t)'
    BY <1>6 DEF Clients
  <2>1. Standing(t)
    BY <1>1 DEF Clients
  <2>2. conv'[t] = IF t \in S /\ conv[t] = "opening" THEN "open" ELSE conv[t]
    BY <1>15 DEF Heard, atlOpenStatus
  <2>3. conv[t] = "open" => nif'.state = "Acquired"
    BY <1>10, <1>11, <1>15, <2>1 DEF Standing
  <2>4. t \in S => nif'.state = "Acquired" /\ nif.list[t] = "active"
    BY <1>9, <1>10, <1>15
  <2>5. nif'.state = "Released" => nif.list[t] = "out"
    BY <1>10, <1>11, <1>15, <2>1 DEF Standing
  <2> QED BY <1>2, <1>5, <1>15, <2>1, <2>2, <2>3, <2>4, <2>5, Constant DEF Standing, Fit
<1>17. Single'
  BY <1>1, <1>2, <1>10, <1>11, <1>15 DEF Single
<1>18. Backed'
  <2>1. conn = "open" \/ (Followed(msgs', granted, closed) /\ Has(msgs', closed))
    BY <1>1, <1>4 DEF Backed, Takes
  <2> QED BY <1>2, <2>1, Constant DEF Backed
<1>19. Course'
  <2>1. /\ Has(msgs', denied) <=> Has(msgs, denied)
        /\ Has(msgs', closed) <=> Has(msgs, closed)
        /\ Has(msgs, granted)
    BY <1>4, Distinct DEF Takes
  <2>2. (Ended' <=> Ended) /\ (Wanted' <=> Wanted) /\ ~Quiet
    BY <1>15, <2>1, Constant DEF Ended, Wanted, Quiet
  <2>3. nif'.state = "Released" => nif.state = "Released"
    BY <1>10, <1>11, <1>15
  <2>4. kind = "wifi" =>
          /\ Once(msgs', denied) /\ Once(msgs', closed)
          /\ Before(msgs', granted, denied) /\ Before(msgs', granted, closed)
    BY <1>1, <1>4 DEF Course, Takes
  <2> QED BY <1>1, <1>2, <1>15, <2>1, <2>2, <2>3, <2>4, Constant DEF Course
<1> QED BY <1>14, <1>16, <1>17, <1>18, <1>19

\* A restart is handled: nothing that was said before it is left in the queue.
LEMMA EngineUpKeeps ==
  ASSUME Inv, LocEngUp
  PROVE  TypeOK' /\ Clients' /\ Backed' /\ Single' /\ Course'
<1>1. TypeOK /\ Clients /\ Backed /\ Single /\ Course /\ Handle("engineUp")
  BY DEF Inv, LocEngUp
<1>2. Head(msgs) = up /\ UNCHANGED <<kind, conn, asked>>
  BY <1>1, Taken DEF Handle, LocEngUp
<1>3. /\ nif \in Machine /\ nif.list \in Lists /\ nif.state \in States
      /\ conv \in [Subscribers -> {"closed", "opening", "open", "closing", "lost"}]
  BY <1>1 DEF TypeOK, Machine, Lists
<1>4. Takes(up)
  BY <1>1, <1>2, TakesHead
<1>5. Unheard
  BY <1>4, TakesUnheard, Distinct
<1>6. \A t \in Subscribers : Order(t)'
  BY <1>1, OrderTaken
<1>7. /\ nif' = [nif EXCEPT !.list = [t \in Subscribers |-> IF t \in Subscribers THEN "out" ELSE @[t]]]
      /\ conv' = [t \in Subscribers |->
                    IF conv[t] = "lost" /\ ~Has(msgs', up) THEN "closed" ELSE conv[t]]
  BY Constant DEF LocEngUp, dropAllSubscribers, Without, Pending, Has, up
<1>8. nif'.state = nif.state /\ nif'.list = [t \in Subscribers |-> "out"]
  BY <1>3, <1>7 DEF Machine
<1>9. Typed'
  <2>1. nif' \in Machine
    BY <1>3, <1>7 DEF Machine
  <2> QED BY <1>1, <1>2, <1>3, <1>7, <2>1 DEF Typed, TypeOK
<1>10. TypeOK'
  BY <1>1, <1>9, HandleTyped
<1>11. Clients'
  <2> SUFFICES ASSUME NEW t \in Subscribers
               PROVE  Standing(t)'
    BY <1>6 DEF Clients
  <2>1. Order(t) /\ Standing(t)
    BY <1>1 DEF Clients
  <2>2. conv[t] = "lost" /\ kind = "plain" /\ ~Has(msgs', req(t)) /\ ~Has(msgs', rel(t))
    BY <1>4, <2>1 DEF Takes, Order, Standing, Fit
  <2>3. conv'[t] = IF Has(msgs', up) THEN "lost" ELSE "closed"
    BY <1>7, <2>2
  <2> QED BY <1>2, <1>8, <2>2, <2>3, Constant DEF Standing, Fit
<1>12. Single'
  <2>1. nif.state # "Released" /\ kind = "wifi" => FALSE
    <3> SUFFICES ASSUME nif.state # "Released", kind = "wifi"
                 PROVE  FALSE
      OBVIOUS
    <3>1. PICK t \in Subscribers : nif.list[t] # "out"
      BY <1>1 DEF Single
    <3>2. Standing(t)
      BY <1>1 DEF Clients
    <3> QED BY <1>4, <3>2 DEF Takes, Standing, Fit
  <2> QED BY <1>2, <1>8, <2>1 DEF Single
<1>13. Backed'
  BY <1>1, <1>2, <1>5, <1>8, StillBacked
<1>14. Course'
  <2>1. Wanted' <=> Wanted
    BY <1>2 DEF Wanted
  <2> QED BY <1>1, <1>2, <1>5, <1>8, <2>1, StillOnCourse
<1> QED BY <1>10, <1>11, <1>12, <1>13, <1>14

\* What the notice e of an end makes of the machine: those in S are told and leave the
\* list, the others stay as they are.
Ends(e, st, l, S, asks) ==
  /\ st \in States /\ l \in Lists /\ S \in SUBSET Subscribers /\ asks \in {"none", "REQUEST"}
  /\ \A t \in Subscribers : IF t \in S THEN nif.list[t] # "out" /\ l[t] = "out"
                                       ELSE l[t] = nif.list[t]
  /\ st = "Released" => \A t \in Subscribers : l[t] = "out"
  /\ st # "Released" => st # "Releasing" /\ (l = nif.list \/ \E t \in Subscribers : l[t] = "active")
  /\ st # "Released" /\ st # nif.state => nif.state = "Releasing"
  /\ st = "Acquired" => nif.state = "Acquired" /\ e = denied
  /\ asks = "REQUEST" => nif.state = "Releasing" /\ \E t \in Subscribers : nif.list[t] = "active"

\* The transition r at the notice e: all are dismissed, or those that wait for the close,
\* or the notice says nothing new.
EndsBy(e, status, r) ==
  \/ r = Dismiss(nif, status)
  \/ r = Rearm(nif, status) /\ nif.state = "Releasing"
  \/ /\ r = Outcome(nif, {}, "none") /\ nif.state # "Releasing"
     /\ nif.state = "Acquired" => e = denied

EndTurn(e, status, r, st, l, S, asks, told) ==
  /\ Ends(e, st, l, S, asks)
  /\ Turn(r, st, l, S, told, asks) /\ told \in {status, "GRANTED"} /\ (told = status \/ S = {})

\* Every answer of the machine to the end of an interface is of this form.
LEMMA EndsTurn ==
  ASSUME TypeOK, NEW e, NEW status, NEW r, EndsBy(e, status, r),
         \A t \in Subscribers : nif.state = "Released" => nif.list[t] = "out"
  PROVE  \E st, l, S, asks, told : EndTurn(e, status, r, st, l, S, asks, told)
<1>1. nif \in Machine /\ nif.list \in Lists /\ nif.state \in States
  BY DEF TypeOK, Machine, Lists
<1>2. /\ Actives(nif) = {s \in Subscribers : nif.list[s] = "active"}
      /\ Inactives(nif) = {s \in Subscribers : nif.list[s] = "inactive"}
  BY DEF Actives, Inactives
<1>3. /\ Waiting(nif.list) \in Lists /\ [s \in Subscribers |-> "out"] \in Lists
      /\ \A t \in Subscribers : Waiting(nif.list)[t] = IF nif.list[t] = "inactive" THEN "out" ELSE nif.list[t]
  BY <1>1 DEF Waiting, Lists
<1>4. CASE r = Dismiss(nif, status)
  <2> DEFINE S == Actives(nif) \cup Inactives(nif)
             l == [s \in Subscribers |-> "out"]
  <2>1. Turn(r, "Released", l, S, status, "none")
    BY <1>1, <1>4, EndingTurns
  <2>2. \A t \in Subscribers : t \in S <=> nif.list[t] # "out"
    BY <1>1, <1>2 DEF Lists
  <2>3. S \in SUBSET Subscribers
    BY <1>2
  <2>4. l \in Lists /\ \A t \in Subscribers : l[t] = "out"
    BY <1>3
  <2> HIDE DEF S, l
  <2>5. Ends(e, "Released", l, S, "none")
    BY <2>2, <2>3, <2>4 DEF Ends, States
  <2> QED BY <2>1, <2>5 DEF EndTurn
<1>5. CASE r = Rearm(nif, status) /\ nif.state = "Releasing"
  <2> DEFINE S == Inactives(nif)
             l == Waiting(nif.list)
  <2>1. hasActiveSubscribers(nif) <=> \E t \in Subscribers : nif.list[t] = "active"
    BY <1>2 DEF hasActiveSubscribers
  <2>2. IF hasActiveSubscribers(nif) THEN Turn(r, "Pending", l, S, status, "REQUEST")
                                     ELSE Turn(r, "Released", l, S, status, "none")
    BY <1>1, <1>5, EndingTurns
  <2>3. \A t \in Subscribers : t \in S <=> nif.list[t] = "inactive"
    BY <1>2
  <2>4. S \in SUBSET Subscribers
    BY <1>2
  <2>5. /\ l \in Lists
        /\ \A t \in Subscribers : l[t] = IF nif.list[t] = "inactive" THEN "out" ELSE nif.list[t]
        /\ \A t \in Subscribers : nif.list[t] \in {"out", "active", "inactive"}
    BY <1>1, <1>3 DEF Lists
  <2> HIDE DEF S, l
  <2>6. CASE hasActiveSubscribers(nif)
    <3>1. Ends(e, "Pending", l, S, "REQUEST")
      BY <1>5, <2>1, <2>3, <2>4, <2>5, <2>6 DEF Ends, States
    <3> QED BY <2>2, <2>6, <3>1 DEF EndTurn
  <2>7. CASE ~hasActiveSubscribers(nif)
    <3>1. Ends(e, "Released", l, S, "none")
      BY <1>5, <2>1, <2>3, <2>4, <2>5, <2>7 DEF Ends, States
    <3> QED BY <2>2, <2>7, <3>1 DEF EndTurn
  <2> QED BY <2>6, <2>7
<1>6. CASE /\ r = Outcome(nif, {}, "none") /\ nif.state # "Releasing"
           /\ nif.state = "Acquired" => e = denied
  <2>1. Turn(r, nif.state, nif.list, {}, "GRANTED", "none")
    BY <1>1, <1>6, NothingTurns
  <2>2. Ends(e, nif.state, nif.list, {}, "none")
    BY <1>1, <1>6 DEF Ends
  <2> QED BY <2>1, <2>2 DEF EndTurn
<1> QED BY <1>4, <1>5, <1>6 DEF EndsBy

\* The notice of an end is handled: nothing more of that connection follows.
LEMMA EndKeeps ==
  ASSUME Inv, NEW what, Handle(what), NEW e \in {denied, closed}, Head(msgs) = e,
         NEW status \in {"DENIED", "RELEASED"}, NEW r, Become(r),
         EndsBy(e, status, r)
  PROVE  TypeOK' /\ Clients' /\ Backed' /\ Single' /\ Course'
<1>1. TypeOK /\ Clients /\ Backed /\ Single /\ Course
  BY DEF Inv
<1>2. UNCHANGED <<kind, conn>>
  BY DEF Handle
<1>3. nif.list \in Lists
  BY <1>1 DEF TypeOK, Machine, Lists
<1>4. Takes(e) /\ e \in Events /\ granted \in Events /\ denied \in Events /\ closed \in Events
  BY <1>1, TakesHead DEF Events
<1>5. \A t : /\ Has(msgs', req(t)) <=> Has(msgs, req(t))
             /\ Has(msgs', rel(t)) <=> Has(msgs, rel(t))
             /\ Has(msgs', up) <=> Has(msgs, up)
  BY <1>4, TakesEvent
<1>6. \A t \in Subscribers : Order(t)'
  BY <1>1, OrderTaken
<1>7. \A t \in Subscribers : nif.state = "Released" => nif.list[t] = "out"
  BY <1>1 DEF Clients, Standing
<1> PICK st, l, S, asks, told : EndTurn(e, status, r, st, l, S, asks, told)
  BY <1>1, <1>7, EndsTurn
<1>8. Ends(e, st, l, S, asks)
  BY DEF EndTurn
<1>9. /\ Turn(r, st, l, S, told, asks)
      /\ told \in {status, "GRANTED"} /\ (told = status \/ S = {})
  BY DEF EndTurn
<1>10. Made(r, st, l, S, told, asks)
  BY <1>8, <1>9 DEF Made, Ends, Status, Statuses
<1>11. Moves(st, l, S, told, asks)
  BY <1>1, <1>10, Turning
<1>12. TypeOK'
  BY <1>1, <1>11, HandleTyped DEF Moves
<1>13. /\ nif'.state = st /\ nif'.list = l
       /\ asked' = IF asks = "none" THEN asked ELSE Append(asked, asks)
       /\ conv' = [t \in Subscribers |-> IF t \in S THEN Heard(conv[t], told) ELSE conv[t]]
  BY <1>11 DEF Moves
<1>14. \A t \in Subscribers :
         /\ nif'.list[t] = IF t \in S THEN "out" ELSE nif.list[t]
         /\ t \in S => nif.list[t] # "out"
         /\ nif'.state = "Released" => nif'.list[t] = "out"
  BY <1>8, <1>13 DEF Ends
<1>15. Clients'
  <2> SUFFICES ASSUME NEW t \in Subscribers
               PROVE  Standing(t)'
    BY <1>6 DEF Clients
  <2>1. Standing(t)
    BY <1>1 DEF Clients
  <2>2. conv[t] \in {"closed", "opening", "open", "closing", "lost"}
    BY <1>1 DEF TypeOK
  <2>3. CASE t \in S
    <3>1. conv[t] \in {"opening", "open", "closing", "lost"}
      BY <1>14, <2>1, <2>3 DEF Standing, Fit
    <3>2. conv'[t] = Heard(conv[t], told) /\ told = status
      BY <1>9, <1>13, <2>3
    <3>3. conv'[t] = IF conv[t] = "lost" THEN "lost" ELSE "closed"
      <4>1. CASE status = "DENIED"
        BY <3>1, <3>2, <4>1 DEF Heard, atlOpenStatus
      <4>2. CASE status = "RELEASED"
        BY <3>1, <3>2, <4>2 DEF Heard, atlCloseStatus
      <4> QED BY <4>1, <4>2
    <3> QED BY <1>2, <1>5, <1>14, <2>1, <2>3, <3>1, <3>3, Constant DEF Standing, Fit
  <2>4. CASE t \notin S
    <3>1. conv'[t] = conv[t] /\ nif'.list[t] = nif.list[t]
      BY <1>13, <1>14, <2>4
    <3>2. conv[t] = "open" => nif'.state = "Acquired"
      <4> SUFFICES ASSUME conv[t] = "open"
                   PROVE  nif'.state = "Acquired"
        OBVIOUS
      <4>1. nif.state = "Acquired" /\ nif.list[t] = "active"
        BY <2>1 DEF Standing, Fit
      <4>2. st # "Released"
        BY <1>13, <1>14, <3>1, <4>1
      <4> QED BY <1>8, <1>13, <4>1, <4>2 DEF Ends
    <3> QED BY <1>2, <1>5, <1>14, <2>1, <3>1, <3>2, Constant DEF Standing, Fit
  <2> QED BY <2>3, <2>4
<1>16. Single'
  <2> SUFFICES ASSUME kind = "wifi"
               PROVE  /\ \A t, u \in Subscribers : l[t] # "out" /\ l[u] # "out" => t = u
                      /\ st # "Released" => \E t \in Subscribers : l[t] # "out"
                      /\ st # "Releasing"
    BY <1>2, <1>13 DEF Single
  <2>1. \A t \in Subscribers : l[t] # "out" => nif.list[t] # "out"
    BY <1>8 DEF Ends
  <2>2. st # "Releasing"
    BY <1>8 DEF Ends
  <2>3. st # "Released" => \E t \in Subscribers : l[t] # "out"
    <3> SUFFICES ASSUME st # "Released"
                 PROVE  \E t \in Subscribers : l[t] # "out"
      OBVIOUS
    <3>1. CASE \E t \in Subscribers : l[t] = "active"
      BY <3>1
    <3>2. CASE l = nif.list /\ st = nif.state
      BY <1>1, <3>2 DEF Single
    <3>3. CASE l = nif.list /\ nif.state = "Releasing"
      BY <1>1, <3>3 DEF Single
    <3> QED BY <1>8, <3>1, <3>2, <3>3 DEF Ends
  <2> QED BY <1>1, <2>1, <2>2, <2>3 DEF Single
<1>17. Backed'
  <2>1. Followed(msgs, granted, closed) => Followed(msgs', granted, closed)
    BY <1>4 DEF Takes
  <2>2. nif'.state = "Acquired" => nif.state = "Acquired" /\ (Has(msgs', closed) <=> Has(msgs, closed))
    BY <1>4, <1>8, <1>13, Distinct DEF Ends, Takes
  <2> QED BY <1>1, <1>2, <2>1, <2>2, Constant DEF Backed
<1>18. Course'
  <2> SUFFICES ASSUME kind = "wifi"
               PROVE  Course'
    BY <1>2 DEF Course
  <2>1. Has(msgs, e)
    BY <1>4 DEF Takes
  <2>2. conn = "closed" /\ ~Wanted
    BY <1>1, <2>1 DEF Course, Ended
  <2>3. ~Has(msgs', granted) /\ ~Has(msgs', denied) /\ ~Has(msgs', closed)
    <3>1. CASE e = denied
      BY <1>1, <1>4, <2>1, <3>1 DEF Course, Takes
    <3>2. CASE e = closed
      BY <1>1, <1>4, <2>1, <3>2 DEF Course, Takes
    <3> QED BY <3>1, <3>2
  <2>4. asked' = asked
    BY <1>1, <1>8, <1>13 DEF Ends, Single
  <2>5. Quiet' /\ ~Ended' /\ ~Wanted'
    BY <2>2, <2>3, <2>4, Constant DEF Quiet, Ended, Wanted
  <2>6. /\ Once(asked', "REQUEST") /\ Once(msgs', denied) /\ Once(msgs', closed)
        /\ Before(msgs', granted, denied) /\ Before(msgs', granted, closed)
    BY <1>1, <1>4, <2>4 DEF Course, Takes
  <2> QED BY <1>2, <2>2, <2>3, <2>5, <2>6, Constant DEF Course
<1> QED BY <1>12, <1>15, <1>16, <1>17, <1>18

LEMMA ClosedKeeps ==
  ASSUME Inv, LocEngAtlClosed
  PROVE  TypeOK' /\ Clients' /\ Backed' /\ Single' /\ Course'
<1>1. Handle("RELEASED") /\ Become(Closed(nif)) /\ Head(msgs) = closed
  BY Taken DEF Inv, LocEngAtlClosed
<1>2. EndsBy(closed, "RELEASED", Closed(nif))
  BY DEF EndsBy, Closed
<1>3. closed \in {denied, closed} /\ "RELEASED" \in {"DENIED", "RELEASED"}
  OBVIOUS
<1> QED BY <1>1, <1>2, <1>3, EndKeeps

LEMMA DeniedKeeps ==
  ASSUME Inv, LocEngAtlOpenFailed
  PROVE  TypeOK' /\ Clients' /\ Backed' /\ Single' /\ Course'
<1>1. Handle("DENIED") /\ Become(Denied(nif)) /\ Head(msgs) = denied
  BY Taken DEF Inv, LocEngAtlOpenFailed
<1>2. EndsBy(denied, "DENIED", Denied(nif))
  BY DEF EndsBy, Denied
<1>3. denied \in {denied, closed} /\ "DENIED" \in {"DENIED", "RELEASED"}
  OBVIOUS
<1> QED BY <1>1, <1>2, <1>3, EndKeeps

-----------------------------------------------------------------------------
(* The theorem *)

\* Clients, modem and framework keep the types.
LEMMA TypesKept ==
  ASSUME TypeOK, \/ \E s \in Subscribers : client_request(s) \/ client_release(s)
                 \/ modem_restart \/ fw_read \/ fw_opening_ends \/ fw_loses
  PROVE  TypeOK'
<1> DEFINE posts == \E e \in MsgType : msgs' = Append(msgs, e)
<1>1. /\ \A s \in Subscribers : Msg("request", s) \in MsgType /\ Msg("release", s) \in MsgType
      /\ Event("engineUp") \in MsgType /\ Event("GRANTED") \in MsgType
      /\ Event("DENIED") \in MsgType /\ Event("RELEASED") \in MsgType
  BY DEF Msg, Event, MsgType
<1>2. msgs' = msgs \/ posts
  <2>1. ASSUME NEW s \in Subscribers, client_request(s) \/ client_release(s)
        PROVE  posts
    BY <1>1, <2>1 DEF client_request, client_release, Post
  <2>2. modem_restart => posts
    BY <1>1 DEF modem_restart, Post
  <2>3. fw_read => msgs' = msgs \/ posts
    BY <1>1 DEF fw_read, Post, loc_eng_agps_open, loc_eng_agps_closed
  <2>4. fw_opening_ends => posts
    BY <1>1 DEF fw_opening_ends, Post, loc_eng_agps_open, loc_eng_agps_open_failed
  <2>5. fw_loses => posts
    BY <1>1 DEF fw_loses, Post, loc_eng_agps_closed
  <2> QED BY <2>1, <2>2, <2>3, <2>4, <2>5
<1>3. msgs \in Seq(MsgType)
  BY DEF TypeOK
<1>4. msgs' \in Seq(MsgType)
  <2>1. CASE posts
    <3>1. PICK e \in MsgType : msgs' = Append(msgs, e)
      BY <2>1
    <3> QED BY <1>3, <3>1
  <2> QED BY <1>2, <1>3, <2>1
<1>5. asked' \in Seq({"REQUEST", "RELEASE"})
  <2>1. asked \in Seq({"REQUEST", "RELEASE"})
    BY DEF TypeOK
  <2>2. fw_read => asked # <<>> /\ asked' = Tail(asked)
    BY DEF fw_read
  <2>3. fw_read \/ asked' = asked
    BY DEF client_request, client_release, modem_restart, fw_opening_ends, fw_loses
  <2> QED BY <2>1, <2>2, <2>3
<1>6. /\ UNCHANGED <<kind, nif>> /\ conn' \in {"closed", "opening", "open"}
      /\ conv' \in [Subscribers -> {"closed", "opening", "open", "closing", "lost"}]
  BY DEF TypeOK, client_request, client_release, modem_restart, fw_read, fw_opening_ends, fw_loses
<1>7. used' \in [requests : [Subscribers -> 0 .. MaxRequests],
                losses : 0 .. MaxLosses, restarts : 0 .. MaxRestarts]
  <2>1. /\ used \in [requests : [Subscribers -> 0 .. MaxRequests],
                    losses : 0 .. MaxLosses, restarts : 0 .. MaxRestarts]
        /\ MaxRequests \in Nat /\ MaxLosses \in Nat /\ MaxRestarts \in Nat
    BY BoundsAssumption DEF TypeOK
  <2>2. ASSUME NEW s \in Subscribers, client_request(s)
        PROVE  used' \in [requests : [Subscribers -> 0 .. MaxRequests],
                          losses : 0 .. MaxLosses, restarts : 0 .. MaxRestarts]
    <3>1. used' = [used EXCEPT !.requests[s] = @ + 1] /\ used.requests[s] < MaxRequests
      BY <2>2 DEF client_request
    <3>2. used.requests[s] + 1 \in 0 .. MaxRequests
      BY <2>1, <3>1
    <3>3. /\ used'.requests = [used.requests EXCEPT ![s] = used.requests[s] + 1]
          /\ used'.losses = used.losses /\ used'.restarts = used.restarts
          /\ used' = [requests |-> used'.requests, losses |-> used'.losses, restarts |-> used'.restarts]
      BY <2>1, <3>1
    <3>4. used'.requests \in [Subscribers -> 0 .. MaxRequests]
      BY <2>1, <3>2, <3>3
    <3> QED BY <2>1, <3>3, <3>4
  <2>3. modem_restart => used' = [used EXCEPT !.restarts = @ + 1] /\ used.restarts < MaxRestarts
    BY DEF modem_restart
  <2>4. fw_loses => used' = [used EXCEPT !.losses = @ + 1] /\ used.losses < MaxLosses
    BY DEF fw_loses
  <2>5. \/ \E s \in Subscribers : client_request(s)
        \/ modem_restart \/ fw_loses \/ used' = used
    BY DEF client_release, fw_read, fw_opening_ends
  <2> QED BY <2>1, <2>2, <2>3, <2>4, <2>5
<1> QED BY <1>4, <1>5, <1>6, <1>7 DEF TypeOK, MsgType

LEMMA InitInv == Init => Inv
<1> SUFFICES ASSUME Init
             PROVE  Inv
  OBVIOUS
<1> USE DEF Init, NewNif
<1>1. TypeOK
  <2>1. nif \in Machine
    BY DEF NewMachine, Machine, States
  <2> QED BY <2>1, BoundsAssumption DEF TypeOK
<1>2. /\ \A m : ~Has(msgs, m) /\ ~Has(asked, m) /\ Once(msgs, m) /\ Once(asked, m)
      /\ \A m, n : Before(msgs, m, n) /\ Followed(msgs, m, n)
  BY DEF Has, Once, Before, Followed
<1>3. nif.state = "Released" /\ \A s \in Subscribers : nif.list[s] = "out" /\ conv[s] = "closed"
  BY DEF NewMachine
<1>4. Clients
  BY <1>2, <1>3 DEF Clients, Order, Standing, Fit
<1>5. Backed /\ Single /\ Course
  BY <1>2, <1>3 DEF Backed, Single, Course, Quiet, Ended, Wanted
<1> QED BY <1>1, <1>4, <1>5 DEF Inv

LEMMA NextInv == Inv /\ [Next]_vars => Inv'
<1> SUFFICES ASSUME Inv, [Next]_vars
             PROVE  Inv'
  OBVIOUS
<1>1. ASSUME NEW s \in Subscribers, client_request(s)
      PROVE  Inv'
  BY <1>1, RequestKeeps, TypesKept DEF Inv
<1>2. ASSUME NEW s \in Subscribers, client_release(s)
      PROVE  Inv'
  BY <1>2, ReleaseKeeps, TypesKept DEF Inv
<1>3. CASE modem_restart
  BY <1>3, RestartKeeps, TypesKept DEF Inv
<1>4. CASE fw_read \/ fw_opening_ends \/ fw_loses
  BY <1>4, FrameworkKeeps, TypesKept DEF Inv
<1>5. CASE subscribeRsrc
  BY <1>5, SubscribeKeeps DEF Inv
<1>6. CASE unsubscribeRsrc
  BY <1>6, UnsubscribeKeeps DEF Inv
<1>7. CASE LocEngAtlOpenSuccess
  BY <1>7, GrantedKeeps DEF Inv
<1>8. CASE LocEngAtlClosed
  BY <1>8, ClosedKeeps DEF Inv
<1>9. CASE LocEngAtlOpenFailed
  BY <1>9, DeniedKeeps DEF Inv
<1>10. CASE LocEngUp
  BY <1>10, EngineUpKeeps DEF Inv
<1>11. CASE UNCHANGED vars
  <2>1. TypeOK'
    BY <1>11 DEF Inv, TypeOK, MsgType, vars
  <2>2. Clients'
    <3> SUFFICES ASSUME NEW s \in Subscribers
                 PROVE  Order(s)' /\ Standing(s)'
      BY DEF Clients
    <3>1. Order(s) /\ Standing(s)
      BY DEF Inv, Clients
    <3> QED BY <1>11, <3>1, Constant DEF vars, Order, Standing, Fit
  <2>3. Backed' /\ Single'
    BY <1>11, Constant DEF Inv, vars, Backed, Single
  <2>4. Course'
    BY <1>11, Constant DEF Inv, vars, Course, Quiet, Ended, Wanted
  <2> QED BY <2>1, <2>2, <2>3, <2>4 DEF Inv
<1> QED BY <1>1, <1>2, <1>3, <1>4, <1>5, <1>6, <1>7, <1>8, <1>9, <1>10, <1>11 DEF Next, MsgThread

\* The invariant is strong enough for all four promises.
LEMMA InvIsSound == Inv => InterfaceIsSound
<1> SUFFICES ASSUME Inv
             PROVE  InterfaceIsSound
  OBVIOUS
<1>1. /\ \A s : /\ Pending(Msg("request", s)) <=> Has(msgs, req(s))
                /\ Pending(Msg("release", s)) <=> Has(msgs, rel(s))
      /\ Pending(Event("RELEASED")) <=> Has(msgs, closed)
  BY DEF Pending, Has, req, rel, closed
<1>2. ClientsAreListed /\ ActiveIsWanted
  BY <1>1 DEF Inv, Clients, Standing, Fit, ClientsAreListed, ActiveIsWanted
<1>3. OpenIsBacked
  BY <1>1 DEF Inv, Clients, Standing, Backed, OpenIsBacked
<1>4. IdleIsClosed
  <2> SUFFICES ASSUME kind = "wifi", ~hasSubscribers(nif)
               PROVE  conn # "open"
    BY DEF IdleIsClosed
  <2>1. \A s \in Subscribers : nif.list[s] = "out"
    BY DEF Inv, TypeOK, Machine, hasSubscribers, Actives, Inactives
  <2> QED BY <2>1 DEF Inv, Single, Course
<1> QED BY <1>2, <1>3, <1>4 DEF Inv, InterfaceIsSound

\* The messages of every client are in order and fit what it sees and where it is listed,
\* and the framework's last word on a connection is its end.
THEOREM QueuesStayInOrder == Spec => []Inv
BY InitInv, NextInv, PTL DEF Spec

\* Clients, machine and framework of a network interface agree at every moment, for any
\* number of clients, requests, lost connections and restarts of the modem.
THEOREM InterfaceStaysSound == Spec => []InterfaceIsSound
BY QueuesStayInOrder, InvIsSound, PTL

-----------------------------------------------------------------------------
(* The emergency machine: its invariant *)

es(s)  == Msg("requestEs", s)
opened == Event("dsOpened")
ended  == Event("dsClosed")

\* A call is reported once, and its end is the last that is heard of it.
Announced == Once(msgs, opened) /\ Once(msgs, ended) /\ Before(msgs, opened, ended)

\* A machine in the state st has the call c, with the handle h, and it is still to hear that
\* the call opened or ended, or it is not.
CallFits(st, c, h, opens, ends) ==
  /\ ends => c = "none" /\ st # "Released"
  /\ c # "none" => h = "ready"
  /\ c = "starting" => st = "Pending" /\ ~opens
  /\ c = "up" => IF opens THEN st = "Pending" ELSE st = "Acquired"
  /\ c = "stopping" => st = "Releasing"
  /\ c = "none" /\ opens => ends
  /\ st = "Acquired" => ~opens /\ (c = "up" \/ ends)

Calls == Announced /\ CallFits(ds.state, call, handle, Has(msgs, opened), Has(msgs, ended))

\* A client before its request is nowhere; one that waits is in the right list, or its
\* request is on the way, and it has not asked to leave.
Waits(s) ==
  /\ used.requests[s] < MaxRequests =>
       /\ ds.list[s] = "out" /\ nif.list[s] = "out" /\ conv[s] = "closed"
       /\ ~Has(msgs, req(s)) /\ ~Has(msgs, rel(s)) /\ ~Has(msgs, es(s))
  /\ nif.list[s] # "inactive"
  /\ conv[s] = "opening" =>
       /\ ~Has(msgs, rel(s)) /\ ds.list[s] # "inactive"
       /\ ds.state = "Acquired" => ds.list[s] # "active"
       /\ nif.list[s] = "active" \/ ds.list[s] = "active" \/ Has(msgs, req(s)) \/ Has(msgs, es(s))

\* Every client has one request left, or none.
OneRequest ==
  used \in [requests : [Subscribers -> {MaxRequests - 1, MaxRequests}], losses : Nat, restarts : Nat]

DsInv == /\ kind = "plain" /\ DsTypeOK /\ OneRequest
         /\ Calls
         /\ \A s \in Subscribers : Waits(s)

-----------------------------------------------------------------------------
(* Its messages *)

LEMMA DsDistinct ==
  /\ \A s, t : /\ es(s) = es(t) <=> s = t
               /\ es(s) # req(t) /\ es(s) # rel(t) /\ req(s) # rel(t)
               /\ req(s) = req(t) <=> s = t
               /\ rel(s) = rel(t) <=> s = t
  /\ \A s : opened \notin {req(s), rel(s), es(s)} /\ ended \notin {req(s), rel(s), es(s)}
  /\ \A e \in Events : e # opened /\ e # ended /\ \A s : e # req(s) /\ e # rel(s) /\ e # es(s)
  /\ opened # ended
  BY DEF req, rel, es, opened, ended, granted, denied, closed, Msg, Event, Events

LEMMA DsMsgTypes ==
  /\ \A s \in Subscribers : req(s) \in DsMsgType /\ rel(s) \in DsMsgType /\ es(s) \in DsMsgType
  /\ opened \in DsMsgType /\ ended \in DsMsgType /\ Events \subseteq DsMsgType
  BY DEF req, rel, es, opened, ended, granted, denied, closed, Msg, Event, Events, MsgType, DsMsgType

LEMMA DsConstant ==
  /\ \A s : req(s)' = req(s) /\ rel(s)' = rel(s) /\ es(s)' = es(s)
  /\ opened' = opened /\ ended' = ended
  BY DEF req, rel, es, opened, ended, Msg, Event

\* Which message a handler takes.
LEMMA DsTaken ==
  ASSUME DsTypeOK, msgs # <<>>
  PROVE  LET m == Head(msgs) IN
         /\ m.what = "request" => m.who \in Subscribers /\ m = req(m.who)
         /\ m.what = "release" => m.who \in Subscribers /\ m = rel(m.who)
         /\ m.what = "requestEs" => m.who \in Subscribers /\ m = es(m.who)
         /\ m.what = "dsOpened" => m = opened
         /\ m.what = "dsClosed" => m = ended
         /\ m.what \in {"GRANTED", "DENIED", "RELEASED"} => m \in Events
<1>1. Head(msgs) \in DsMsgType
  BY DEF DsTypeOK
<1>2. \A m \in DsMsgType : m = [what |-> m.what, who |-> m.who]
                       /\ (IF m.what \in {"request", "release", "requestEs"} THEN m.who \in Subscribers
                                                             ELSE m.who = "framework")
  BY DEF MsgType, DsMsgType
<1> QED BY <1>1, <1>2 DEF req, rel, es, opened, ended, granted, denied, closed, Msg, Event, Events

\* A message was posted.
Posted(m) ==
  /\ msgs' \in Seq(DsMsgType)
  /\ \A n : Has(msgs', n) <=> Has(msgs, n) \/ n = m
  /\ Announced /\ (m = opened => ~Has(msgs, opened) /\ ~Has(msgs, ended))
               /\ (m = ended => ~Has(msgs, ended)) => Announced'

LEMMA IsPosted ==
  ASSUME DsTypeOK, NEW m \in DsMsgType, Post(m)
  PROVE  Posted(m)
<1>1. msgs \in Seq(DsMsgType) /\ msgs' = Append(msgs, m)
  BY DEF DsTypeOK, Post
<1>2. msgs' \in Seq(DsMsgType)
  BY <1>1
<1>3. \A n : Has(msgs', n) <=> Has(msgs, n) \/ n = m
  BY <1>1, Joining
<1>4. /\ Once(msgs, opened) /\ (m = opened => ~Has(msgs, opened)) => Once(msgs', opened)
      /\ Once(msgs, ended) /\ (m = ended => ~Has(msgs, ended)) => Once(msgs', ended)
      /\ Before(msgs, opened, ended) /\ (m = opened => ~Has(msgs, ended) /\ opened # ended)
           => Before(msgs', opened, ended)
  BY <1>1, Joining
<1> QED BY <1>2, <1>3, <1>4, DsDistinct, DsConstant DEF Posted, Announced

\* The message at the head was taken, and requests of S were posted.
Went(S) ==
  /\ msgs' \in Seq(DsMsgType)
  /\ \A s \in Subscribers :
       /\ Head(msgs) = req(s) => Has(msgs, req(s))
       /\ Has(msgs, req(s)) => Head(msgs) = req(s) \/ Has(msgs', req(s))
       /\ Has(msgs', req(s)) => Has(msgs, req(s)) \/ s \in S
       /\ s \in S => Has(msgs', req(s))
       /\ Has(msgs, rel(s)) <=> Head(msgs) = rel(s) \/ Has(msgs', rel(s))
       /\ Has(msgs, es(s)) <=> Head(msgs) = es(s) \/ Has(msgs', es(s))
  /\ \A e \in {opened, ended} : Has(msgs, e) <=> Head(msgs) = e \/ Has(msgs', e)
  /\ Announced => /\ Announced'
                  /\ Head(msgs) = opened => ~Has(msgs', opened)
                  /\ Head(msgs) = ended => ~Has(msgs', ended) /\ ~Has(msgs', opened)

\* What follows a queue changes nothing before it.
LEMMA Following ==
  ASSUME NEW T, NEW q \in Seq(T), NEW r \in Seq(T), NEW m
  PROVE  /\ Has(q \o r, m) <=> Has(q, m) \/ Has(r, m)
         /\ ~Has(r, m) /\ Once(q, m) => Once(q \o r, m)
         /\ \A n : ~Has(r, m) /\ ~Has(r, n) /\ Before(q, m, n) => Before(q \o r, m, n)
<1> DEFINE a == q \o r
<1>1. /\ DOMAIN q = 1 .. Len(q) /\ Len(q) \in Nat /\ DOMAIN r = 1 .. Len(r) /\ Len(r) \in Nat
      /\ DOMAIN a = 1 .. Len(q) + Len(r)
      /\ \A i \in 1 .. Len(q) : a[i] = q[i]
      /\ \A i \in 1 .. Len(r) : a[Len(q) + i] = r[i]
  OBVIOUS
<1> HIDE DEF a
<1>2. \A i \in DOMAIN a : \/ i \in DOMAIN q /\ a[i] = q[i]
                          \/ i - Len(q) \in DOMAIN r /\ a[i] = r[i - Len(q)]
  <2> SUFFICES ASSUME NEW i \in DOMAIN a, i \notin DOMAIN q
               PROVE  i - Len(q) \in DOMAIN r /\ a[i] = r[i - Len(q)]
    BY <1>1
  <2>1. i - Len(q) \in 1 .. Len(r) /\ i = Len(q) + (i - Len(q))
    BY <1>1
  <2> QED BY <1>1, <2>1
<1>3. Has(a, m) <=> Has(q, m) \/ Has(r, m)
  <2>1. Has(a, m) => Has(q, m) \/ Has(r, m)
    BY <1>2 DEF Has
  <2>2. Has(q, m) => Has(a, m)
    BY <1>1 DEF Has
  <2>3. ASSUME Has(r, m) PROVE Has(a, m)
    <3>1. PICK i \in 1 .. Len(r) : r[i] = m
      BY <1>1, <2>3 DEF Has
    <3>2. Len(q) + i \in DOMAIN a /\ a[Len(q) + i] = m
      BY <1>1, <3>1
    <3> QED BY <3>2 DEF Has
  <2> QED BY <2>1, <2>2, <2>3
<1>4. \A n : ~Has(r, n) => \A i \in DOMAIN a : a[i] = n => i \in DOMAIN q /\ q[i] = n
  BY <1>2 DEF Has
<1>5. ~Has(r, m) /\ Once(q, m) => Once(a, m)
  BY <1>4 DEF Once
<1>6. \A n : ~Has(r, m) /\ ~Has(r, n) /\ Before(q, m, n) => Before(a, m, n)
  BY <1>4 DEF Before
<1> QED BY <1>3, <1>5, <1>6 DEF a

\* The requests of those that fall back.
LEMMA RequestsOf ==
  ASSUME NEW S \in SUBSET Subscribers, NEW o, Fallback(S, o)
  PROVE  \E r \in Seq(DsMsgType) : /\ msgs' = Tail(msgs) \o r
                                   /\ \A m : Has(r, m) <=> \E s \in S : m = req(s)
<1>1. PICK q \in InOrder(S, o) : msgs' = Tail(msgs) \o [i \in DOMAIN q |-> req(q[i])]
  BY DEF Fallback, req
<1> DEFINE n == Cardinality(S)
           r == [i \in 1 .. n |-> req(q[i])]
<1>2. n \in Nat
  BY SubscribersAssumption, FS_Subset, FS_CardinalityType
<1>3. q \in [1 .. n -> S] /\ \A s \in S : \E i \in 1 .. n : q[i] = s
  BY <1>1 DEF InOrder
<1>4. DOMAIN q = 1 .. n /\ \A i \in 1 .. n : q[i] \in S
  BY <1>3
<1> HIDE DEF n
<1>5. \A i \in 1 .. n : r[i] = req(q[i]) /\ r[i] \in DsMsgType
  BY <1>4, DsMsgTypes
<1>6. r \in [1 .. n -> DsMsgType]
  BY <1>5
<1> HIDE DEF r
<1>7. r \in Seq(DsMsgType)
  BY <1>2, <1>6
<1>8. DOMAIN r = 1 .. n
  BY <1>6
<1>9. \A m : Has(r, m) <=> \E s \in S : m = req(s)
  BY <1>3, <1>4, <1>5, <1>8 DEF Has
<1>10. msgs' = Tail(msgs) \o r
  BY <1>1, <1>4 DEF r
<1> QED BY <1>7, <1>9, <1>10

LEMMA HasGone ==
  ASSUME DsTypeOK, msgs # <<>>, NEW S \in SUBSET Subscribers, NEW r \in Seq(DsMsgType),
         msgs' = Tail(msgs) \o r, \A m : Has(r, m) <=> \E s \in S : m = req(s)
  PROVE  Went(S)
<1>1. msgs \in Seq(DsMsgType) /\ Tail(msgs) \in Seq(DsMsgType)
  BY DEF DsTypeOK
<1>2. msgs' \in Seq(DsMsgType)
  BY <1>1
<1>3. \A m : Has(msgs', m) <=> Has(Tail(msgs), m) \/ \E s \in S : m = req(s)
  BY <1>1, Following
<1>4. \A m : Has(msgs, m) <=> Head(msgs) = m \/ Has(Tail(msgs), m)
  BY <1>1, Leaving
<1>5. ~Has(r, opened) /\ ~Has(r, ended)
  BY DsDistinct
<1>6. ASSUME Announced
      PROVE  /\ Announced'
             /\ Head(msgs) = opened => ~Has(msgs', opened)
             /\ Head(msgs) = ended => ~Has(msgs', ended) /\ ~Has(msgs', opened)
  <2>1. /\ Once(Tail(msgs), opened) /\ Once(Tail(msgs), ended) /\ Before(Tail(msgs), opened, ended)
        /\ Head(msgs) = opened => ~Has(Tail(msgs), opened)
        /\ Head(msgs) = ended => ~Has(Tail(msgs), ended) /\ ~Has(Tail(msgs), opened)
    BY <1>1, <1>6, Leaving DEF Announced
  <2>2. Once(msgs', opened) /\ Once(msgs', ended) /\ Before(msgs', opened, ended)
    BY <1>1, <1>5, <2>1, Following
  <2> QED BY <1>3, <2>1, <2>2, DsDistinct, DsConstant DEF Announced
<1>7. ASSUME NEW s \in Subscribers
      PROVE  /\ Head(msgs) = req(s) => Has(msgs, req(s))
             /\ Has(msgs, req(s)) => Head(msgs) = req(s) \/ Has(msgs', req(s))
             /\ Has(msgs', req(s)) => Has(msgs, req(s)) \/ s \in S
             /\ s \in S => Has(msgs', req(s))
             /\ Has(msgs, rel(s)) <=> Head(msgs) = rel(s) \/ Has(msgs', rel(s))
             /\ Has(msgs, es(s)) <=> Head(msgs) = es(s) \/ Has(msgs', es(s))
  BY <1>3, <1>4, DsDistinct
<1>8. \A e \in {opened, ended} : Has(msgs, e) <=> Head(msgs) = e \/ Has(msgs', e)
  BY <1>3, <1>4, DsDistinct
<1> QED BY <1>2, <1>6, <1>7, <1>8 DEF Went

LEMMA FellBack ==
  ASSUME DsTypeOK, msgs # <<>>, NEW S \in SUBSET Subscribers, NEW o, Fallback(S, o)
  PROVE  Went(S)
BY RequestsOf, HasGone

LEMMA NobodyFellBack ==
  ASSUME DsTypeOK, msgs # <<>>, msgs' = Tail(msgs)
  PROVE  Went({})
<1>1. Tail(msgs) \o <<>> = Tail(msgs) /\ <<>> \in Seq(DsMsgType)
  BY DEF DsTypeOK
<1>2. \A m : ~Has(<<>>, m)
  BY DEF Has
<1>3. msgs' = Tail(msgs) \o <<>>
  BY <1>1
<1> QED BY <1>1, <1>2, <1>3, HasGone

-----------------------------------------------------------------------------
(* The transitions, told apart by what they tell *)

Seen == {"closed", "opening", "open", "closing"}

\* Nobody who is told waits on, unless there was nothing to release; nobody begins to wait.
LEMMA ToldFacts ==
  ASSUME conv \in [Subscribers -> Seen], NEW T, conv' = Told(T)
  PROVE  /\ conv' \in [Subscribers -> Seen]
         /\ \A s \in Subscribers :
              /\ conv[s] = "closed" => conv'[s] = "closed"
              /\ conv'[s] = "opening" =>
                   /\ conv[s] = "opening"
                   /\ <<s, "NOT_FOUND">> \notin T => \A st \in Statuses : <<s, st>> \notin T
<1> DEFINE All == Statuses \cup {"NOT_FOUND"}
<1>1. \A s \in Subscribers : conv'[s] = IF \E st \in All : <<s, st>> \in T
                                        THEN Heard(conv[s], CHOOSE st \in All : <<s, st>> \in T)
                                        ELSE conv[s]
  BY DEF Told
<1>2. DOMAIN conv' = Subscribers /\ conv' = [s \in Subscribers |-> conv'[s]]
  BY DEF Told
<1>3. \A c \in Seen, st \in All : /\ Heard(c, st) \in Seen
                                  /\ c = "closed" => Heard(c, st) = "closed"
                                  /\ Heard(c, st) = "opening" => c = "opening" /\ st = "NOT_FOUND"
  BY DEF Heard, atlOpenStatus, atlCloseStatus, Seen, Statuses
<1> SUFFICES ASSUME NEW s \in Subscribers
             PROVE  /\ conv'[s] \in Seen
                    /\ conv[s] = "closed" => conv'[s] = "closed"
                    /\ conv'[s] = "opening" =>
                         /\ conv[s] = "opening"
                         /\ <<s, "NOT_FOUND">> \notin T => \A st \in Statuses : <<s, st>> \notin T
  BY <1>2
<1>4. CASE \E st \in All : <<s, st>> \in T
  <2>1. PICK x : x = CHOOSE st \in All : <<s, st>> \in T
    OBVIOUS
  <2>2. x \in All /\ <<s, x>> \in T
    BY <1>4, <2>1
  <2>3. conv'[s] = Heard(conv[s], x) /\ conv[s] \in Seen
    BY <1>1, <1>4, <2>1
  <2> QED BY <1>3, <2>2, <2>3
<1>5. CASE ~\E st \in All : <<s, st>> \in T
  BY <1>1, <1>5
<1> QED BY <1>4, <1>5

LEMMA MachineParts ==
  ASSUME NEW m \in Machine
  PROVE  /\ m = [state |-> m.state, list |-> m.list] /\ m.state \in States /\ m.list \in Lists
         /\ \A s \in Subscribers : m.list[s] \in {"out", "active", "inactive"}
  BY DEF Machine, Lists

LEMMA SubscribeTells ==
  ASSUME NEW m \in Machine, NEW s \in Subscribers, NEW started \in BOOLEAN,
         NEW r, r = Subscribe(m, s, started)
  PROVE  /\ r.m \in Machine
         /\ \A t \in Subscribers : r.m.list[t] = IF t = s /\ m.list[s] = "out" THEN "active" ELSE m.list[t]
         /\ r.m.state = IF m.state = "Released" THEN IF started THEN "Pending" ELSE "Released"
                                                ELSE m.state
         /\ \A t, st : <<t, st>> \in r.told <=> m.state = "Acquired" /\ t = s /\ st = "GRANTED"
         /\ r.action \in {"none", "REQUEST"}
<1>1. PICK l : l = addSubscriber(m, s).list
  OBVIOUS
<1>2. /\ addSubscriber(m, s) = [state |-> m.state, list |-> l] /\ l \in Lists
      /\ \A t \in Subscribers : l[t] = IF t = s /\ m.list[s] = "out" THEN "active" ELSE m.list[t]
  BY <1>1 DEF addSubscriber, Machine, Lists
<1>3. CASE m.state = "Released"
  <2>1. Subscribe(m, s, started)
          = [m |-> [state |-> IF started THEN "Pending" ELSE "Released", list |-> l],
             told |-> {}, action |-> "REQUEST"]
    <3>1. \A st : InState(addSubscriber(m, s), st) = [state |-> st, list |-> l]
      BY <1>2 DEF InState
    <3>2. Subscribe(m, s, started)
            = Outcome(InState(addSubscriber(m, s), IF started THEN "Pending" ELSE "Released"), {}, "REQUEST")
      BY <1>3 DEF Subscribe
    <3> QED BY <3>1, <3>2 DEF Outcome
  <2> QED BY <1>2, <1>3, <2>1 DEF Machine, States, Lists
<1>4. CASE m.state # "Released"
  <2>1. Subscribe(m, s, started)
          = [m |-> [state |-> m.state, list |-> l],
             told |-> IF m.state = "Acquired" THEN {s} \X {"GRANTED"} ELSE {}, action |-> "none"]
    BY <1>2, <1>4 DEF Subscribe, Outcome, Tell
  <2> QED BY <1>2, <1>4, <2>1, MachineParts DEF Machine, Lists
<1> QED BY <1>3, <1>4

LEMMA UnsubscribeTells ==
  ASSUME NEW m \in Machine, NEW s \in Subscribers, NEW wait \in BOOLEAN
  PROVE  LET r == Unsubscribe(m, s, wait) IN
         /\ r.m \in Machine
         /\ \A t \in Subscribers : t # s => r.m.list[t] = m.list[t]
         /\ r.m.list[s] = IF m.state = "Released" THEN m.list[s]
                          ELSE IF wait THEN "inactive" ELSE "out"
         /\ \A t, st : <<t, st>> \in r.told
                         <=> (m.state = "Released" \/ ~wait) /\ t = s /\ st = "UNSUBSCRIBE"
         /\ r.action \in {"none", "RELEASE"}
         /\ wait => IF r.action = "RELEASE" THEN r.m.state = "Releasing" /\ m.state # "Released"
                                            ELSE r.m.state = m.state
<1> DEFINE l == Less(m.list, s, wait)
           left == [state |-> m.state, list |-> l]
           r == Unsubscribe(m, s, wait)
           told == IF wait THEN {} ELSE Tell({s}, "UNSUBSCRIBE")
<1>1. /\ m = [state |-> m.state, list |-> m.list] /\ m.state \in States /\ m.list \in Lists
      /\ l \in Lists /\ l[s] = IF wait THEN "inactive" ELSE "out"
      /\ \A t \in Subscribers : t # s => l[t] = m.list[t]
  BY MachineParts DEF Less, Lists
<1>2. (IF wait THEN [m EXCEPT !.list[s] = "inactive"] ELSE Without(m, {s})) = left
  <2>1. CASE wait
    BY <1>1, <2>1 DEF Less
  <2>2. CASE ~wait
    <3>1. l = [t \in Subscribers |-> IF t \in {s} THEN "out" ELSE m.list[t]]
      BY <1>1, <2>2 DEF Less, Lists
    <3>2. Without(m, {s}) = [m EXCEPT !.list = [t \in Subscribers |-> IF t \in {s} THEN "out" ELSE m.list[t]]]
      BY <1>1 DEF Without
    <3> QED BY <1>1, <2>2, <3>1, <3>2
  <2> QED BY <2>1, <2>2
<1>3. CASE m.state = "Released"
  <2>1. r = [m |-> m, told |-> {s} \X {"UNSUBSCRIBE"}, action |-> "none"]
    BY <1>3 DEF Unsubscribe, Outcome, Tell
  <2> QED BY <1>3, <2>1
<1>4. CASE m.state # "Released"
  <2>1. r = IF ~hasSubscribers(left)
            THEN Outcome(InState(left, "Released"), told,
                         IF m.state = "Releasing" THEN "none" ELSE "RELEASE")
            ELSE IF ~hasActiveSubscribers(left) /\ m.state # "Releasing"
            THEN Outcome(InState(left, "Releasing"), told, "RELEASE")
            ELSE Outcome(left, told, "none")
    BY <1>2, <1>4 DEF Unsubscribe
  <2>2. \A t, st : <<t, st>> \in told <=> ~wait /\ t = s /\ st = "UNSUBSCRIBE"
    BY DEF Tell
  <2>3. wait => hasSubscribers(left)
    <3> SUFFICES ASSUME wait PROVE s \in Inactives(left)
      BY DEF hasSubscribers
    <3> QED BY <1>1 DEF Inactives
  <2> HIDE DEF l, told, r
  <2>4. \A st : InState(left, st) = [state |-> st, list |-> l]
    BY DEF InState
  <2> HIDE DEF left
  <2>5. CASE ~hasSubscribers(left)
    <3>1. r = [m |-> [state |-> "Released", list |-> l], told |-> told,
               action |-> IF m.state = "Releasing" THEN "none" ELSE "RELEASE"]
      BY <2>1, <2>4, <2>5 DEF Outcome
    <3>2. r.m \in Machine
      BY <1>1, <3>1 DEF Machine, States, Lists
    <3> QED BY <1>1, <1>4, <2>2, <2>3, <2>5, <3>1, <3>2 DEF r
  <2>6. CASE hasSubscribers(left) /\ ~hasActiveSubscribers(left) /\ m.state # "Releasing"
    <3>1. r = [m |-> [state |-> "Releasing", list |-> l], told |-> told, action |-> "RELEASE"]
      BY <2>1, <2>4, <2>6 DEF Outcome
    <3>2. r.m \in Machine
      BY <1>1, <3>1 DEF Machine, States, Lists
    <3> QED BY <1>1, <1>4, <2>2, <3>1, <3>2 DEF r
  <2>7. CASE hasSubscribers(left) /\ (hasActiveSubscribers(left) \/ m.state = "Releasing")
    <3>1. r = [m |-> [state |-> m.state, list |-> l], told |-> told, action |-> "none"]
      BY <2>1, <2>7 DEF Outcome, left
    <3>2. r.m \in Machine
      BY <1>1, <3>1 DEF Machine, States, Lists
    <3> QED BY <1>1, <1>4, <2>2, <3>1, <3>2 DEF r
  <2> QED BY <2>5, <2>6, <2>7
<1> QED BY <1>3, <1>4

LEMMA GrantedTells ==
  ASSUME NEW m \in Machine
  PROVE  LET r == Granted(m) IN
         /\ r.m \in Machine /\ r.m.list = m.list
         /\ r.m.state = IF m.state = "Pending" THEN "Acquired" ELSE m.state
         /\ \A t, st : <<t, st>> \in r.told
                         <=> m.state = "Pending" /\ t \in Actives(m) /\ st = "GRANTED"
         /\ r.action = "none"
<1>1. CASE m.state = "Pending"
  <2>1. m = [state |-> m.state, list |-> m.list]
    BY MachineParts
  <2>2. Granted(m) = [m |-> [state |-> "Acquired", list |-> m.list],
                      told |-> Actives(m) \X {"GRANTED"}, action |-> "none"]
    BY <1>1, <2>1 DEF Granted, Outcome, InState, Tell
  <2> QED BY <1>1, <2>2 DEF Machine, States
<1>2. CASE m.state # "Pending"
  <2>1. Granted(m) = [m |-> m, told |-> {}, action |-> "none"]
    BY <1>2 DEF Granted, Outcome
  <2> QED BY <1>2, <2>1
<1> QED BY <1>1, <1>2

\* The end of an interface: all are told and leave, or those that waited for it.
LEMMA DismissTells ==
  ASSUME NEW m \in Machine, NEW status
  PROVE  LET r == Dismiss(m, status) IN
         /\ r.m \in Machine /\ r.m.state = "Released" /\ \A t \in Subscribers : r.m.list[t] = "out"
         /\ \A t, st : <<t, st>> \in r.told <=> t \in Subscribers /\ m.list[t] # "out" /\ st = status
         /\ r.action = "none"
<1>1. Dismiss(m, status) = [m |-> [state |-> "Released", list |-> [s \in Subscribers |-> "out"]],
                            told |-> (Actives(m) \cup Inactives(m)) \X {status}, action |-> "none"]
  BY DEF Dismiss, Outcome, Tell, NewMachine
<1>2. \A t : t \in Actives(m) \cup Inactives(m) <=> t \in Subscribers /\ m.list[t] # "out"
  BY MachineParts DEF Actives, Inactives
<1> QED BY <1>1, <1>2 DEF Machine, States

LEMMA RearmTells ==
  ASSUME NEW m \in Machine, NEW status
  PROVE  LET r == Rearm(m, status) IN
         /\ r.m \in Machine
         /\ \A t \in Subscribers : r.m.list[t] = IF m.list[t] = "inactive" THEN "out" ELSE m.list[t]
         /\ \A t, st : <<t, st>> \in r.told <=> t \in Subscribers /\ m.list[t] = "inactive" /\ st = status
         /\ \/ r.action = "REQUEST" /\ r.m.state = "Pending"
            \/ r.action = "none" /\ r.m.state = "Released" /\ \A t \in Subscribers : r.m.list[t] = "out"
<1>1. m = [state |-> m.state, list |-> m.list] /\ m.list \in Lists
      /\ \A s \in Subscribers : m.list[s] \in {"out", "active", "inactive"}
  BY MachineParts
<1>2. \A st : InState(Without(m, Inactives(m)), st) = [state |-> st, list |-> Waiting(m.list)]
  <2>1. Waiting(m.list) = [s \in Subscribers |-> IF s \in Inactives(m) THEN "out" ELSE m.list[s]]
    BY DEF Waiting, Inactives
  <2>2. Without(m, Inactives(m)) = [m EXCEPT !.list = Waiting(m.list)]
    BY <2>1, <1>1 DEF Without
  <2>3. Without(m, Inactives(m)) = [state |-> m.state, list |-> Waiting(m.list)]
    BY <1>1, <2>2
  <2> QED BY <2>3 DEF InState
<1>3. /\ Waiting(m.list) \in Lists
      /\ \A t \in Subscribers : Waiting(m.list)[t] = IF m.list[t] = "inactive" THEN "out" ELSE m.list[t]
  BY <1>1 DEF Waiting, Lists
<1>4. \A t, st : <<t, st>> \in Tell(Inactives(m), status)
                   <=> t \in Subscribers /\ m.list[t] = "inactive" /\ st = status
  BY DEF Tell, Inactives
<1>5. CASE hasActiveSubscribers(m)
  <2>1. Rearm(m, status) = [m |-> [state |-> "Pending", list |-> Waiting(m.list)],
                            told |-> Tell(Inactives(m), status), action |-> "REQUEST"]
    BY <1>2, <1>5 DEF Rearm, Outcome
  <2> QED BY <1>3, <1>4, <2>1 DEF Machine, States, Lists
<1>6. CASE ~hasActiveSubscribers(m)
  <2>1. Rearm(m, status) = [m |-> [state |-> "Released", list |-> Waiting(m.list)],
                            told |-> Tell(Inactives(m), status), action |-> "none"]
    BY <1>2, <1>6 DEF Rearm, Outcome
  <2>2. \A t \in Subscribers : m.list[t] # "active"
    BY <1>6 DEF hasActiveSubscribers, Actives
  <2>3. \A t \in Subscribers : Waiting(m.list)[t] = "out"
    BY <1>1, <1>3, <2>2
  <2>4. [state |-> "Released", list |-> Waiting(m.list)] \in Machine
    BY <1>3 DEF Machine, States, Lists
  <2> QED BY <1>3, <1>4, <2>1, <2>3, <2>4
<1> QED BY <1>5, <1>6

-----------------------------------------------------------------------------
(* What a handler keeps *)

\* Whoever waited and waits on is where it is looked for, or its request is on the way.
LEMMA WaitsOn ==
  ASSUME NEW S, Went(S), NEW s \in Subscribers, Waits(s), used' = used,
         conv[s] = "closed" => conv'[s] = "closed",
         conv'[s] = "opening" => conv[s] = "opening",
         s \in S => ds.list[s] # "out" \/ Head(msgs) = es(s),
         nif.list[s] = "out" /\ Head(msgs) # req(s) => nif'.list[s] = "out",
         ds.list[s] = "out" /\ Head(msgs) # es(s) => ds'.list[s] = "out",
         nif'.list[s] # "inactive",
         conv'[s] = "opening" =>
           /\ ds'.list[s] # "inactive"
           /\ ds'.state = "Acquired" => ds'.list[s] # "active"
           /\ nif.list[s] = "active" \/ Head(msgs) = req(s) => nif'.list[s] = "active"
           /\ ds.list[s] = "active" \/ Head(msgs) = es(s) => ds'.list[s] = "active" \/ s \in S
  PROVE  Waits(s)'
<1>1. /\ Head(msgs) = req(s) => Has(msgs, req(s))
      /\ Has(msgs, req(s)) => Head(msgs) = req(s) \/ Has(msgs', req(s))
      /\ Has(msgs', req(s)) => Has(msgs, req(s)) \/ s \in S
      /\ s \in S => Has(msgs', req(s))
      /\ Has(msgs, rel(s)) <=> Head(msgs) = rel(s) \/ Has(msgs', rel(s))
      /\ Has(msgs, es(s)) <=> Head(msgs) = es(s) \/ Has(msgs', es(s))
  BY DEF Went
<1>2. used.requests[s] < MaxRequests =>
        /\ ds'.list[s] = "out" /\ nif'.list[s] = "out" /\ conv'[s] = "closed"
        /\ ~Has(msgs', req(s)) /\ ~Has(msgs', rel(s)) /\ ~Has(msgs', es(s))
  BY <1>1 DEF Waits
<1>3. conv'[s] = "opening" =>
        /\ ~Has(msgs', rel(s)) /\ ds'.list[s] # "inactive"
        /\ ds'.state = "Acquired" => ds'.list[s] # "active"
        /\ nif'.list[s] = "active" \/ ds'.list[s] = "active" \/ Has(msgs', req(s)) \/ Has(msgs', es(s))
  BY <1>1 DEF Waits
<1> QED BY <1>2, <1>3, DsConstant DEF Waits

\* A handler of the ordinary interface.
NifHandles(r) ==
  /\ msgs # <<>> /\ msgs' = Tail(msgs) /\ Become(r)
  /\ UNCHANGED <<kind, conn, used, dsVars>>
  /\ Head(msgs).what \notin {"requestEs", "dsOpened", "dsClosed"}

LEMMA NifHandlerKeeps ==
  ASSUME DsInv, NEW r, NifHandles(r),
         r.m \in Machine, r.action \in {"none", "REQUEST", "RELEASE"},
         \A s \in Subscribers :
           /\ nif.list[s] = "out" => r.m.list[s] = "out" \/ Head(msgs) = req(s)
           /\ r.m.list[s] # "inactive"
           /\ Head(msgs) = req(s) => r.m.list[s] = "active"
           /\ nif.list[s] = "active" /\ r.m.list[s] # "active" =>
                Head(msgs) = rel(s) \/ (/\ <<s, "NOT_FOUND">> \notin r.told
                                        /\ \E st \in Statuses : <<s, st>> \in r.told)
  PROVE  DsInv'
<1>1. /\ DsTypeOK /\ msgs # <<>> /\ msgs' = Tail(msgs) /\ UNCHANGED <<kind, conn, used, dsVars>>
      /\ nif' = r.m /\ conv' = Told(r.told) /\ asked' = asked \o Sent(r.m, r.action)
  BY DEF DsInv, NifHandles, Become
<1>2. Went({})
  BY <1>1, NobodyFellBack
<1>3. conv \in [Subscribers -> Seen]
  BY <1>1 DEF DsTypeOK, Seen
<1>4. /\ conv' \in [Subscribers -> Seen]
      /\ \A s \in Subscribers :
           /\ conv[s] = "closed" => conv'[s] = "closed"
           /\ conv'[s] = "opening" =>
                /\ conv[s] = "opening"
                /\ <<s, "NOT_FOUND">> \notin r.told => \A st \in Statuses : <<s, st>> \notin r.told
  BY <1>1, <1>3, ToldFacts
<1>5. asked' \in Seq({"REQUEST", "RELEASE"})
  <2>1. Sent(r.m, r.action) = <<>> \/ (r.action # "none" /\ Sent(r.m, r.action) = <<r.action>>)
    BY DEF Sent
  <2>2. r.action # "none" => <<r.action>> \in Seq({"REQUEST", "RELEASE"})
    OBVIOUS
  <2>3. Sent(r.m, r.action) \in Seq({"REQUEST", "RELEASE"})
    BY <2>1, <2>2, <<>> \in Seq({"REQUEST", "RELEASE"})
  <2> QED BY <1>1, <2>3 DEF DsTypeOK
<1>6. DsTypeOK'
  BY <1>1, <1>2, <1>4, <1>5 DEF DsTypeOK, Went, Seen, dsVars, DsMsgType, MsgType
<1>7. \A s \in Subscribers : Head(msgs) # es(s) /\ Head(msgs) # opened /\ Head(msgs) # ended
  BY DEF NifHandles, es, opened, ended, Msg, Event
<1>8. Calls'
  <2>1. /\ Announced => Announced'
        /\ \A e \in {opened, ended} : Has(msgs, e) <=> Head(msgs) = e \/ Has(msgs', e)
    BY <1>2 DEF Went
  <2>3. Head(msgs) # opened /\ Head(msgs) # ended
    BY DEF NifHandles, opened, ended, Msg, Event
  <2>4. Announced' /\ (Has(msgs', opened) <=> Has(msgs, opened)) /\ (Has(msgs', ended) <=> Has(msgs, ended))
    BY <2>1, <2>3 DEF DsInv, Calls
  <2>2. UNCHANGED <<ds, call, handle>>
    BY <1>1 DEF dsVars
  <2> QED BY <2>2, <2>4, DsConstant DEF DsInv, Calls, CallFits
<1>9. ASSUME NEW s \in Subscribers PROVE Waits(s)'
  <2>1. Waits(s) /\ UNCHANGED ds
    BY <1>1 DEF DsInv, dsVars
  <2>2. ASSUME conv'[s] = "opening"
        PROVE  nif.list[s] = "active" \/ Head(msgs) = req(s) => nif'.list[s] = "active"
    <3>1. Head(msgs) # rel(s)
      BY <1>2, <1>4, <2>1, <2>2 DEF Waits, Went
    <3> QED BY <1>1, <1>4, <2>2, <3>1
  <2>3. /\ conv'[s] = "opening" => conv[s] = "opening"
        /\ conv[s] = "closed" => conv'[s] = "closed"
        /\ used' = used /\ ds' = ds /\ Head(msgs) # es(s)
        /\ nif'.list[s] # "inactive"
        /\ nif.list[s] = "out" /\ Head(msgs) # req(s) => nif'.list[s] = "out"
    BY <1>1, <1>4, <1>7, <2>1
  <2>4. conv'[s] = "opening" =>
          /\ ds'.list[s] # "inactive"
          /\ ds'.state = "Acquired" => ds'.list[s] # "active"
          /\ nif.list[s] = "active" \/ Head(msgs) = req(s) => nif'.list[s] = "active"
          /\ ds.list[s] = "active" \/ Head(msgs) = es(s) => ds'.list[s] = "active" \/ s \in {}
    BY <2>1, <2>2, <2>3 DEF Waits
  <2>5. ds.list[s] = "out" /\ Head(msgs) # es(s) => ds'.list[s] = "out"
    BY <2>3
  <2> QED BY <1>2, <2>1, <2>3, <2>4, <2>5, WaitsOn
<1> QED BY <1>1, <1>6, <1>8, <1>9 DEF DsInv, OneRequest

LEMMA IfaceSubscribes ==
  ASSUME DsInv, subscribeRsrc, UNCHANGED dsVars
  PROVE  DsInv'
<1>1. PICK s : s = Head(msgs).who
  OBVIOUS
<1>2. /\ Head(msgs).what = "request" /\ Head(msgs) = req(s) /\ s \in Subscribers
      /\ nif \in Machine /\ ~SingleSubscriber
  BY <1>1, DsTaken DEF DsInv, subscribeRsrc, Handle, DsTypeOK, SingleSubscriber
<1>3. PICK r : r = Subscribe(nif, s, TRUE)
  OBVIOUS
<1>4. NifHandles(r)
  BY <1>1, <1>2, <1>3 DEF subscribeRsrc, Handle, NifHandles
<1>5. /\ r.m \in Machine /\ r.action \in {"none", "REQUEST"}
      /\ \A t \in Subscribers : r.m.list[t] = IF t = s /\ nif.list[s] = "out" THEN "active" ELSE nif.list[t]
  <2> PICK yes \in BOOLEAN : yes = TRUE
    OBVIOUS
  <2>1. r = Subscribe(nif, s, yes)
    BY <1>3
  <2>2. nif \in Machine /\ s \in Subscribers
    BY <1>2
  <2> QED BY ONLY <2>1, <2>2, SubscribeTells, yes \in BOOLEAN
<1>6. \A t \in Subscribers : Head(msgs) = req(t) <=> t = s
  BY <1>2, DsDistinct
<1>7. \A t \in Subscribers : nif.list[t] \in {"out", "active"}
  BY <1>2, MachineParts DEF DsInv, Waits
<1> QED BY <1>4, <1>5, <1>6, <1>7, NifHandlerKeeps

LEMMA IfaceUnsubscribes ==
  ASSUME DsInv, unsubscribeRsrc, UNCHANGED dsVars
  PROVE  DsInv'
<1>1. PICK s : s = Head(msgs).who
  OBVIOUS
<1>2. /\ Head(msgs).what = "release" /\ Head(msgs) = rel(s) /\ s \in Subscribers
      /\ nif \in Machine /\ ~WaitForClose
  BY <1>1, DsTaken DEF DsInv, unsubscribeRsrc, Handle, DsTypeOK, WaitForClose
<1>3. PICK no \in BOOLEAN : no = WaitForClose
  BY DEF WaitForClose
<1>4. PICK r : r = IF nif.list[s] = "out" THEN Outcome(nif, Tell({s}, "NOT_FOUND"), "none")
                                          ELSE Unsubscribe(nif, s, no)
  OBVIOUS
<1>5. NifHandles(r)
  BY <1>1, <1>2, <1>3, <1>4 DEF unsubscribeRsrc, Handle, NifHandles
<1>6. \A t \in Subscribers : nif.list[t] \in {"out", "active"} /\ (Head(msgs) = rel(t) <=> t = s)
                             /\ Head(msgs) # req(t)
  BY <1>2, MachineParts, DsDistinct DEF DsInv, Waits
<1>7. /\ r.m \in Machine /\ r.action \in {"none", "RELEASE"}
      /\ \A t \in Subscribers : IF t # s THEN r.m.list[t] = nif.list[t]
                                ELSE r.m.list[t] \in {nif.list[t], "out"}
  <2>1. CASE nif.list[s] = "out"
    BY <1>2, <1>4, <2>1 DEF Outcome
  <2>2. CASE nif.list[s] # "out"
    BY <1>2, <1>3, <1>4, <2>2, UnsubscribeTells
  <2> QED BY <2>1, <2>2
<1> QED BY <1>5, <1>6, <1>7, NifHandlerKeeps

LEMMA IfaceHears ==
  ASSUME DsInv, UNCHANGED dsVars, LocEngAtlOpenSuccess \/ LocEngAtlClosed \/ LocEngAtlOpenFailed
  PROVE  DsInv'
<1>1. nif \in Machine /\ \A t \in Subscribers : nif.list[t] \in {"out", "active"}
  BY MachineParts DEF DsInv, DsTypeOK, Waits
<1>2. \A t \in Subscribers : Head(msgs) # req(t)
  BY DEF LocEngAtlOpenSuccess, LocEngAtlClosed, LocEngAtlOpenFailed, Handle, req, Msg
<1> DEFINE Keeps(r) ==
             /\ NifHandles(r) /\ r.m \in Machine /\ r.action \in {"none", "REQUEST"}
             /\ \A t \in Subscribers :
                  \/ r.m.list[t] = nif.list[t]
                  \/ /\ nif.list[t] # "out" /\ r.m.list[t] = "out" /\ <<t, "NOT_FOUND">> \notin r.told
                     /\ \E st \in Statuses : <<t, st>> \in r.told
<1>3. \E r : Keeps(r)
  <2>1. CASE LocEngAtlOpenSuccess
    <3>1. PICK r : r = Granted(nif)
      OBVIOUS
    <3>2. NifHandles(r)
      BY <2>1, <3>1 DEF LocEngAtlOpenSuccess, Handle, NifHandles
    <3>3. r.m \in Machine /\ r.action = "none" /\ r.m.list = nif.list
      BY <1>1, <3>1, GrantedTells
    <3> QED BY <3>2, <3>3
  <2>2. ASSUME NEW status \in {"RELEASED", "DENIED"}, Handle(status),
               NEW st \in States, NEW e \in States,
               Become(IF nif.state = st THEN Dismiss(nif, status)
                      ELSE IF nif.state = e THEN Rearm(nif, status) ELSE Outcome(nif, {}, "none"))
        PROVE  \E r : Keeps(r)
    <3>1. PICK r : r = IF nif.state = st THEN Dismiss(nif, status)
                       ELSE IF nif.state = e THEN Rearm(nif, status) ELSE Outcome(nif, {}, "none")
      OBVIOUS
    <3>2. NifHandles(r)
      BY <2>2, <3>1 DEF Handle, NifHandles
    <3>3. CASE nif.state = st
      <4>1. /\ r.m \in Machine /\ \A t \in Subscribers : r.m.list[t] = "out"
            /\ \A t, x : <<t, x>> \in r.told <=> t \in Subscribers /\ nif.list[t] # "out" /\ x = status
            /\ r.action = "none"
        BY <1>1, <3>1, <3>3, DismissTells
      <4> QED BY <2>2, <3>2, <4>1 DEF Statuses
    <3>4. CASE nif.state # st /\ nif.state = e
      <4>1. /\ r.m \in Machine /\ r.action \in {"none", "REQUEST"}
            /\ \A t \in Subscribers : r.m.list[t] = IF nif.list[t] = "inactive" THEN "out" ELSE nif.list[t]
        BY <1>1, <3>1, <3>4, RearmTells
      <4> QED BY <1>1, <3>2, <4>1
    <3>5. CASE nif.state # st /\ nif.state # e
      <4>1. r.m = nif /\ r.action = "none"
        BY <3>1, <3>5 DEF Outcome
      <4> QED BY <1>1, <3>2, <4>1
    <3> QED BY <3>3, <3>4, <3>5
  <2>3. CASE LocEngAtlClosed
    BY <2>2, <2>3 DEF LocEngAtlClosed, Closed, States
  <2>4. CASE LocEngAtlOpenFailed
    BY <2>2, <2>4 DEF LocEngAtlOpenFailed, Denied, States
  <2> QED BY <2>1, <2>3, <2>4
<1>4. PICK r : Keeps(r)
  BY <1>3
<1> QED BY <1>1, <1>2, <1>4, NifHandlerKeeps

-----------------------------------------------------------------------------
(* The handlers of the emergency machine *)

Heeded(told) == {t \in told : t[2] \in {"GRANTED", "UNSUBSCRIBE"}}

\* The types of what the data call changes.
CallTypes ==
  /\ call \in {"none", "starting", "up", "stopping"}
  /\ handle \in {"null", "dead", "ready"}
  /\ retries \in 0 .. MaxRetries
  /\ timers \in Nat
  /\ dsUsed \in [faults : 0 .. MaxFaults, drops : 0 .. MaxDrops]

\* A handler that makes the machine m, tells told, and has those of S fall back.
DsHandles(m, told, S) ==
  /\ msgs # <<>> /\ Went(S) /\ S \in SUBSET Subscribers
  /\ conv' = Told(Heeded(told)) /\ DsMachine(m)
  /\ CallTypes'
  /\ UNCHANGED <<kind, nif, asked, conn, used>>
  /\ \A s \in Subscribers : Head(msgs) # req(s)

LEMMA DsHandlerKeeps ==
  ASSUME DsInv, NEW m \in Machine, NEW told, NEW S, DsHandles(m, told, S),
         CallFits(m.state, call', handle', Has(msgs', opened), Has(msgs', ended)),
         \A s \in Subscribers :
           /\ s \in S => ds.list[s] # "out" \/ Head(msgs) = es(s)
           /\ ds.list[s] = "out" /\ Head(msgs) # es(s) => m.list[s] = "out"
           /\ conv[s] = "opening" /\ <<s, "GRANTED">> \notin told /\ <<s, "UNSUBSCRIBE">> \notin told =>
                /\ m.list[s] # "inactive"
                /\ m.state = "Acquired" => m.list[s] # "active"
                /\ ds.list[s] = "active" \/ Head(msgs) = es(s) => m.list[s] = "active" \/ s \in S
  PROVE  DsInv'
<1>1. /\ DsTypeOK /\ msgs # <<>> /\ Went(S) /\ CallTypes'
      /\ UNCHANGED <<kind, nif, asked, conn, used>>
      /\ ds' = m /\ order' = Lined(m) /\ conv' = Told(Heeded(told))
  BY DEF DsInv, DsHandles, DsMachine
<1>2. conv \in [Subscribers -> Seen]
  BY <1>1 DEF DsTypeOK, Seen
<1>3. \A s, st : <<s, st>> \in Heeded(told) <=> <<s, st>> \in told /\ st \in {"GRANTED", "UNSUBSCRIBE"}
  BY DEF Heeded
<1>4. /\ conv' \in [Subscribers -> Seen]
      /\ \A s \in Subscribers :
           /\ conv[s] = "closed" => conv'[s] = "closed"
           /\ conv'[s] = "opening" =>
                /\ conv[s] = "opening"
                /\ <<s, "GRANTED">> \notin told /\ <<s, "UNSUBSCRIBE">> \notin told
  <2>1. /\ conv' \in [Subscribers -> Seen]
        /\ \A s \in Subscribers :
             /\ conv[s] = "closed" => conv'[s] = "closed"
             /\ conv'[s] = "opening" =>
                  /\ conv[s] = "opening"
                  /\ <<s, "NOT_FOUND">> \notin Heeded(told)
                       => \A st \in Statuses : <<s, st>> \notin Heeded(told)
    BY <1>1, <1>2, ToldFacts
  <2> QED BY <1>3, <2>1 DEF Statuses
<1>5. DsTypeOK'
  <2>1. msgs' \in Seq(DsMsgType)
    BY <1>1 DEF Went
  <2>2. order' \subseteq Subscribers \X Subscribers
    BY <1>1 DEF Lined
  <2> QED BY <1>1, <1>4, <2>1, <2>2 DEF DsTypeOK, CallTypes, Seen, DsMsgType, MsgType
<1>6. Calls'
  <2>1. Announced'
    BY <1>1 DEF DsInv, Calls, Went
  <2> QED BY <1>1, <2>1, DsConstant DEF Calls
<1>7. ASSUME NEW s \in Subscribers PROVE Waits(s)'
  <2>1. /\ Waits(s) /\ used' = used /\ nif' = nif /\ nif.list[s] # "inactive" /\ Head(msgs) # req(s)
        /\ s \in S => ds.list[s] # "out" \/ Head(msgs) = es(s)
        /\ ds.list[s] = "out" /\ Head(msgs) # es(s) => ds'.list[s] = "out"
    BY <1>1 DEF DsInv, DsHandles, Waits
  <2>2. conv'[s] = "opening" =>
          /\ ds'.list[s] # "inactive"
          /\ ds'.state = "Acquired" => ds'.list[s] # "active"
          /\ nif.list[s] = "active" \/ Head(msgs) = req(s) => nif'.list[s] = "active"
          /\ ds.list[s] = "active" \/ Head(msgs) = es(s) => ds'.list[s] = "active" \/ s \in S
    BY <1>1, <1>4, <2>1
  <2> QED BY <1>1, <1>4, <2>1, <2>2, WaitsOn
<1> QED BY <1>1, <1>5, <1>6, <1>7 DEF DsInv, OneRequest

LEMMA Informs ==
  ASSUME DsInv, msgs # <<>>, NEW told, informStatus(told), UNCHANGED <<timers, dsUsed>>,
         call' \in {"none", "starting", "up", "stopping"}
  PROVE  /\ Went({s \in Subscribers : <<s, "DENIED">> \in told})
         /\ conv' = Told(Heeded(told)) /\ handle' = closeDataCall(told) /\ CallTypes'
<1>1. DsTypeOK
  BY DEF DsInv
<1>2. PICK S \in SUBSET Subscribers : S = {s \in Subscribers : <<s, "DENIED">> \in told}
  OBVIOUS
<1>3. Went(S)
  BY <1>1, <1>2, FellBack DEF informStatus
<1>4. handle' \in {"null", handle} /\ handle' = closeDataCall(told) /\ conv' = Told(Heeded(told))
  BY DEF informStatus, closeDataCall, Heeded
<1>5. retries' \in {0, retries}
  BY DEF informStatus
<1>6. CallTypes'
  BY <1>1, <1>4, <1>5, DsBoundsAssumption DEF DsTypeOK, CallTypes
<1> QED BY <1>2, <1>3, <1>4, <1>6

LEMMA Starts ==
  ASSUME DsInv, msgs # <<>>, NEW m \in Machine, NEW told, NEW result \in StartResults,
         startCall(m, told, result)
  PROVE  \E S \in SUBSET Subscribers :
           /\ Went(S) /\ \A s \in S : m.list[s] = "active"
           /\ conv' = Told(Heeded(told)) /\ CallTypes'
           /\ IF result = "success" THEN call' = "starting" /\ handle' = "ready" ELSE call' = call
<1>1. DsTypeOK
  BY DEF DsInv
<1> DEFINE tryLater == result = "busy" /\ retries < MaxRetries
           fallsBack == result # "success" /\ ~tryLater
<1>2. PICK S : S = IF fallsBack THEN FirstActive(Lined(m), m) ELSE {}
  OBVIOUS
<1>3. /\ openAndStartDataCall(result, closeDataCall(told))
      /\ conv' = Told(Heeded(told)) /\ Fallback(S, Lined(m))
      /\ retries' = IF tryLater THEN retries + 1 ELSE IF fallsBack THEN 0 ELSE retries
      /\ timers' = IF tryLater THEN timers + 1 ELSE timers
  BY <1>2 DEF startCall, dataCallCb, Heeded
<1>4. S \in SUBSET Subscribers /\ \A s \in S : m.list[s] = "active"
  BY <1>2 DEF FirstActive, Actives
<1>5. Went(S)
  BY <1>1, <1>3, <1>4, FellBack
<1>6. /\ result # "success" => dsUsed.faults < MaxFaults
      /\ dsUsed' = IF result = "success" THEN dsUsed ELSE [dsUsed EXCEPT !.faults = @ + 1]
      /\ call' = IF result = "success" THEN "starting" ELSE call
      /\ handle' \in {"null", "dead", "ready", handle}
      /\ result = "success" => handle' = "ready"
  BY <1>3 DEF openAndStartDataCall, closeDataCall
<1>7. dsUsed' \in [faults : 0 .. MaxFaults, drops : 0 .. MaxDrops]
  BY <1>1, <1>6, DsBoundsAssumption DEF DsTypeOK
<1>8. retries' \in 0 .. MaxRetries /\ timers' \in Nat
  BY <1>1, <1>3, DsBoundsAssumption DEF DsTypeOK
<1>9. CallTypes'
  BY <1>1, <1>6, <1>7, <1>8 DEF DsTypeOK, CallTypes
<1> QED BY <1>3, <1>4, <1>5, <1>6, <1>9

\* Whether the call was reported is not changed by another message.
LEMMA OtherTaken ==
  ASSUME NEW S, Went(S), Head(msgs) # opened, Head(msgs) # ended
  PROVE  (Has(msgs', opened) <=> Has(msgs, opened)) /\ (Has(msgs', ended) <=> Has(msgs, ended))
BY DEF Went

LEMMA RequestSuplEsKeeps ==
  ASSUME DsInv, LocEngRequestSuplEs
  PROVE  DsInv'
<1>1. PICK s : s = Head(msgs).who
  OBVIOUS
<1>2. /\ msgs # <<>> /\ s \in Subscribers /\ Head(msgs) = es(s)
      /\ UNCHANGED <<kind, nif, asked, conn, used>> /\ ds \in Machine
  BY <1>1, DsTaken DEF DsInv, LocEngRequestSuplEs, Took, DsTypeOK
<1>3. /\ \A t \in Subscribers : (Head(msgs) = es(t) <=> t = s) /\ Head(msgs) # req(t)
      /\ Head(msgs) # opened /\ Head(msgs) # ended
  BY <1>2, DsDistinct
<1>4. CallFits(ds.state, call, handle, Has(msgs, opened), Has(msgs, ended))
  BY DEF DsInv, Calls
<1>5. \A t \in Subscribers :
        /\ ds.list[t] \in {"out", "active", "inactive"}
        /\ conv[t] = "opening" => /\ ds.list[t] # "inactive"
                                  /\ ds.state = "Acquired" => ds.list[t] # "active"
  BY <1>2, MachineParts DEF DsInv, Waits
<1>6. CASE ds.state = "Released"
  <2>a. \E result \in StartResults :
          LET q == Subscribe(ds, s, result = "success")
          IN  DsMachine(q.m) /\ startCall(q.m, q.told, result)
    BY <1>1, <1>6 DEF LocEngRequestSuplEs
  <2>b. PICK result \in StartResults :
          LET q == Subscribe(ds, s, result = "success")
          IN  DsMachine(q.m) /\ startCall(q.m, q.told, result)
    BY <2>a
  <2>c. PICK started \in BOOLEAN : started = (result = "success")
    OBVIOUS
  <2>d. PICK r : r = Subscribe(ds, s, started)
    OBVIOUS
  <2>1. DsMachine(r.m) /\ startCall(r.m, r.told, result)
    BY <2>b, <2>c, <2>d
  <2>2. /\ r.m \in Machine
        /\ \A t \in Subscribers : r.m.list[t] = IF t = s /\ ds.list[s] = "out" THEN "active" ELSE ds.list[t]
        /\ r.m.state = IF ds.state = "Released" THEN IF started THEN "Pending" ELSE "Released"
                                                ELSE ds.state
    <3>1. ds \in Machine /\ s \in Subscribers /\ started \in BOOLEAN
      BY <1>2
    <3> QED BY ONLY <2>d, <3>1, SubscribeTells
  <2>3. PICK S \in SUBSET Subscribers :
          /\ Went(S) /\ \A t \in S : r.m.list[t] = "active"
          /\ conv' = Told(Heeded(r.told)) /\ CallTypes'
          /\ IF result = "success" THEN call' = "starting" /\ handle' = "ready" ELSE call' = call
    BY <1>2, <2>1, <2>2, Starts
  <2>4. DsHandles(r.m, r.told, S)
    BY <1>2, <1>3, <2>1, <2>3 DEF DsHandles
  <2>5. CallFits(r.m.state, call', handle', Has(msgs', opened), Has(msgs', ended))
    <3>1. call = "none" /\ ~Has(msgs', opened) /\ ~Has(msgs', ended)
      BY <1>3, <1>4, <1>6, <2>3, OtherTaken DEF CallFits, DsInv, DsTypeOK
    <3>2. CASE result = "success"
      BY <1>6, <2>c, <2>2, <2>3, <3>1, <3>2 DEF CallFits
    <3>3. CASE result # "success"
      BY <1>6, <2>c, <2>2, <2>3, <3>1, <3>3 DEF CallFits
    <3> QED BY <3>2, <3>3
  <2>6. r.m.state # "Acquired"
    BY <1>6, <2>2
  <2> QED BY <1>3, <1>5, <2>2, <2>3, <2>4, <2>5, <2>6, DsHandlerKeeps
<1>7. CASE ds.state # "Released"
  <2>a. LET q == Subscribe(ds, s, TRUE)
        IN  DsMachine(q.m) /\ informStatus(q.told) /\ UNCHANGED <<call, timers, dsUsed>>
    BY <1>1, <1>7 DEF LocEngRequestSuplEs
  <2>c. PICK yes \in BOOLEAN : yes = TRUE
    OBVIOUS
  <2>d. PICK r : r = Subscribe(ds, s, yes)
    OBVIOUS
  <2>1. DsMachine(r.m) /\ informStatus(r.told) /\ UNCHANGED <<call, timers, dsUsed>>
    BY <2>a, <2>c, <2>d
  <2>2. /\ r.m \in Machine
        /\ \A t \in Subscribers : r.m.list[t] = IF t = s /\ ds.list[s] = "out" THEN "active" ELSE ds.list[t]
        /\ r.m.state = IF ds.state = "Released" THEN IF yes THEN "Pending" ELSE "Released"
                                                ELSE ds.state
        /\ \A t, st : <<t, st>> \in r.told <=> ds.state = "Acquired" /\ t = s /\ st = "GRANTED"
    <3>1. ds \in Machine /\ s \in Subscribers /\ yes \in BOOLEAN
      BY <1>2
    <3> QED BY ONLY <2>d, <3>1, SubscribeTells
  <2>3. /\ Went({t \in Subscribers : <<t, "DENIED">> \in r.told})
        /\ conv' = Told(Heeded(r.told)) /\ handle' = closeDataCall(r.told) /\ CallTypes'
    <3>1. call' \in {"none", "starting", "up", "stopping"} /\ UNCHANGED <<timers, dsUsed>>
      BY <2>1 DEF DsInv, DsTypeOK
    <3> QED BY <1>2, <2>1, <3>1, Informs
  <2>4. Went({}) /\ handle' = handle
    <3>1. {t \in Subscribers : <<t, "DENIED">> \in r.told} = {}
      BY <2>2
    <3>2. closeDataCall(r.told) = handle
      <4>1. \A t, st : <<t, st>> \in r.told => st = "GRANTED"
        BY <2>2, Zenon
      <4>2. \A t : <<t, "RELEASED">> \notin r.told
        BY <4>1
      <4> QED BY <4>2, Zenon DEF closeDataCall
    <3> QED BY <2>3, <3>1, <3>2
  <2>5. DsHandles(r.m, r.told, {})
    BY <1>2, <1>3, <2>1, <2>3, <2>4 DEF DsHandles
  <2>6. CallFits(r.m.state, call', handle', Has(msgs', opened), Has(msgs', ended))
    BY <1>3, <1>4, <1>7, <2>1, <2>2, <2>4, OtherTaken DEF CallFits
  <2> QED BY <1>3, <1>5, <1>7, <2>2, <2>5, <2>6, DsHandlerKeeps
<1> QED BY <1>6, <1>7

LEMMA SuplEsOpenedKeeps ==
  ASSUME DsInv, LocEngSuplEsOpened
  PROVE  DsInv'
<1>1. PICK r : r = Granted(ds)
  OBVIOUS
<1>2. /\ msgs # <<>> /\ Head(msgs) = opened /\ ds \in Machine
      /\ DsMachine(r.m) /\ informStatus(r.told)
      /\ UNCHANGED <<kind, nif, asked, conn, used, call, timers, dsUsed>>
  BY <1>1, DsTaken DEF DsInv, LocEngSuplEsOpened, Took, DsTypeOK
<1>3. \A t \in Subscribers : Head(msgs) # es(t) /\ Head(msgs) # req(t)
  BY <1>2, DsDistinct
<1>4. /\ CallFits(ds.state, call, handle, Has(msgs, opened), Has(msgs, ended)) /\ Announced
      /\ call \in {"none", "starting", "up", "stopping"} /\ ds.state \in States
  BY <1>2, MachineParts DEF DsInv, Calls, DsTypeOK
<1>5. /\ r.m \in Machine /\ r.m.list = ds.list
      /\ r.m.state = IF ds.state = "Pending" THEN "Acquired" ELSE ds.state
      /\ \A t, st : <<t, st>> \in r.told
                      <=> ds.state = "Pending" /\ t \in Actives(ds) /\ st = "GRANTED"
  BY <1>1, <1>2, GrantedTells
<1>6. /\ Went({t \in Subscribers : <<t, "DENIED">> \in r.told})
      /\ conv' = Told(Heeded(r.told)) /\ handle' = closeDataCall(r.told) /\ CallTypes'
  <2>1. call' \in {"none", "starting", "up", "stopping"} /\ UNCHANGED <<timers, dsUsed>>
    BY <1>2 DEF DsInv, DsTypeOK
  <2> QED BY <1>2, <2>1, Informs
<1>7. Went({}) /\ handle' = handle
  <2>1. {t \in Subscribers : <<t, "DENIED">> \in r.told} = {}
    BY <1>5
  <2>2. \A t : <<t, "RELEASED">> \notin r.told
    BY <1>5
  <2>3. closeDataCall(r.told) = handle
    BY <2>2, Zenon DEF closeDataCall
  <2> QED BY <1>6, <2>1, <2>3
<1>8. DsHandles(r.m, r.told, {})
  BY <1>2, <1>3, <1>6, <1>7 DEF DsHandles
<1>9. CallFits(r.m.state, call', handle', Has(msgs', opened), Has(msgs', ended))
  <2>1. /\ Has(msgs, opened) /\ ~Has(msgs', opened) /\ (Has(msgs', ended) <=> Has(msgs, ended))
    BY <1>2, <1>4, <1>7, DsDistinct DEF Went
  <2> QED BY <1>2, <1>4, <1>5, <1>7, <2>1 DEF CallFits, States
<1>10. \A t \in Subscribers :
         /\ ds.list[t] = "active" /\ ds.state = "Pending" => <<t, "GRANTED">> \in r.told
         /\ conv[t] = "opening" => /\ ds.list[t] # "inactive"
                                   /\ ds.state = "Acquired" => ds.list[t] # "active"
  BY <1>5 DEF DsInv, Waits, Actives
<1> QED BY <1>3, <1>5, <1>8, <1>9, <1>10, DsHandlerKeeps

LEMMA SuplEsClosedKeeps ==
  ASSUME DsInv, LocEngSuplEsClosed
  PROVE  DsInv'
<1>1. /\ msgs # <<>> /\ Head(msgs) = ended /\ ds \in Machine
      /\ UNCHANGED <<kind, nif, asked, conn, used>>
  BY DsTaken DEF DsInv, LocEngSuplEsClosed, Took, DsTypeOK
<1>2. \A t \in Subscribers : Head(msgs) # es(t) /\ Head(msgs) # req(t)
  BY <1>1, DsDistinct
<1>3. /\ CallFits(ds.state, call, handle, Has(msgs, opened), Has(msgs, ended)) /\ Announced
      /\ call \in {"none", "starting", "up", "stopping"} /\ ds.state \in States
  BY <1>1, MachineParts DEF DsInv, Calls, DsTypeOK
<1>4. \A S : Went(S) => Has(msgs, ended) /\ ~Has(msgs', ended) /\ ~Has(msgs', opened)
  BY <1>1, <1>3 DEF Went
<1>5. Has(msgs, ended)
  BY <1>1, Leaving DEF DsInv, DsTypeOK
<1>6. call = "none" /\ ds.state \in {"Pending", "Acquired", "Releasing"}
  BY <1>3, <1>5 DEF CallFits, States
<1>7. \A t \in Subscribers : /\ ds.list[t] \in {"out", "active", "inactive"}
                             /\ conv[t] = "opening" =>
                                  /\ ds.list[t] # "inactive"
                                  /\ ds.state = "Acquired" => ds.list[t] # "active"
  BY <1>1, MachineParts DEF DsInv, Waits
\* Who is told of it, and what becomes of the machine.
<1>8. PICK r : /\ r = IF Closed(ds).m.state # ds.state THEN Closed(ds) ELSE Denied(ds)
               /\ DsMachine(r.m)
               /\ IF r.action = "REQUEST"
                  THEN \E result \in StartResults : startCall(r.m, r.told, result)
                  ELSE informStatus(r.told) /\ UNCHANGED <<call, timers, dsUsed>>
  BY DEF LocEngSuplEsClosed
<1>9. r = IF ds.state = "Acquired" THEN Dismiss(ds, "RELEASED")
          ELSE IF ds.state = "Pending" THEN Dismiss(ds, "DENIED") ELSE Rearm(ds, "RELEASED")
  <2>1. CASE ds.state = "Acquired"
    <3>1. Closed(ds) = Dismiss(ds, "RELEASED")
      BY <2>1 DEF Closed
    <3> QED BY <1>1, <1>8, <2>1, <3>1, DismissTells
  <2>2. CASE ds.state = "Pending"
    <3>1. Closed(ds).m.state = ds.state /\ Denied(ds) = Dismiss(ds, "DENIED")
      BY <2>2 DEF Closed, Denied, Outcome
    <3> QED BY <1>8, <2>2, <3>1
  <2>3. CASE ds.state = "Releasing"
    <3>1. Closed(ds) = Rearm(ds, "RELEASED")
      BY <2>3 DEF Closed
    <3>2. Rearm(ds, "RELEASED").m.state # "Releasing"
      BY <1>1, RearmTells
    <3> QED BY <1>8, <2>3, <3>1, <3>2
  <2> QED BY <1>6, <2>1, <2>2, <2>3
<1>10. CASE ds.state \in {"Acquired", "Pending"}
  <2> PICK status : status = IF ds.state = "Acquired" THEN "RELEASED" ELSE "DENIED"
    OBVIOUS
  <2>1. r = Dismiss(ds, status)
    BY <1>9, <1>10
  <2>2. /\ r.m \in Machine /\ r.m.state = "Released" /\ \A t \in Subscribers : r.m.list[t] = "out"
        /\ \A t, st : <<t, st>> \in r.told <=> t \in Subscribers /\ ds.list[t] # "out" /\ st = status
        /\ r.action = "none"
    BY <1>1, <2>1, DismissTells
  <2>3. informStatus(r.told) /\ UNCHANGED <<call, timers, dsUsed>>
    BY <1>8, <2>2
  <2>4. PICK S : S = {t \in Subscribers : <<t, "DENIED">> \in r.told}
    OBVIOUS
  <2>5. Went(S) /\ conv' = Told(Heeded(r.told)) /\ CallTypes'
    <3>1. call' \in {"none", "starting", "up", "stopping"} /\ UNCHANGED <<timers, dsUsed>>
      BY <1>3, <2>3
    <3> QED BY <1>1, <2>3, <2>4, <3>1, Informs
  <2>6. DsHandles(r.m, r.told, S)
    BY <1>1, <1>2, <1>8, <2>4, <2>5 DEF DsHandles
  <2>7. CallFits(r.m.state, call', handle', Has(msgs', opened), Has(msgs', ended))
    <3>1. call' = "none" /\ ~Has(msgs', opened) /\ ~Has(msgs', ended)
      BY <1>4, <1>6, <2>3, <2>5
    <3> QED BY <2>2, <3>1 DEF CallFits
  <2>8. \A t \in Subscribers : /\ t \in S <=> ds.list[t] # "out" /\ ds.state = "Pending"
                               /\ <<t, "GRANTED">> \notin r.told
    <3>1. /\ status \in {"RELEASED", "DENIED"}
          /\ status = "DENIED" <=> ds.state = "Pending"
      BY <1>10
    <3>2. \A t \in Subscribers : t \in S <=> <<t, "DENIED">> \in r.told
      BY <2>4
    <3>3. \A t, st : <<t, st>> \in r.told <=> t \in Subscribers /\ ds.list[t] # "out" /\ st = status
      BY <2>2, Zenon
    <3>4. \A t \in Subscribers :
            /\ <<t, "DENIED">> \in r.told <=> ds.list[t] # "out" /\ status = "DENIED"
            /\ <<t, "GRANTED">> \in r.told => status = "GRANTED"
      BY <3>3, Zenon
    <3>5. status # "GRANTED"
      BY <3>1
    <3> QED BY <3>1, <3>2, <3>4, <3>5, Zenon
  <2>9. ASSUME NEW t \in Subscribers
        PROVE  /\ t \in S => ds.list[t] # "out"
               /\ r.m.list[t] = "out" /\ r.m.state # "Acquired"
               /\ conv[t] = "opening" /\ ds.list[t] = "active" => t \in S
    BY <1>7, <1>10, <2>2, <2>8
  <2> QED BY <1>2, <2>2, <2>6, <2>7, <2>9, DsHandlerKeeps
<1>11. CASE ds.state = "Releasing"
  <2>1. r = Rearm(ds, "RELEASED")
    BY <1>9, <1>11
  <2>2. /\ r.m \in Machine
        /\ \A t \in Subscribers : r.m.list[t] = IF ds.list[t] = "inactive" THEN "out" ELSE ds.list[t]
        /\ \A t, st : <<t, st>> \in r.told <=> t \in Subscribers /\ ds.list[t] = "inactive" /\ st = "RELEASED"
        /\ \/ r.action = "REQUEST" /\ r.m.state = "Pending"
           \/ r.action = "none" /\ r.m.state = "Released" /\ \A t \in Subscribers : r.m.list[t] = "out"
    BY <1>1, <2>1, RearmTells
  <2>3. CASE r.action = "REQUEST"
    <3>1. PICK result \in StartResults : startCall(r.m, r.told, result)
      BY <1>8, <2>3
    <3>2. PICK S \in SUBSET Subscribers :
            /\ Went(S) /\ \A t \in S : r.m.list[t] = "active"
            /\ conv' = Told(Heeded(r.told)) /\ CallTypes'
            /\ IF result = "success" THEN call' = "starting" /\ handle' = "ready" ELSE call' = call
      BY <1>1, <2>2, <3>1, Starts
    <3>3. DsHandles(r.m, r.told, S)
      BY <1>1, <1>2, <1>8, <3>2 DEF DsHandles
    <3>4. r.m.state = "Pending" /\ \A t \in S : ds.list[t] = "active"
      BY <2>2, <2>3, <3>2
    <3>5. CallFits(r.m.state, call', handle', Has(msgs', opened), Has(msgs', ended))
      <4>1. ~Has(msgs', opened) /\ ~Has(msgs', ended)
        BY <1>4, <3>2
      <4>2. CASE result = "success"
        BY <3>2, <3>4, <4>1, <4>2 DEF CallFits
      <4>3. CASE result # "success"
        BY <1>6, <3>2, <3>4, <4>1, <4>3 DEF CallFits
      <4> QED BY <4>2, <4>3
    <3>6. ASSUME NEW t \in Subscribers
          PROVE  /\ t \in S => ds.list[t] # "out"
                 /\ ds.list[t] = "out" => r.m.list[t] = "out"
                 /\ r.m.list[t] # "inactive"
                 /\ ds.list[t] = "active" => r.m.list[t] = "active"
      BY <1>7, <2>2, <3>4
    <3> QED BY <1>2, <2>2, <3>3, <3>4, <3>5, <3>6, DsHandlerKeeps
  <2>4. CASE r.action # "REQUEST"
    <3>1. informStatus(r.told) /\ UNCHANGED <<call, timers, dsUsed>>
      BY <1>8, <2>4
    <3>2. /\ Went({t \in Subscribers : <<t, "DENIED">> \in r.told})
          /\ conv' = Told(Heeded(r.told)) /\ CallTypes'
      <4>1. call' \in {"none", "starting", "up", "stopping"} /\ UNCHANGED <<timers, dsUsed>>
        BY <1>3, <3>1
      <4> QED BY <1>1, <3>1, <4>1, Informs
    <3>3. {t \in Subscribers : <<t, "DENIED">> \in r.told} = {}
      BY <2>2
    <3>4. Went({})
      BY <3>2, <3>3
    <3>5. DsHandles(r.m, r.told, {})
      BY <1>1, <1>2, <1>8, <3>2, <3>4 DEF DsHandles
    <3>6. r.m.state = "Released" /\ \A t \in Subscribers : r.m.list[t] = "out" /\ ds.list[t] # "active"
      BY <2>2, <2>4
    <3>7. CallFits(r.m.state, call', handle', Has(msgs', opened), Has(msgs', ended))
      <4>1. call' = "none" /\ ~Has(msgs', opened) /\ ~Has(msgs', ended)
        BY <1>4, <1>6, <3>1, <3>4
      <4> QED BY <3>6, <4>1 DEF CallFits
    <3> QED BY <1>2, <2>2, <3>5, <3>6, <3>7, DsHandlerKeeps
  <2> QED BY <2>3, <2>4
<1> QED BY <1>6, <1>10, <1>11

LEMMA ReleaseATLKeeps ==
  ASSUME DsInv, LocEngReleaseATL
  PROVE  DsInv'
<1>1. PICK s : s = Head(msgs).who
  OBVIOUS
<1>2. /\ msgs # <<>> /\ s \in Subscribers /\ Head(msgs) = rel(s) /\ ds \in Machine
  BY <1>1, DsTaken DEF DsInv, LocEngReleaseATL, Took, DsTypeOK
<1>3. CASE nif.list[s] # "out" \/ ds.list[s] = "out"
  BY <1>1, <1>3, IfaceUnsubscribes DEF LocEngReleaseATL
<1>4. CASE ~(nif.list[s] # "out" \/ ds.list[s] = "out")
  <2>1. PICK yes \in BOOLEAN : yes = TRUE
    OBVIOUS
  <2>2. PICK r : r = Unsubscribe(ds, s, yes)
    OBVIOUS
  <2>3. PICK told : told = r.told \cup Tell({s}, "UNSUBSCRIBE")
    OBVIOUS
  <2>4. LET q == Unsubscribe(ds, s, TRUE)
        IN  /\ DsMachine(q.m)
            /\ informStatus(q.told \cup Tell({s}, "UNSUBSCRIBE"))
            /\ IF q.action = "RELEASE" THEN stopDataCall ELSE UNCHANGED <<call, dsUsed>>
            /\ UNCHANGED <<kind, nif, asked, conn, used, timers>>
    BY <1>1, <1>4 DEF LocEngReleaseATL, dataCallCb
  <2>5. /\ DsMachine(r.m) /\ informStatus(told)
        /\ IF r.action = "RELEASE" THEN stopDataCall ELSE UNCHANGED <<call, dsUsed>>
        /\ UNCHANGED <<kind, nif, asked, conn, used, timers>>
    BY <2>1, <2>2, <2>3, <2>4
  <2>6. /\ r.m \in Machine
        /\ \A t \in Subscribers : t # s => r.m.list[t] = ds.list[t]
        /\ \A t, st : <<t, st>> \in r.told
                        <=> (ds.state = "Released" \/ ~yes) /\ t = s /\ st = "UNSUBSCRIBE"
        /\ yes => IF r.action = "RELEASE" THEN r.m.state = "Releasing" /\ ds.state # "Released"
                                          ELSE r.m.state = ds.state
    <3>1. ds \in Machine /\ s \in Subscribers /\ yes \in BOOLEAN
      BY <1>2
    <3> QED BY ONLY <2>2, <3>1, UnsubscribeTells
  <2>7. \A t, st : <<t, st>> \in told <=> t = s /\ st = "UNSUBSCRIBE"
    <3>1. \A t, st : <<t, st>> \in r.told => t = s /\ st = "UNSUBSCRIBE"
      BY <2>6, Zenon
    <3>2. \A t, st : <<t, st>> \in Tell({s}, "UNSUBSCRIBE") <=> t = s /\ st = "UNSUBSCRIBE"
      BY DEF Tell
    <3> QED BY <2>3, <3>1, <3>2
  <2>8. /\ call' \in {"none", "starting", "up", "stopping"} /\ dsUsed' = dsUsed
        /\ r.action # "RELEASE" => call' = call
        /\ r.action = "RELEASE" =>
             call' = IF handle = "ready" /\ call \in {"starting", "up"} THEN "stopping" ELSE call
    BY <2>5 DEF stopDataCall, DsInv, DsTypeOK
  <2>9. /\ Went({t \in Subscribers : <<t, "DENIED">> \in told})
        /\ conv' = Told(Heeded(told)) /\ handle' = closeDataCall(told) /\ CallTypes'
    BY <1>2, <2>5, <2>8, Informs
  <2>10. Went({}) /\ handle' = handle
    <3>1. {t \in Subscribers : <<t, "DENIED">> \in told} = {}
      BY <2>7
    <3>2. \A t : <<t, "RELEASED">> \notin told
      BY <2>7
    <3>3. closeDataCall(told) = handle
      BY <3>2, Zenon DEF closeDataCall
    <3> QED BY <2>9, <3>1, <3>3
  <2>11. \A t \in Subscribers : Head(msgs) # es(t) /\ Head(msgs) # req(t)
    BY <1>2, DsDistinct
  <2>12. DsHandles(r.m, told, {})
    BY <1>2, <2>5, <2>9, <2>10, <2>11 DEF DsHandles
  <2>13. CallFits(r.m.state, call', handle', Has(msgs', opened), Has(msgs', ended))
    <3>1. /\ CallFits(ds.state, call, handle, Has(msgs, opened), Has(msgs, ended))
          /\ call \in {"none", "starting", "up", "stopping"}
      BY DEF DsInv, Calls, DsTypeOK
    <3>2. Head(msgs) # opened /\ Head(msgs) # ended
      BY <1>2, DsDistinct
    <3>3. (Has(msgs', opened) <=> Has(msgs, opened)) /\ (Has(msgs', ended) <=> Has(msgs, ended))
      BY <2>10, <3>2, OtherTaken
    <3>4. CASE r.action = "RELEASE"
      <4>1. r.m.state = "Releasing"
        BY <2>1, <2>6, <3>4
      <4> QED BY <2>8, <2>10, <3>1, <3>3, <3>4, <4>1 DEF CallFits
    <3>5. CASE r.action # "RELEASE"
      <4>1. r.m.state = ds.state
        BY <2>1, <2>6, <3>5
      <4> QED BY <2>8, <2>10, <3>1, <3>3, <3>5, <4>1 DEF CallFits
    <3> QED BY <3>4, <3>5
  <2>14. ASSUME NEW t \in Subscribers
         PROVE  /\ ds.list[t] = "out" => r.m.list[t] = "out"
                /\ conv[t] = "opening" /\ <<t, "UNSUBSCRIBE">> \notin told =>
                     /\ r.m.list[t] # "inactive"
                     /\ r.m.state = "Acquired" => r.m.list[t] # "active"
                     /\ ds.list[t] = "active" => r.m.list[t] = "active"
    <3>1. CASE t = s
      BY <1>4, <2>7, <3>1
    <3>2. CASE t # s
      <4>1. r.m.list[t] = ds.list[t] /\ (r.m.state = "Acquired" => ds.state = "Acquired")
        BY <2>1, <2>6, <3>2
      <4>2. Waits(t)
        BY DEF DsInv
      <4> QED BY <4>1, <4>2 DEF Waits
    <3> QED BY <3>1, <3>2
  <2> QED BY <2>6, <2>11, <2>12, <2>13, <2>14, DsHandlerKeeps
<1> QED BY <1>3, <1>4

-----------------------------------------------------------------------------
(* Clients, framework, data service and timer *)

\* A message that is news for nobody that waits.
LEMMA WaitsPosted ==
  ASSUME NEW m, Posted(m), NEW s \in Subscribers, Waits(s), UNCHANGED <<used, ds, nif, conv>>,
         m # rel(s), m = req(s) \/ m = es(s) => ds.list[s] # "out"
  PROVE  Waits(s)'
<1>1. /\ Has(msgs', req(s)) <=> Has(msgs, req(s)) \/ m = req(s)
      /\ Has(msgs', rel(s)) <=> Has(msgs, rel(s))
      /\ Has(msgs', es(s)) <=> Has(msgs, es(s)) \/ m = es(s)
  BY DEF Posted
<1> QED BY <1>1, DsConstant DEF Waits

\* A message that is no news of the call.
LEMMA CallsPosted ==
  ASSUME NEW m, Posted(m), Calls, UNCHANGED <<ds, call, handle>>, m # opened, m # ended
  PROVE  Calls'
<1>1. /\ Announced'
      /\ (Has(msgs', opened) <=> Has(msgs, opened)) /\ (Has(msgs', ended) <=> Has(msgs, ended))
  BY DEF Posted, Calls
<1> QED BY <1>1, DsConstant DEF Calls, CallFits

LEMMA ClientRequestEsKeeps ==
  ASSUME DsInv, NEW u \in Subscribers, client_request_es(u)
  PROVE  DsInv'
<1>1. /\ DsTypeOK /\ OneRequest /\ Calls
      /\ conv[u] = "closed" /\ used.requests[u] < MaxRequests
      /\ used' = [used EXCEPT !.requests[u] = @ + 1]
      /\ conv' = [conv EXCEPT ![u] = "opening"]
      /\ Post(es(u)) /\ UNCHANGED <<kind, nif, asked, conn, dsVars>>
  BY DEF DsInv, client_request_es, es
<1>2. Posted(es(u))
  BY <1>1, DsMsgTypes, IsPosted
<1>3. DsTypeOK'
  BY <1>1, <1>2 DEF DsTypeOK, Posted, dsVars, DsMsgType, MsgType
<1>4. /\ OneRequest' /\ ~(used'.requests[u] < MaxRequests)
      /\ \A s \in Subscribers : s # u => used'.requests[s] = used.requests[s]
  BY <1>1, BoundsAssumption DEF OneRequest
<1>5. Calls'
  BY <1>1, <1>2, DsDistinct, CallsPosted DEF dsVars
<1>6. ASSUME NEW s \in Subscribers PROVE Waits(s)'
  <2>1. Waits(s) /\ UNCHANGED <<ds, nif>>
    BY <1>1 DEF DsInv, dsVars
  <2>2. /\ Has(msgs', req(s)) <=> Has(msgs, req(s))
        /\ Has(msgs', rel(s)) <=> Has(msgs, rel(s))
        /\ Has(msgs', es(s)) <=> Has(msgs, es(s)) \/ s = u
    BY <1>2, DsDistinct DEF Posted
  <2>3. conv'[s] = IF s = u THEN "opening" ELSE conv[s]
    BY <1>1 DEF DsTypeOK
  <2>4. CASE s = u
    BY <1>1, <1>4, <2>1, <2>2, <2>3, <2>4, DsConstant DEF Waits
  <2>5. CASE s # u
    BY <1>4, <2>1, <2>2, <2>3, <2>5, DsConstant DEF Waits
  <2> QED BY <2>4, <2>5
<1> QED BY <1>1, <1>3, <1>4, <1>5, <1>6 DEF DsInv

LEMMA ClientReleaseKeeps ==
  ASSUME DsInv, NEW u \in Subscribers, client_release(u), UNCHANGED dsVars
  PROVE  DsInv'
<1>1. /\ DsTypeOK /\ OneRequest /\ Calls
      /\ conv[u] \in {"opening", "open"} /\ conv' = [conv EXCEPT ![u] = "closing"]
      /\ Post(rel(u)) /\ UNCHANGED <<kind, nif, asked, conn, used, dsVars>>
  BY DEF DsInv, client_release, rel
<1>2. Posted(rel(u))
  BY <1>1, DsMsgTypes, IsPosted
<1>3. DsTypeOK'
  BY <1>1, <1>2 DEF DsTypeOK, Posted, dsVars, DsMsgType, MsgType
<1>4. Calls'
  BY <1>1, <1>2, DsDistinct, CallsPosted DEF dsVars
<1>5. ASSUME NEW s \in Subscribers PROVE Waits(s)'
  <2>1. Waits(s) /\ UNCHANGED <<ds, nif, used>>
    BY <1>1 DEF DsInv, dsVars
  <2>2. /\ Has(msgs', req(s)) <=> Has(msgs, req(s))
        /\ Has(msgs', rel(s)) <=> Has(msgs, rel(s)) \/ s = u
        /\ Has(msgs', es(s)) <=> Has(msgs, es(s))
    BY <1>2, DsDistinct DEF Posted
  <2>3. conv'[s] = IF s = u THEN "closing" ELSE conv[s]
    BY <1>1 DEF DsTypeOK
  <2>4. CASE s = u
    BY <1>1, <2>1, <2>3, <2>4, DsConstant DEF Waits
  <2>5. CASE s # u
    BY <2>1, <2>2, <2>3, <2>5, DsConstant DEF Waits
  <2> QED BY <2>4, <2>5
<1> QED BY <1>1, <1>3, <1>4, <1>5 DEF DsInv, OneRequest

\* The framework reads what it is asked, and gives notice of what it did.
LEMMA FrameworkKeepsDs ==
  ASSUME DsInv, fw_read \/ fw_opening_ends, UNCHANGED dsVars
  PROVE  DsInv'
<1>1. /\ DsTypeOK /\ OneRequest /\ Calls /\ UNCHANGED <<kind, nif, conv, used, dsVars>>
      /\ asked' = asked \/ (asked # <<>> /\ asked' = Tail(asked))
      /\ msgs' = msgs \/ \E e \in Events : Post(e)
  BY DEF DsInv, fw_read, fw_opening_ends, loc_eng_agps_open, loc_eng_agps_open_failed,
         loc_eng_agps_closed, Events, granted, denied, closed
<1>2. asked' \in Seq({"REQUEST", "RELEASE"})
  <2>1. asked \in Seq({"REQUEST", "RELEASE"})
    BY <1>1 DEF DsTypeOK
  <2>2. asked # <<>> => Tail(asked) \in Seq({"REQUEST", "RELEASE"})
    BY <2>1
  <2> QED BY <1>1, <2>1, <2>2
<1>3. CASE msgs' = msgs
  <2>1. DsTypeOK'
    BY <1>1, <1>2, <1>3 DEF DsTypeOK, dsVars, DsMsgType, MsgType
  <2>2. Calls'
    BY <1>1, <1>3, DsConstant DEF Calls, CallFits, Announced, dsVars
  <2>3. \A s \in Subscribers : Waits(s)'
    BY <1>1, <1>3, DsConstant DEF DsInv, Waits, dsVars
  <2> QED BY <1>1, <2>1, <2>2, <2>3 DEF DsInv, OneRequest
<1>4. CASE \E e \in Events : Post(e)
  <2>1. PICK e \in Events : Post(e)
    BY <1>4
  <2>2. Posted(e)
    BY <1>1, <2>1, DsMsgTypes, IsPosted
  <2>3. DsTypeOK'
    BY <1>1, <1>2, <2>2 DEF DsTypeOK, Posted, dsVars, DsMsgType, MsgType
  <2>4. e # opened /\ e # ended /\ \A s : e # req(s) /\ e # rel(s) /\ e # es(s)
    BY DsDistinct
  <2>5. Calls'
    BY <1>1, <2>2, <2>4, CallsPosted DEF dsVars
  <2>6. \A s \in Subscribers : Waits(s)'
    BY <1>1, <2>2, <2>4, WaitsPosted DEF DsInv, dsVars
  <2> QED BY <1>1, <2>3, <2>5, <2>6 DEF DsInv, OneRequest
<1> QED BY <1>1, <1>3, <1>4

\* The data service reports that the call is up, or that it is gone.
LEMMA CallReportKeeps ==
  ASSUME DsInv, call_event \/ call_drops
  PROVE  DsInv'
<1>1. /\ DsTypeOK /\ OneRequest /\ Calls
      /\ UNCHANGED <<kind, nif, asked, conn, conv, used, ds, order, handle, retries, timers>>
      /\ \/ call = "starting" /\ call' = "up" /\ Post(opened)
         \/ call \in {"starting", "up", "stopping"} /\ call' = "none" /\ Post(ended)
      /\ dsUsed' = dsUsed \/ (dsUsed.drops < MaxDrops /\ dsUsed' = [dsUsed EXCEPT !.drops = @ + 1])
  BY DEF DsInv, call_event, call_drops, opened, ended
<1>2. dsUsed' \in [faults : 0 .. MaxFaults, drops : 0 .. MaxDrops]
  BY <1>1, DsBoundsAssumption DEF DsTypeOK
<1>3. PICK m \in {opened, ended} : /\ Post(m) /\ call' = IF m = opened THEN "up" ELSE "none"
                                   /\ m = opened => call = "starting"
                                   /\ m = ended => call \in {"starting", "up", "stopping"}
  BY <1>1, DsDistinct
<1>4. Posted(m)
  BY <1>1, <1>3, DsMsgTypes, IsPosted
<1>5. /\ CallFits(ds.state, call, handle, Has(msgs, opened), Has(msgs, ended)) /\ Announced
      /\ Has(msgs', opened) <=> Has(msgs, opened) \/ m = opened
      /\ Has(msgs', ended) <=> Has(msgs, ended) \/ m = ended
  BY <1>1, <1>4 DEF Calls, Posted
<1>6. ~Has(msgs, ended) /\ (m = opened => ~Has(msgs, opened))
  BY <1>3, <1>5 DEF CallFits
<1>7. Announced'
  BY <1>4, <1>5, <1>6 DEF Posted
<1>8. CallFits(ds.state, call', handle, Has(msgs', opened), Has(msgs', ended))
  <2>1. CASE m = opened
    BY <1>3, <1>5, <1>6, <2>1, DsDistinct DEF CallFits
  <2>2. CASE m = ended
    BY <1>3, <1>5, <1>6, <2>2, DsDistinct DEF CallFits
  <2> QED BY <2>1, <2>2
<1>9. Calls'
  BY <1>1, <1>7, <1>8, DsConstant DEF Calls
<1>10. DsTypeOK'
  BY <1>1, <1>2, <1>3, <1>4 DEF DsTypeOK, Posted, DsMsgType, MsgType
<1>11. \A s \in Subscribers : m # req(s) /\ m # rel(s) /\ m # es(s)
  BY DsDistinct
<1>12. \A s \in Subscribers : Waits(s)'
  BY <1>1, <1>4, <1>11, WaitsPosted DEF DsInv
<1> QED BY <1>1, <1>9, <1>10, <1>12 DEF DsInv, OneRequest

LEMMA RetryKeeps ==
  ASSUME DsInv, retryCallback
  PROVE  DsInv'
<1>1. /\ DsTypeOK /\ OneRequest /\ Calls /\ timers > 0 /\ timers' = timers - 1
      /\ UNCHANGED <<kind, nif, asked, conn, conv, used, ds, order, call, handle, retries, dsUsed>>
      /\ msgs' = msgs \/ \E s \in FirstActive(order, ds) : Post(es(s))
  BY DEF DsInv, retryCallback, es
<1>2. timers' \in Nat
  BY <1>1 DEF DsTypeOK
<1>3. CASE msgs' = msgs
  <2>1. DsTypeOK'
    BY <1>1, <1>2, <1>3 DEF DsTypeOK, DsMsgType, MsgType
  <2>2. Calls'
    BY <1>1, <1>3, DsConstant DEF Calls, CallFits, Announced
  <2>3. \A s \in Subscribers : Waits(s)'
    BY <1>1, <1>3, DsConstant DEF DsInv, Waits
  <2> QED BY <1>1, <2>1, <2>2, <2>3 DEF DsInv, OneRequest
<1>4. CASE \E s \in FirstActive(order, ds) : Post(es(s))
  <2>1. PICK u \in Subscribers : ds.list[u] = "active" /\ Post(es(u))
    BY <1>4 DEF FirstActive, Actives
  <2>2. Posted(es(u))
    BY <1>1, <2>1, DsMsgTypes, IsPosted
  <2>3. DsTypeOK'
    BY <1>1, <1>2, <2>2 DEF DsTypeOK, Posted, DsMsgType, MsgType
  <2>4. Calls'
    BY <1>1, <2>2, DsDistinct, CallsPosted
  <2>5. ASSUME NEW s \in Subscribers PROVE Waits(s)'
    <3>1. es(u) # rel(s) /\ (es(u) = req(s) \/ es(u) = es(s) => ds.list[s] # "out")
      BY <2>1, DsDistinct
    <3>2. Waits(s)
      BY DEF DsInv
    <3> QED BY <1>1, <2>2, <3>1, <3>2, WaitsPosted
  <2> QED BY <1>1, <2>3, <2>4, <2>5 DEF DsInv, OneRequest
<1> QED BY <1>1, <1>3, <1>4

-----------------------------------------------------------------------------
(* The emergency machine in its parts, and the two machines together *)

LEMMA DsStartInv ==
  ASSUME NEW n1 \in {MaxRequests - 1, MaxRequests}, NEW n2 \in {MaxRequests - 1, MaxRequests},
         NEW faults \in 0 .. MaxFaults, DsStart(n1, n2, faults)
  PROVE  DsInv
<1>1. /\ kind = "plain" /\ nif = NewMachine /\ ds = NewMachine /\ msgs = <<>> /\ asked = <<>>
      /\ conv = [s \in Subscribers |-> "closed"]
      /\ order = {} /\ call = "none" /\ handle = "null" /\ retries = 0 /\ timers = 0
      /\ used = [requests |-> Requests(n1, n2), losses |-> MaxLosses, restarts |-> MaxRestarts]
      /\ dsUsed = [faults |-> faults, drops |-> 0]
  BY DEF DsStart, NewNif, NewDs
<1>2. NewMachine \in Machine /\ NewMachine.state = "Released"
      /\ \A s \in Subscribers : NewMachine.list[s] = "out"
  BY DEF NewMachine, Machine, States
<1>3. DsTypeOK
  BY <1>1, <1>2, DsBoundsAssumption DEF DsTypeOK
<1>4. OneRequest
  <2>1. Requests(n1, n2) \in [Subscribers -> {MaxRequests - 1, MaxRequests}]
    BY DEF Requests
  <2> QED BY <1>1, <2>1, BoundsAssumption DEF OneRequest
<1>5. \A m : ~Has(msgs, m)
  BY <1>1 DEF Has
<1>6. Calls
  BY <1>1, <1>2, <1>5 DEF Calls, CallFits, Announced, Once, Before
<1>7. \A s \in Subscribers : Waits(s)
  BY <1>1, <1>2, <1>5 DEF Waits
<1> QED BY <1>1, <1>3, <1>4, <1>6, <1>7 DEF DsInv

LEMMA NextDsInv == DsInv /\ (DsNext \/ UNCHANGED allVars) => DsInv'
<1> SUFFICES ASSUME DsInv, DsNext \/ UNCHANGED allVars
             PROVE  DsInv'
  OBVIOUS
<1>1. CASE \E s \in Subscribers : client_request_es(s)
  BY <1>1, ClientRequestEsKeeps
<1>2. CASE \E s \in Subscribers : client_release(s) /\ UNCHANGED dsVars
  BY <1>2, ClientReleaseKeeps
<1>3. CASE (fw_read \/ fw_opening_ends) /\ UNCHANGED dsVars
  BY <1>3, FrameworkKeepsDs
<1>4. CASE call_event \/ call_drops
  BY <1>4, CallReportKeeps
<1>5. CASE retryCallback
  BY <1>5, RetryKeeps
<1>6. CASE LocEngRequestSuplEs
  BY <1>6, RequestSuplEsKeeps
<1>7. CASE LocEngSuplEsOpened
  BY <1>7, SuplEsOpenedKeeps
<1>8. CASE LocEngSuplEsClosed
  BY <1>8, SuplEsClosedKeeps
<1>9. CASE LocEngReleaseATL
  BY <1>9, ReleaseATLKeeps
<1>10. CASE subscribeRsrc /\ UNCHANGED dsVars
  BY <1>10, IfaceSubscribes
<1>11. CASE (LocEngAtlOpenSuccess \/ LocEngAtlClosed \/ LocEngAtlOpenFailed) /\ UNCHANGED dsVars
  BY <1>11, IfaceHears
<1>12. CASE UNCHANGED allVars
  <2>1. UNCHANGED <<kind, nif, msgs, asked, conv, used, ds, order, call, handle, retries, timers, dsUsed>>
    BY <1>12 DEF allVars, vars, dsVars
  <2>2. DsTypeOK' /\ OneRequest' /\ kind' = "plain"
    BY <2>1 DEF DsInv, DsTypeOK, OneRequest, DsMsgType, MsgType
  <2>3. Calls'
    BY <2>1, DsConstant DEF DsInv, Calls, CallFits, Announced
  <2>4. \A s \in Subscribers : Waits(s)'
    BY <2>1, DsConstant DEF DsInv, Waits
  <2> QED BY <2>2, <2>3, <2>4 DEF DsInv
<1> QED BY <1>1, <1>2, <1>3, <1>4, <1>5, <1>6, <1>7, <1>8, <1>9, <1>10, <1>11, <1>12 DEF DsNext, DsThread

\* The invariant is strong enough for both promises of the emergency machine.
LEMMA DsInvIsSound == DsInv => EmergencyIsSound
<1> SUFFICES ASSUME DsInv
             PROVE  EmergencyIsSound
  OBVIOUS
<1>1. /\ \A s : /\ Pending(Msg("request", s)) <=> Has(msgs, req(s))
                /\ Pending(Msg("requestEs", s)) <=> Has(msgs, es(s))
      /\ Pending(Event("dsClosed")) <=> Has(msgs, ended)
  BY DEF Pending, Has, req, es, ended
<1>2. CallIsOwned
  BY <1>1 DEF DsInv, DsTypeOK, Calls, CallFits, CallIsOwned
<1>3. WaitingIsListed
  BY <1>1 DEF DsInv, Waits, WaitingIsListed
<1> QED BY <1>2, <1>3 DEF DsInv, EmergencyIsSound

LEMMA DsInitInv ==
  ASSUME MaxRequests = 1, DsInit
  PROVE  DsInv
<1>1. /\ kind = "plain" /\ nif = NewMachine /\ ds = NewMachine /\ msgs = <<>> /\ asked = <<>>
      /\ conv = [s \in Subscribers |-> "closed"]
      /\ order = {} /\ call = "none" /\ handle = "null" /\ retries = 0 /\ timers = 0
      /\ used = [requests |-> [s \in Subscribers |-> 0], losses |-> 0, restarts |-> 0]
      /\ dsUsed = [faults |-> 0, drops |-> 0]
  BY DEF DsInit, Init, NewNif, NewDs
<1>2. NewMachine \in Machine /\ NewMachine.state = "Released"
      /\ \A s \in Subscribers : NewMachine.list[s] = "out"
  BY DEF NewMachine, Machine, States
<1>3. DsTypeOK
  BY <1>1, <1>2, DsBoundsAssumption DEF DsTypeOK
<1>4. OneRequest
  BY <1>1, MaxRequests = 1 DEF OneRequest
<1>5. \A m : ~Has(msgs, m)
  BY <1>1 DEF Has
<1>6. Calls
  BY <1>1, <1>2, <1>5 DEF Calls, CallFits, Announced, Once, Before
<1>7. \A s \in Subscribers : Waits(s)
  BY <1>1, <1>2, <1>5 DEF Waits
<1> QED BY <1>1, <1>3, <1>4, <1>6, <1>7 DEF DsInv

\* The emergency machine by itself, where each of any number of clients asks once: its call is
\* never left without an owner, and nobody waits off both lists.
THEOREM EmergencyStaysSound ==
  ASSUME MaxRequests = 1
  PROVE  DsSpec => []EmergencyIsSound
<1>1. DsInit => DsInv
  BY DsInitInv
<1>2. DsInv /\ [DsNext]_allVars => DsInv'
  BY NextDsInv
<1>3. DsInv => EmergencyIsSound
  BY DsInvIsSound
<1> QED BY <1>1, <1>2, <1>3, PTL DEF DsSpec

\* Each part has its invariant.
MCInv == IF part = "interface" THEN Inv ELSE DsInv

LEMMA MCInitInv == MCInit => MCInv
<1>1. part = "interface" /\ Init => MCInv
  BY InitInv DEF MCInv
<1>2. ASSUME part = "calls", DsStart(MaxRequests - 1, MaxRequests - 1, MaxFaults)
      PROVE  MCInv
  BY <1>2, DsStartInv, DsBoundsAssumption DEF MCInv
<1>3. ASSUME part = "retries", DsStart(MaxRequests - 1, MaxRequests, 0)
      PROVE  MCInv
  BY <1>3, DsStartInv, DsBoundsAssumption DEF MCInv
<1> QED BY <1>1, <1>2, <1>3 DEF MCInit

LEMMA MCNextInv == MCInv /\ [MCNext]_mcVars => MCInv'
<1> SUFFICES ASSUME MCInv, [MCNext]_mcVars
             PROVE  MCInv'
  OBVIOUS
<1>1. CASE Interface(Next)
  BY <1>1, NextInv DEF Interface, MCInv
<1>2. CASE Emergency(DsNext)
  BY <1>2, NextDsInv DEF Emergency, MCInv
<1>3. CASE UNCHANGED mcVars
  <2>1. UNCHANGED <<vars, allVars, part>>
    BY <1>3 DEF mcVars, allVars
  <2> QED BY <2>1, NextInv, NextDsInv DEF MCInv
<1> QED BY <1>1, <1>2, <1>3 DEF MCNext

LEMMA MCInvIsSound == MCInv => SoundAtAnyTime
BY InvIsSound, DsInvIsSound DEF MCInv, SoundAtAnyTime

\* Clients, machines, data call and framework agree at every moment in every part of the
\* model: the ordinary interface however often its clients ask, the framework loses it and the
\* modem restarts; the emergency call for any number of clients with one request each,
\* however often the call is refused, fails and drops.
THEOREM SoundInAllParts == MCSpec => []SoundAtAnyTime
<1>1. MCInit => MCInv
  BY MCInitInv
<1>2. MCInv /\ [MCNext]_mcVars => MCInv'
  BY MCNextInv
<1>3. MCInv => SoundAtAnyTime
  BY MCInvIsSound
<1> QED BY <1>1, <1>2, <1>3, PTL DEF MCSpec

=============================================================================
