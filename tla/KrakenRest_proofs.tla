------------------------- MODULE KrakenRest_proofs -------------------------
(***************************************************************************)
(* The safety properties of KrakenRest for every set of tasks, clients and *)
(* calls, every bucket and any number of faults.                           *)
(*                                                                         *)
(* OutcomeIsTrue: what makes it inductive is that a call has at most one   *)
(* request on its way, that of its present attempt, and that it has not    *)
(* been carried out as long as that request is (RestInv).                  *)
(*                                                                         *)
(* NonceFailureIsExplained: unless the clock was stepped back and two      *)
(* objects drew from it, a nonce is above all that were drawn before it,   *)
(* so that whatever is above the nonce of a waiting call was drawn since:  *)
(* by its second attempt such a call has been overtaken once (DrawInv on   *)
(* the nonces themselves, CallInv on the calls that wait).                 *)
(***************************************************************************)
EXTENDS KrakenRest, TLAPS

Results == {None, "ok", "refused", "nonce", "unknown", "swallowed"}

Typed ==
  /\ pc \in [Calls -> {"idle", "acquiring", "sent", "done"}]
  /\ attempt \in [Calls -> {1, 2}]
  /\ result \in [Calls -> Results]
  /\ executed \in [Calls -> {0, 1}]

OnItsWay ==
  \A r \in wire :
    /\ r.call \in Calls
    /\ r.attempt = attempt[r.call]
    /\ executed[r.call] = 0
    /\ pc[r.call] \in {"sent", "done"}
    /\ result[r.call] \in {None, "unknown", "swallowed"}
    /\ \A q \in wire : q.call = r.call => q = r

Ended ==
  \A c \in Calls :
    /\ pc[c] # "done" => result[c] = None
    /\ pc[c] \in {"idle", "acquiring"} => executed[c] = 0
    /\ result[c] = "ok" => executed[c] = 1
    /\ result[c] \in Told => executed[c] = 0

RestInv == Typed /\ OnItsWay /\ Ended

state == <<pc, attempt, result, wire, executed>>

\* The parts of RestInv speak of nothing but these variables.
LEMMA RestFrame ==
  ASSUME RestInv, UNCHANGED state
  PROVE  RestInv'
  BY DEF RestInv, Typed, OnItsWay, Ended, state, Told

\* A call that ends once none of its requests is on its way, or with an
\* outcome that says nothing, keeps the invariant.
LEMMA EndKeeps ==
  ASSUME NEW c \in Calls, NEW outcome \in {"ok", "refused", "nonce", "unknown"},
         RestInv, pc[c] = "sent", End(c, outcome),
         wire' \subseteq wire,
         executed' \in [Calls -> {0, 1}],
         \A d \in Calls : d # c => executed'[d] = executed[d],
         outcome = "ok" => executed'[c] = 1,
         outcome \in Told => executed'[c] = 0,
         outcome # "unknown" => \A r \in wire' : r.call # c,
         \A r \in wire' : executed'[r.call] = 0
  PROVE  RestInv'
<1> USE DEF RestInv
<1>1. CASE Retried(c, outcome)
  <2>1. /\ attempt' = [attempt EXCEPT ![c] = 2]
        /\ pc' = [pc EXCEPT ![c] = "acquiring"]
        /\ result' = result
        /\ outcome = "nonce"
    BY <1>1 DEF End, Retried
  <2>2. Typed'
    BY <2>1 DEF Typed
  <2>3. OnItsWay'
    BY <2>1 DEF OnItsWay, Typed
  <2>4. Ended'
    BY <2>1, NoneAssumption DEF Ended, Typed, Told
  <2> QED
    BY <2>2, <2>3, <2>4
<1>2. CASE ~Retried(c, outcome)
  <2> DEFINE said == Surfaces(c, outcome)
  <2>1. /\ attempt' = attempt
        /\ pc' = [pc EXCEPT ![c] = "done"]
        /\ result' = [result EXCEPT ![c] = said]
    BY <1>2 DEF End
  <2>2. said \in {outcome, "swallowed"}
    BY DEF Surfaces
  <2> HIDE DEF said
  <2>3. Typed'
    BY <2>1, <2>2 DEF Typed, Results
  <2>4. OnItsWay'
    BY <2>1, <2>2 DEF OnItsWay, Typed
  <2>5. Ended'
    BY <2>1, <2>2, NoneAssumption DEF Ended, Typed, Told
  <2> QED
    BY <2>3, <2>4, <2>5
<1> QED
  BY <1>1, <1>2

\* A request that arrives, whatever the exchange does of it and whether or not
\* the reply reaches its call.
LEMMA ArriveKeeps ==
  ASSUME NEW r \in wire, RestInv, Arrive(r)
  PROVE  RestInv'
<1> USE DEF RestInv
<1> DEFINE c == r.call
<1>1. /\ c \in Calls /\ executed[c] = 0
      /\ wire' = wire \ {r}
      /\ \A q \in wire' : q.call # c
  BY DEF OnItsWay, Arrive
<1>2. \A q \in wire' : q.call \in Calls /\ executed[q.call] = 0
  BY <1>1 DEF OnItsWay
<1> DEFINE answered(code) == /\ pc[c] = "sent"
                             /\ attempt[c] = r.attempt
                             /\ End(c, code)
           lost == UNCHANGED <<pc, attempt, result>>
<1>3. PICK code \in {"ok", "refused", "nonce"} :
        /\ answered(code) \/ lost
        /\ code = "ok" => executed' = [executed EXCEPT ![c] = @ + 1]
        /\ code # "ok" => executed' = executed
  BY DEF Arrive, Replies, exchange, call
<1>4. /\ executed' \in [Calls -> {0, 1}]
      /\ \A d \in Calls : d # c => executed'[d] = executed[d]
      /\ code = "ok" => executed'[c] = 1
      /\ code # "ok" => executed'[c] = 0
  BY <1>1, <1>3 DEF Typed
<1>5. \A q \in wire' : executed'[q.call] = 0
  BY <1>1, <1>2, <1>4
<1>6. CASE answered(code)
  BY <1>1, <1>4, <1>5, <1>6, EndKeeps DEF Told
<1>7. CASE lost
  <2>1. Typed'
    BY <1>4, <1>7 DEF Typed
  <2>2. OnItsWay'
    BY <1>1, <1>5, <1>7 DEF OnItsWay
  <2>3. Ended'
    BY <1>1, <1>4, <1>7, NoneAssumption DEF Ended, Typed, OnItsWay, Told
  <2> QED
    BY <2>1, <2>2, <2>3
<1> QED
  BY <1>3, <1>6, <1>7

\* Before the first call, no request is on its way.
LEMMA RestInvInit == Init => RestInv
  BY NoneAssumption DEF Init, RestInv, Typed, OnItsWay, Ended, Results, Told

\* Every step of a task, a request or the bucket keeps the requests apart.
LEMMA RestInvNext == RestInv /\ [Next]_vars => RestInv'
<1> SUFFICES ASSUME RestInv, [Next]_vars PROVE RestInv'
  OBVIOUS
<1>1. ASSUME NEW c \in Calls, Begin(c) PROVE RestInv'
  BY <1>1 DEF RestInv, Typed, OnItsWay, Ended, Told, Begin, exchange
<1>2. ASSUME NEW c \in Calls, Send(c) PROVE RestInv'
  <2>1. /\ pc[c] = "acquiring" /\ executed[c] = 0 /\ result[c] = None
        /\ pc' = [pc EXCEPT ![c] = "sent"]
        /\ UNCHANGED <<attempt, result, executed>>
    BY <1>2 DEF RestInv, Ended, Send, exchange
  <2> DEFINE new == [call |-> c, attempt |-> attempt[c], nonce |-> Nonce(Client(c))]
  <2>2. /\ wire' = wire \cup {new}
        /\ new.call = c /\ new.attempt = attempt[c]
    BY <1>2 DEF Send
  <2> HIDE DEF new
  <2>3. \A r \in wire : r.call # c
    BY <2>1 DEF RestInv, OnItsWay
  <2>4. Typed'
    BY <2>1 DEF RestInv, Typed
  <2>5. OnItsWay'
    BY <2>1, <2>2, <2>3 DEF RestInv, OnItsWay, Typed
  <2>6. Ended'
    BY <2>1 DEF RestInv, Ended, Typed, Told
  <2> QED
    BY <2>4, <2>5, <2>6 DEF RestInv
<1>3. ASSUME NEW c \in Calls, GivesUp(c) PROVE RestInv'
  <2>1. /\ pc[c] = "sent" /\ End(c, "unknown")
        /\ wire' = wire /\ executed' = executed
    BY <1>3 DEF GivesUp, exchange
  <2>2. executed \in [Calls -> {0, 1}] /\ \A r \in wire : executed[r.call] = 0
    BY DEF RestInv, Typed, OnItsWay
  <2> QED
    BY <2>1, <2>2, EndKeeps DEF Told
<1>4. ASSUME NEW r \in wire, Arrive(r) PROVE RestInv'
  BY <1>4, ArriveKeeps
<1>5. CASE Restart
  <2> DEFINE dead(c) == Client(c) = Bot /\ pc[c] \in {"acquiring", "sent"}
  <2>1. /\ pc' = [c \in Calls |-> IF dead(c) THEN "done" ELSE pc[c]]
        /\ result' = [c \in Calls |-> IF dead(c) THEN "unknown" ELSE result[c]]
        /\ UNCHANGED <<attempt, wire, executed>>
    BY <1>5 DEF Restart, exchange
  <2>2. Typed'
    BY <2>1 DEF RestInv, Typed, Results
  <2>3. OnItsWay'
    BY <2>1 DEF RestInv, OnItsWay, Typed
  <2>4. Ended'
    BY <2>1 DEF RestInv, Ended, Typed, Told
  <2> QED
    BY <2>2, <2>3, <2>4 DEF RestInv
<1>6. CASE StepBack \/ TimePasses \/ UNCHANGED vars
  BY <1>6, RestFrame DEF StepBack, TimePasses, vars, call, exchange, state
<1> QED
  BY <1>1, <1>2, <1>3, <1>4, <1>5, <1>6 DEF Next, Step

\* Every call is carried out at most once, and an error that Kraken answered
\* means that it was not and will not be: _post may retry, and the executor may
\* forget the order.
THEOREM OutcomeTheorem == Spec => []OutcomeIsTrue
<1>1. RestInv => OutcomeIsTrue
  <2> SUFFICES ASSUME RestInv, NEW c \in Calls
               PROVE  /\ executed[c] <= 1
                      /\ result[c] = "ok" => executed[c] = 1
                      /\ result[c] \in Told =>
                           executed[c] = 0 /\ \A r \in wire : r.call # c
    BY DEF OutcomeIsTrue
  <2>1. executed[c] <= 1
    BY DEF RestInv, Typed
  <2>2. result[c] \in Told => \A r \in wire : r.call # c
    BY NoneAssumption DEF RestInv, OnItsWay, Told
  <2> QED
    BY <2>1, <2>2 DEF RestInv, Ended
<1> QED
  BY <1>1, RestInvInit, RestInvNext, PTL DEF Spec

-----------------------------------------------------------------------------
(* The bucket *)

\* What a client sent in excess of the time that passed is missing from its
\* bucket.
BucketInv ==
  /\ tokens \in [Clients -> 0..Capacity]
  /\ burst \in [Clients -> Nat]
  /\ \A k \in Clients : tokens[k] + burst[k] <= Capacity

\* A new client's bucket is full, with nothing of its burst spent.
LEMMA NewClientKeeps ==
  ASSUME NEW k \in Clients, BucketInv, NewClient(k)
  PROVE  BucketInv'
  BY NumberAssumption DEF BucketInv, NewClient

\* Every step keeps the level of each bucket within its bounds.
LEMMA BucketInvNext == BucketInv /\ [Next]_vars => BucketInv'
<1> SUFFICES ASSUME BucketInv, [Next]_vars PROVE BucketInv'
  OBVIOUS
<1> USE NumberAssumption
<1>1. ASSUME NEW c \in Calls, Begin(c) PROVE BucketInv'
  <2>1. CASE Client(c) \in Renewed
    BY <1>1, <2>1, ClientAssumption, NewClientKeeps DEF Begin
  <2>2. CASE Client(c) \notin Renewed
    BY <1>1, <2>2 DEF Begin, BucketInv
  <2> QED
    BY <2>1, <2>2
<1>2. ASSUME NEW c \in Calls, Send(c) PROVE BucketInv'
  <2> DEFINE k == Client(c)
  <2>1. /\ tokens[k] >= 1
        /\ tokens' = [tokens EXCEPT ![k] = @ - 1]
        /\ burst' = [burst EXCEPT ![k] = @ + 1]
    BY <1>2 DEF Send, Sent
  <2> HIDE DEF k
  <2> SUFFICES ASSUME NEW l \in Clients
               PROVE  /\ tokens'[l] \in 0..Capacity /\ burst'[l] \in Nat
                      /\ tokens'[l] + burst'[l] <= Capacity
    BY <2>1 DEF BucketInv
  <2>2. tokens[l] \in 0..Capacity /\ burst[l] \in Nat /\ tokens[l] + burst[l] <= Capacity
    BY DEF BucketInv
  <2>3. CASE l = k
    BY <2>1, <2>2, <2>3 DEF BucketInv
  <2>4. CASE l # k
    BY <2>1, <2>2, <2>4 DEF BucketInv
  <2> QED
    BY <2>3, <2>4
<1>3. ASSUME NEW c \in Calls, GivesUp(c) PROVE BucketInv'
  BY <1>3 DEF GivesUp, End, BucketInv
<1>4. ASSUME NEW r \in wire, Arrive(r) PROVE BucketInv'
  BY <1>4 DEF Arrive, Replies, End, history, BucketInv
<1>5. CASE Restart
  BY <1>5, ClientAssumption, NewClientKeeps DEF Restart
<1>6. CASE TimePasses
  <2> SUFFICES ASSUME NEW k \in Clients
               PROVE  /\ Refill(k) \in 0..Capacity
                      /\ Larger(0, burst[k] - 1) \in Nat
                      /\ Refill(k) + Larger(0, burst[k] - 1) <= Capacity
    BY <1>6 DEF TimePasses, BucketInv
  <2> QED
    BY DEF BucketInv, Refill, Larger, Smaller
<1>7. CASE StepBack \/ UNCHANGED vars
  BY <1>7 DEF StepBack, vars, BucketInv
<1> QED
  BY <1>1, <1>2, <1>3, <1>4, <1>5, <1>6, <1>7 DEF Next, Step

\* Whatever its tasks do, a client never sends more in any window of time than
\* a full bucket and what the window restores (_TokenBucket.acquire).
THEOREM BurstTheorem == Spec => []BurstIsBounded
<1>1. Init => BucketInv
  BY NumberAssumption DEF Init, BucketInv
<1>2. BucketInv => BurstIsBounded
  <2> SUFFICES ASSUME BucketInv, NEW k \in Clients PROVE burst[k] <= Capacity
    BY DEF BurstIsBounded
  <2>1. tokens[k] \in Nat /\ burst[k] \in Nat /\ tokens[k] + burst[k] <= Capacity
    BY NumberAssumption DEF BucketInv
  <2> QED
    BY <2>1, NumberAssumption
<1> QED
  BY <1>1, <1>2, BucketInvNext, PTL DEF Spec

-----------------------------------------------------------------------------
(* The nonce *)

Excused == stepped /\ objects = 2

NonceTyped ==
  /\ clock \in Nat \ {0}
  /\ last \in [Clients -> Nat]
  /\ highest \in Nat
  /\ \A r \in wire : r.nonce \in Nat
  /\ objects \in 0..2
  /\ stepped \in BOOLEAN

\* The nonces drawn that the exchange may still see or has accepted are below n.
Below(n) == highest < n /\ \A r \in wire : r.nonce < n

\* A clock that only advanced is above all that were drawn from it.
ClockIsAhead ==
  ~stepped => Below(clock) /\ \A k \in Clients : last[k] < clock

\* The only object that drew knows the greatest nonce.
OneObjectKnows ==
  objects < 2 =>
    \A k \in Clients : last[k] # 0 =>
      /\ objects = 1
      /\ Below(last[k] + 1)
      /\ \A l \in Clients : last[l] # 0 => l = k

\* Nothing was drawn while no object drew.
NothingDrawn == objects = 0 => Below(1)

DrawInv == NonceTyped /\ ClockIsAhead /\ OneObjectKnows /\ NothingDrawn

\* Another nonce is not below that of r.
Overtaken(r) == highest >= r.nonce \/ \E q \in wire : q # r /\ q.nonce >= r.nonce

\* A call that waits on an overtaken request was overtaken since as often as it
\* tried; one at its second attempt was at its first.
OvertakenIsDrawn ==
  ~Excused =>
    /\ \A r \in wire :
         pc[r.call] = "sent" /\ Overtaken(r) => drawn[r.call] >= attempt[r.call]
    /\ \A c \in Calls :
         /\ attempt[c] = 2 /\ pc[c] # "done" => drawn[c] >= 1
         /\ result[c] = "nonce" => drawn[c] = 2

CallInv ==
  /\ drawn \in [Calls -> 0..2]
  /\ OvertakenIsDrawn
  /\ \A c \in Calls : pc[c] = "idle" => attempt[c] = 1

\* Requests that leave the wire, accepted or not, leave the nonces as they are.
LEMMA ArrivalKeepsDraws ==
  ASSUME DrawInv, wire' \subseteq wire,
         highest' = highest \/ \E r \in wire : highest' = r.nonce,
         UNCHANGED <<clock, last, objects, stepped>>
  PROVE  DrawInv'
<1>1. ASSUME NEW n, Below(n) PROVE highest' < n /\ \A r \in wire' : r.nonce < n
  BY <1>1 DEF Below
<1>2. NonceTyped'
  BY DEF DrawInv, NonceTyped
<1>3. ClockIsAhead'
  BY <1>1 DEF DrawInv, ClockIsAhead, Below
<1>4. OneObjectKnows'
  BY <1>1 DEF DrawInv, OneObjectKnows, Below
<1>5. NothingDrawn'
  BY <1>1 DEF DrawInv, NothingDrawn, Below
<1> QED
  BY <1>2, <1>3, <1>4, <1>5 DEF DrawInv

\* A new object has not drawn.
LEMMA NewClientKeepsDraws ==
  ASSUME DrawInv, NEW k \in Clients, last' = [last EXCEPT ![k] = 0],
         UNCHANGED <<clock, wire, highest, objects, stepped>>
  PROVE  DrawInv'
<1>1. \A l \in Clients : last'[l] = 0 \/ last'[l] = last[l]
  BY DEF DrawInv, NonceTyped
<1>2. NonceTyped'
  BY DEF DrawInv, NonceTyped
<1>3. ClockIsAhead'
  BY <1>1 DEF DrawInv, ClockIsAhead, Below, NonceTyped
<1>4. OneObjectKnows'
  <2> SUFFICES ASSUME objects < 2, NEW l \in Clients, last'[l] # 0
               PROVE  /\ objects = 1
                      /\ Below(last[l] + 1)'
                      /\ \A m \in Clients : last'[m] # 0 => m = l
    BY DEF OneObjectKnows
  <2>1. last'[l] = last[l]
    BY <1>1
  <2> QED
    BY <1>1, <2>1 DEF DrawInv, OneObjectKnows, Below
<1>5. NothingDrawn'
  BY DEF DrawInv, NothingDrawn, Below
<1> QED
  BY <1>2, <1>3, <1>4, <1>5 DEF DrawInv

\* The nonce of a request is above the others, unless the clock excuses it.
LEMMA SendKeepsDraws ==
  ASSUME DrawInv, NEW c \in Calls, Send(c)
  PROVE  /\ DrawInv'
         /\ ~Excused' => Below(Nonce(Client(c)))
<1>1. PICK k, n : k = Client(c) /\ n = Nonce(k)
  OBVIOUS
<1>2. PICK new : new = [call |-> c, attempt |-> attempt[c], nonce |-> n]
  OBVIOUS
<1>3. k \in Clients
  BY <1>1, ClientAssumption DEF Calls, Client
<1>4. /\ last' = [last EXCEPT ![k] = n]
      /\ clock' = clock + 1
      /\ wire' = wire \cup {new}
      /\ new.nonce = n
      /\ objects' = IF last[k] = 0 THEN Smaller(2, objects + 1) ELSE objects
      /\ highest' = highest /\ stepped' = stepped
  BY <1>1, <1>2 DEF Send, exchange
<1>5. /\ clock \in Nat \ {0} /\ last[k] \in Nat /\ objects \in 0..2 /\ highest \in Nat
      /\ stepped \in BOOLEAN /\ \A r \in wire : r.nonce \in Nat
  BY <1>3 DEF DrawInv, NonceTyped
<1>6. n \in Nat \ {0} /\ n >= clock /\ n > last[k]
      /\ (last[k] < clock => n = clock)
  BY <1>1, <1>5 DEF Nonce, Larger
<1>7. /\ last[k] = 0 /\ objects = 0 => objects' = 1
      /\ last[k] = 0 /\ objects # 0 => objects' = 2
      /\ last[k] # 0 => objects' = objects
  BY <1>4, <1>5 DEF Smaller
<1>8. ASSUME objects' < 2 PROVE Below(n) /\ \A l \in Clients : last[l] # 0 => l = k
  <2>1. CASE last[k] = 0
    <3>1. objects = 0
      BY <1>5, <1>7, <1>8, <2>1
    <3>2. Below(1) /\ \A l \in Clients : last[l] = 0
      BY <3>1 DEF DrawInv, NothingDrawn, OneObjectKnows
    <3> QED
      BY <1>5, <1>6, <3>2 DEF Below
  <2>2. CASE last[k] # 0
    <3>1. Below(last[k] + 1) /\ \A l \in Clients : last[l] # 0 => l = k
      BY <1>3, <1>7, <1>8, <2>2 DEF DrawInv, OneObjectKnows
    <3> QED
      BY <1>5, <1>6, <3>1 DEF Below
  <2> QED
    BY <2>1, <2>2
<1>9. ASSUME ~stepped PROVE Below(n) /\ n = clock /\ \A l \in Clients : last[l] < clock
  <2>1. Below(clock) /\ \A l \in Clients : last[l] < clock
    BY <1>9 DEF DrawInv, ClockIsAhead
  <2> QED
    BY <1>3, <1>6, <2>1
<1>10. ~Excused' => Below(n)
  <2>1. CASE stepped
    <3>1. objects' \in 0..2
      BY <1>5, <1>7
    <3> QED
      BY <1>4, <1>8, <2>1, <3>1 DEF Excused
  <2>2. CASE ~stepped
    BY <1>9, <2>2
  <2> QED
    BY <2>1, <2>2
<1>11. ASSUME Below(n) PROVE highest' < n + 1 /\ \A r \in wire' : r.nonce < n + 1
  BY <1>4, <1>5, <1>6, <1>11 DEF Below
<1>12. last' \in [Clients -> Nat] /\ last'[k] = n /\ \A l \in Clients : l # k => last'[l] = last[l]
  BY <1>3, <1>4, <1>6 DEF DrawInv, NonceTyped
<1>13. NonceTyped'
  BY <1>4, <1>5, <1>6, <1>7, <1>12 DEF NonceTyped
<1>14. ClockIsAhead'
  <2> SUFFICES ASSUME ~stepped'
               PROVE  Below(clock)' /\ \A l \in Clients : last'[l] < clock'
    BY DEF ClockIsAhead
  <2>1. Below(n) /\ n = clock /\ \A l \in Clients : last[l] < clock
    BY <1>4, <1>9
  <2>2. Below(clock)'
    BY <1>4, <1>11, <2>1 DEF Below
  <2>3. ASSUME NEW l \in Clients PROVE last'[l] < clock'
    <3>1. last[l] \in Nat
      BY DEF DrawInv, NonceTyped
    <3> QED
      BY <1>4, <1>5, <1>12, <2>1, <3>1
  <2> QED
    BY <2>2, <2>3
<1>15. OneObjectKnows'
  <2> SUFFICES ASSUME objects' < 2, NEW l \in Clients, last'[l] # 0
               PROVE  /\ objects' = 1
                      /\ Below(last[l] + 1)'
                      /\ \A m \in Clients : last'[m] # 0 => m = l
    BY DEF OneObjectKnows
  <2>1. l = k /\ \A m \in Clients : last'[m] # 0 => m = l
    BY <1>8, <1>12
  <2>2. Below(last[l] + 1)'
    BY <1>8, <1>11, <1>12, <2>1 DEF Below
  <2>3. objects' = 1
    BY <1>3, <1>5, <1>7 DEF DrawInv, OneObjectKnows
  <2> QED
    BY <2>1, <2>2, <2>3
<1>16. NothingDrawn'
  BY <1>3, <1>5, <1>7 DEF DrawInv, NothingDrawn, OneObjectKnows
<1> QED
  BY <1>1, <1>10, <1>13, <1>14, <1>15, <1>16 DEF DrawInv

\* Every step keeps the nonces apart.
LEMMA DrawInvNext == DrawInv /\ [Next]_vars => DrawInv'
<1> SUFFICES ASSUME DrawInv, [Next]_vars PROVE DrawInv'
  OBVIOUS
<1>1. ASSUME NEW c \in Calls, Begin(c) PROVE DrawInv'
  <2>1. CASE Client(c) \in Renewed
    BY <1>1, <2>1, ClientAssumption, NewClientKeepsDraws DEF Begin, NewClient, exchange
  <2>2. CASE Client(c) \notin Renewed
    BY <1>1, <2>2, ArrivalKeepsDraws DEF Begin, exchange
  <2> QED
    BY <2>1, <2>2
<1>2. ASSUME NEW c \in Calls, Send(c) PROVE DrawInv'
  BY <1>2, SendKeepsDraws
<1>3. ASSUME NEW c \in Calls, GivesUp(c) PROVE DrawInv'
  BY <1>3, ArrivalKeepsDraws DEF GivesUp, End, exchange
<1>4. ASSUME NEW r \in wire, Arrive(r) PROVE DrawInv'
  <2>1. UNCHANGED <<clock, last, objects, stepped>>
    BY <1>4 DEF Arrive, Replies, End, history
  <2>2. wire' \subseteq wire /\ (highest' = highest \/ highest' = r.nonce)
    BY <1>4 DEF Arrive, exchange
  <2> QED
    BY <2>1, <2>2, ArrivalKeepsDraws
<1>5. CASE Restart
  BY <1>5, ClientAssumption, NewClientKeepsDraws DEF Restart, NewClient, exchange
<1>6. CASE StepBack
  <2>1. /\ clock' \in 1 .. clock - 1 /\ stepped' = TRUE
        /\ UNCHANGED <<last, wire, highest, objects>>
    BY <1>6 DEF StepBack, exchange
  <2>2. NonceTyped'
    BY <2>1 DEF DrawInv, NonceTyped
  <2> QED
    BY <2>1, <2>2 DEF DrawInv, ClockIsAhead, OneObjectKnows, NothingDrawn, Below
<1>7. CASE TimePasses \/ UNCHANGED vars
  BY <1>7, ArrivalKeepsDraws DEF TimePasses, vars, exchange
<1> QED
  BY <1>1, <1>2, <1>3, <1>4, <1>5, <1>6, <1>7 DEF Next, Step

\* A call that ends, or tries once more: when it ends on its nonce it has been
\* overtaken as often as it tried.
LEMMA EndKeepsCalls ==
  ASSUME RestInv, CallInv, NEW c \in Calls, pc[c] = "sent",
         NEW outcome \in {"ok", "refused", "nonce", "unknown"}, End(c, outcome),
         outcome = "nonce" /\ ~Excused => drawn[c] >= attempt[c],
         \A r \in wire' : r \in wire /\ (Overtaken(r)' => Overtaken(r))
  PROVE  CallInv'
<1>0. /\ pc \in [Calls -> {"idle", "acquiring", "sent", "done"}]
      /\ attempt \in [Calls -> {1, 2}]
      /\ result \in [Calls -> Results]
      /\ drawn \in [Calls -> 0..2]
      /\ \A r \in wire : r.call \in Calls
  BY DEF RestInv, Typed, OnItsWay, CallInv
<1>1. Excused' = Excused
  BY DEF End, Excused
<1>2. CASE Retried(c, outcome)
  <2>1. /\ attempt' = [attempt EXCEPT ![c] = 2]
        /\ pc' = [pc EXCEPT ![c] = "acquiring"]
        /\ result' = result /\ outcome = "nonce" /\ attempt[c] = 1
    BY <1>2 DEF End, Retried
  <2>2. drawn' = drawn
    BY <2>1 DEF End
  <2>3. OvertakenIsDrawn'
    <3> SUFFICES ASSUME ~Excused'
                 PROVE  /\ \A r \in wire' :
                             pc'[r.call] = "sent" /\ Overtaken(r)'
                               => drawn'[r.call] >= attempt'[r.call]
                        /\ \A d \in Calls :
                             /\ attempt'[d] = 2 /\ pc'[d] # "done" => drawn'[d] >= 1
                             /\ result'[d] = "nonce" => drawn'[d] = 2
      BY DEF OvertakenIsDrawn
    <3>1. ASSUME NEW r \in wire', pc'[r.call] = "sent", Overtaken(r)'
          PROVE  drawn'[r.call] >= attempt'[r.call]
      <4>1. r \in wire /\ Overtaken(r) /\ r.call # c /\ r.call \in Calls
        BY <1>0, <2>1, <3>1
      <4>2. pc[r.call] = "sent" /\ attempt'[r.call] = attempt[r.call]
        BY <1>0, <2>1, <3>1, <4>1
      <4> QED
        BY <1>1, <2>2, <4>1, <4>2 DEF CallInv, OvertakenIsDrawn
    <3>2. ASSUME NEW d \in Calls
          PROVE  /\ attempt'[d] = 2 /\ pc'[d] # "done" => drawn'[d] >= 1
                 /\ result'[d] = "nonce" => drawn'[d] = 2
      BY <1>0, <1>1, <2>1, <2>2 DEF CallInv, OvertakenIsDrawn
    <3> QED
      BY <3>1, <3>2
  <2> QED
    BY <1>0, <2>1, <2>2, <2>3 DEF CallInv
<1>3. CASE ~Retried(c, outcome)
  <2> DEFINE said == Surfaces(c, outcome)
  <2>1. /\ attempt' = attempt
        /\ pc' = [pc EXCEPT ![c] = "done"]
        /\ result' = [result EXCEPT ![c] = said]
    BY <1>3 DEF End
  <2>2. said = "nonce" => outcome = "nonce"
    BY DEF Surfaces
  <2> HIDE DEF said
  <2>3. drawn' = IF outcome # "nonce" THEN [drawn EXCEPT ![c] = 0] ELSE drawn
    <3>1. pc'[c] = "done"
      BY <1>0, <2>1
    <3> QED
      BY <3>1 DEF End
  <2>4. drawn' \in [Calls -> 0..2] /\ \A d \in Calls : d # c => drawn'[d] = drawn[d]
    BY <1>0, <2>3
  <2>5. OvertakenIsDrawn'
    <3> SUFFICES ASSUME ~Excused'
                 PROVE  /\ \A r \in wire' :
                             pc'[r.call] = "sent" /\ Overtaken(r)'
                               => drawn'[r.call] >= attempt'[r.call]
                        /\ \A d \in Calls :
                             /\ attempt'[d] = 2 /\ pc'[d] # "done" => drawn'[d] >= 1
                             /\ result'[d] = "nonce" => drawn'[d] = 2
      BY DEF OvertakenIsDrawn
    <3>1. ASSUME NEW r \in wire', pc'[r.call] = "sent", Overtaken(r)'
          PROVE  drawn'[r.call] >= attempt'[r.call]
      <4>1. r \in wire /\ Overtaken(r) /\ r.call # c /\ r.call \in Calls
        BY <1>0, <2>1, <3>1
      <4>2. pc[r.call] = "sent" /\ drawn'[r.call] = drawn[r.call]
        BY <1>0, <2>1, <2>4, <3>1, <4>1
      <4> QED
        BY <1>1, <2>1, <4>1, <4>2 DEF CallInv, OvertakenIsDrawn
    <3>2. ASSUME NEW d \in Calls, d # c
          PROVE  /\ attempt'[d] = 2 /\ pc'[d] # "done" => drawn'[d] >= 1
                 /\ result'[d] = "nonce" => drawn'[d] = 2
      BY <1>0, <1>1, <2>1, <2>4, <3>2 DEF CallInv, OvertakenIsDrawn
    <3>3. pc'[c] = "done"
      BY <1>0, <2>1
    <3>4. ASSUME result'[c] = "nonce" PROVE drawn'[c] = 2
      <4>1. outcome = "nonce"
        BY <1>0, <2>1, <2>2, <3>4
      <4>2. attempt[c] = 2
        BY <1>0, <1>3, <4>1 DEF Retried
      <4> QED
        BY <1>0, <1>1, <2>3, <4>1, <4>2
    <3> QED
      BY <3>1, <3>2, <3>3, <3>4
  <2>6. \A d \in Calls : pc'[d] = "idle" => attempt'[d] = 1
    BY <1>0, <2>1 DEF CallInv
  <2> QED
    BY <2>4, <2>5, <2>6 DEF CallInv
<1> QED
  BY <1>2, <1>3

\* A request is drawn: it overtakes those that wait.
LEMMA SendKeepsCalls ==
  ASSUME RestInv, DrawInv, CallInv, NEW c \in Calls, Send(c)
  PROVE  CallInv'
<1>0. /\ pc \in [Calls -> {"idle", "acquiring", "sent", "done"}]
      /\ attempt \in [Calls -> {1, 2}]
      /\ drawn \in [Calls -> 0..2]
      /\ \A r \in wire : r.call \in Calls /\ r.nonce \in Nat
      /\ highest \in Nat
  BY DEF RestInv, Typed, OnItsWay, CallInv, DrawInv, NonceTyped
<1>1. PICK n, new : n = Nonce(Client(c))
                    /\ new = [call |-> c, attempt |-> attempt[c], nonce |-> n]
  OBVIOUS
<1>2. /\ pc[c] = "acquiring"
      /\ wire' = wire \cup {new} /\ new.call = c /\ new.nonce = n
      /\ pc' = [pc EXCEPT ![c] = "sent"]
      /\ UNCHANGED <<attempt, result, highest>>
  BY <1>1 DEF Send, exchange
<1>3. /\ drawn' \in [Calls -> 0..2]
      /\ \A d \in Calls :
           drawn'[d] = IF d # c /\ (pc[d] = "sent" \/ attempt[d] = 2)
                       THEN Smaller(2, drawn[d] + 1) ELSE drawn[d]
  BY <1>0 DEF Send, Smaller
<1>4. /\ \A d \in Calls : drawn'[d] \in 0..2 /\ drawn'[d] >= drawn[d]
      /\ \A d \in Calls : d # c /\ (pc[d] = "sent" \/ attempt[d] = 2)
                            => drawn'[d] >= 1 /\ (drawn[d] >= 1 => drawn'[d] = 2)
  BY <1>0, <1>3 DEF Smaller
<1>5. ~Excused' => ~Excused
  BY DEF Excused, Send, Smaller, DrawInv, NonceTyped
<1>6. OvertakenIsDrawn'
  <2> SUFFICES ASSUME ~Excused'
               PROVE  /\ \A r \in wire' :
                           pc'[r.call] = "sent" /\ Overtaken(r)'
                             => drawn'[r.call] >= attempt'[r.call]
                      /\ \A d \in Calls :
                           /\ attempt'[d] = 2 /\ pc'[d] # "done" => drawn'[d] >= 1
                           /\ result'[d] = "nonce" => drawn'[d] = 2
    BY DEF OvertakenIsDrawn
  <2>1. Below(n)
    BY <1>1, SendKeepsDraws
  <2>2. n \in Nat
    BY <1>2, SendKeepsDraws DEF DrawInv, NonceTyped
  <2>3. ASSUME NEW r \in wire', pc'[r.call] = "sent", Overtaken(r)'
        PROVE  drawn'[r.call] >= attempt'[r.call]
    <3>1. r # new
      <4> SUFFICES ASSUME r = new PROVE FALSE
        OBVIOUS
      <4>1. highest' >= n \/ \E q \in wire' : q # new /\ q.nonce >= n
        BY <1>2, <2>3 DEF Overtaken
      <4>2. highest >= n \/ \E q \in wire : q.nonce >= n
        BY <1>2, <4>1
      <4> QED
        BY <1>0, <2>1, <2>2, <4>2 DEF Below
    <3>2. r \in wire /\ r.call \in Calls /\ pc[r.call] \in {"sent", "done"} /\ r.call # c
      BY <1>2, <3>1 DEF RestInv, OnItsWay
    <3>3. pc[r.call] = "sent"
      BY <1>0, <1>2, <2>3, <3>2
    <3>4. attempt[r.call] = 2 => drawn[r.call] >= 1
      BY <1>5, <3>2, <3>3 DEF CallInv, OvertakenIsDrawn
    <3> QED
      BY <1>0, <1>2, <1>4, <3>2, <3>3, <3>4
  <2>4. ASSUME NEW d \in Calls
        PROVE  /\ attempt'[d] = 2 /\ pc'[d] # "done" => drawn'[d] >= 1
               /\ result'[d] = "nonce" => drawn'[d] = 2
    <3>1. drawn[d] \in 0..2 /\ drawn'[d] \in 0..2 /\ drawn'[d] >= drawn[d]
      BY <1>0, <1>4
    <3>2. pc'[d] # "done" => pc[d] # "done"
      BY <1>0, <1>2
    <3> QED
      BY <1>2, <1>5, <3>1, <3>2 DEF CallInv, OvertakenIsDrawn
  <2> QED
    BY <2>3, <2>4
<1>7. \A d \in Calls : pc'[d] = "idle" => attempt'[d] = 1
  BY <1>0, <1>2 DEF CallInv
<1> QED
  BY <1>3, <1>6, <1>7 DEF CallInv

\* A request arrives: what it overtakes, it had overtaken on its way.
LEMMA ArriveKeepsCalls ==
  ASSUME RestInv, DrawInv, CallInv, NEW r \in wire, Arrive(r)
  PROVE  CallInv'
<1> DEFINE c == r.call
<1>0. /\ c \in Calls /\ r.attempt = attempt[c]
      /\ highest \in Nat /\ \A q \in wire : q.nonce \in Nat
  BY DEF RestInv, OnItsWay, DrawInv, NonceTyped
<1>1. wire' = wire \ {r}
  BY DEF Arrive
<1>2. highest' = highest \/ highest' = r.nonce
  BY DEF Arrive, exchange
<1>3. \A q \in wire' : q \in wire /\ (Overtaken(q)' => Overtaken(q))
  <2> SUFFICES ASSUME NEW q \in wire', Overtaken(q)' PROVE q \in wire /\ Overtaken(q)
    BY <1>1
  <2>1. q \in wire /\ q # r
    BY <1>1
  <2>2. highest' >= q.nonce \/ \E p \in wire' : p # q /\ p.nonce >= q.nonce
    BY DEF Overtaken
  <2>3. highest >= q.nonce \/ \E p \in wire : p # q /\ p.nonce >= q.nonce
    BY <1>1, <1>2, <2>1, <2>2
  <2> QED
    BY <2>1, <2>3 DEF Overtaken
<1> DEFINE answered(code) == pc[c] = "sent" /\ End(c, code)
           lost == UNCHANGED <<pc, attempt, result, drawn, objects, stepped>>
<1>4. PICK code \in {"ok", "refused", "nonce"} :
        /\ answered(code) \/ lost
        /\ code = "nonce" => r.nonce <= highest
  BY DEF Arrive, Replies, call, history
<1>5. CASE answered(code)
  <2>1. code = "nonce" /\ ~Excused => drawn[c] >= attempt[c]
    <3> SUFFICES ASSUME code = "nonce", ~Excused PROVE drawn[c] >= attempt[c]
      OBVIOUS
    <3>1. Overtaken(r)
      BY <1>0, <1>4 DEF Overtaken
    <3> QED
      BY <1>5, <3>1 DEF CallInv, OvertakenIsDrawn
  <2> QED
    BY <1>0, <1>3, <1>5, <2>1, EndKeepsCalls
<1>6. CASE lost
  BY <1>3, <1>6 DEF CallInv, OvertakenIsDrawn, Excused
<1> QED
  BY <1>4, <1>5, <1>6

\* Every step keeps the nonces of the waiting calls among those that were drawn.
LEMMA CallInvNext == RestInv /\ DrawInv /\ CallInv /\ [Next]_vars => CallInv'
<1> SUFFICES ASSUME RestInv, DrawInv, CallInv, [Next]_vars PROVE CallInv'
  OBVIOUS
<1>0. /\ pc \in [Calls -> {"idle", "acquiring", "sent", "done"}]
      /\ result \in [Calls -> Results]
      /\ \A r \in wire : r.call \in Calls
  BY DEF RestInv, Typed, OnItsWay
<1>1. ASSUME NEW c \in Calls, Begin(c) PROVE CallInv'
  <2>1. /\ pc[c] = "idle" /\ pc' = [pc EXCEPT ![c] = "acquiring"]
        /\ UNCHANGED <<attempt, result, wire, highest, drawn, objects, stepped>>
    BY <1>1 DEF Begin, exchange
  <2>2. attempt[c] = 1
    BY <2>1 DEF CallInv
  <2>3. \A d \in Calls : pc'[d] = IF d = c THEN "acquiring" ELSE pc[d]
    BY <1>0, <2>1
  <2>4. \A r \in wire : Overtaken(r)' <=> Overtaken(r)
    BY <2>1 DEF Overtaken
  <2>5. OvertakenIsDrawn'
    BY <1>0, <2>1, <2>2, <2>3, <2>4 DEF CallInv, OvertakenIsDrawn, Excused
  <2> QED
    BY <2>1, <2>2, <2>3, <2>5 DEF CallInv
<1>2. ASSUME NEW c \in Calls, Send(c) PROVE CallInv'
  BY <1>2, SendKeepsCalls
<1>3. ASSUME NEW c \in Calls, GivesUp(c) PROVE CallInv'
  <2>1. pc[c] = "sent" /\ End(c, "unknown") /\ UNCHANGED <<wire, highest>>
    BY <1>3 DEF GivesUp, exchange
  <2>2. \A r \in wire' : r \in wire /\ (Overtaken(r)' => Overtaken(r))
    BY <2>1 DEF Overtaken
  <2> QED
    BY <2>1, <2>2, EndKeepsCalls
<1>4. ASSUME NEW r \in wire, Arrive(r) PROVE CallInv'
  BY <1>4, ArriveKeepsCalls
<1>5. CASE Restart
  <2> DEFINE dead(c) == Client(c) = Bot /\ pc[c] \in {"acquiring", "sent"}
  <2>1. /\ pc' = [c \in Calls |-> IF dead(c) THEN "done" ELSE pc[c]]
        /\ result' = [c \in Calls |-> IF dead(c) THEN "unknown" ELSE result[c]]
        /\ UNCHANGED <<attempt, wire, highest, drawn, objects, stepped>>
    BY <1>5 DEF Restart, exchange
  <2>2. \A c \in Calls : /\ pc'[c] # "done" => pc'[c] = pc[c]
                         /\ result'[c] = "nonce" => result[c] = "nonce"
    BY <1>0, <2>1
  <2>3. \A r \in wire : Overtaken(r)' <=> Overtaken(r)
    BY <2>1 DEF Overtaken
  <2>4. OvertakenIsDrawn'
    BY <1>0, <2>1, <2>2, <2>3 DEF CallInv, OvertakenIsDrawn, Excused
  <2> QED
    BY <2>1, <2>2, <2>4 DEF CallInv
<1>6. CASE StepBack \/ TimePasses \/ UNCHANGED vars
  <2>1. /\ UNCHANGED <<pc, attempt, result, wire, highest, drawn, objects>>
        /\ stepped' = TRUE \/ stepped' = stepped
    BY <1>6 DEF StepBack, TimePasses, vars, call, exchange
  <2>2. ~Excused' => ~Excused
    BY <1>6 DEF Excused, StepBack, TimePasses, vars
  <2>3. \A r \in wire : Overtaken(r)' <=> Overtaken(r)
    BY <2>1 DEF Overtaken
  <2> QED
    BY <2>1, <2>2, <2>3 DEF CallInv, OvertakenIsDrawn
<1> QED
  BY <1>1, <1>2, <1>3, <1>4, <1>5, <1>6 DEF Next, Step

\* A call that was tried twice and still fails on its nonce was overtaken by two
\* requests drawn since, unless the clock was stepped back and another object had
\* drawn from it (_nonce, _post).
THEOREM NonceTheorem == Spec => []NonceFailureIsExplained
<1>1. Init => DrawInv
  <2> SUFFICES ASSUME Init PROVE DrawInv
    OBVIOUS
  <2>1. NonceTyped
    <3>1. /\ clock = 1 /\ highest = 0 /\ wire = {} /\ objects = 0 /\ stepped = FALSE
          /\ last = [k \in Clients |-> 0]
      BY DEF Init
    <3>2. last \in [Clients -> Nat]
      <4>1. [k \in Clients |-> 0] \in [Clients -> Nat]
        OBVIOUS
      <4> QED
        BY <3>1, <4>1, Zenon
    <3>3. clock \in Nat \ {0} /\ highest \in Nat /\ objects \in 0..2
      BY <3>1
    <3>4. stepped \in BOOLEAN
      BY <3>1, Zenon
    <3>5. \A r \in wire : r.nonce \in Nat
      BY <3>1
    <3> QED
      BY <3>2, <3>3, <3>4, <3>5, Zenon DEF NonceTyped
  <2> QED
    BY <2>1 DEF Init, DrawInv, ClockIsAhead, OneObjectKnows, NothingDrawn, Below
<1>2. Init => CallInv
  <2> SUFFICES ASSUME Init PROVE CallInv
    OBVIOUS
  <2>1. drawn \in [Calls -> 0..2]
    BY DEF Init
  <2> QED
    BY <2>1, NoneAssumption DEF Init, CallInv, OvertakenIsDrawn
<1>3. CallInv => NonceFailureIsExplained
  BY DEF CallInv, OvertakenIsDrawn, Excused, NonceFailureIsExplained
<1> QED
  BY <1>1, <1>2, <1>3, RestInvInit, RestInvNext, DrawInvNext, CallInvNext, PTL DEF Spec

=============================================================================
