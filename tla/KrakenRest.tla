----------------------------- MODULE KrakenRest -----------------------------
(***************************************************************************)
(* Private calls to Kraken (cryptotrader/exchange/kraken_rest.py): the     *)
(* token bucket, the nonce, the single retry, and the network in between.  *)
(*                                                                         *)
(* A call is one use of a method of KrakenRest.  The tasks of the bot      *)
(* share one client; the balance panel of the TUI and the daily check make *)
(* their own on the same API key.  A request may be overtaken by a later   *)
(* one, may arrive after its caller gave up, and its reply may be lost.    *)
(*                                                                         *)
(* A unit of time restores one token.  The wall clock counts microseconds, *)
(* so two nonces are never drawn at one reading: it advances with each     *)
(* draw, and it may be stepped back.                                       *)
(***************************************************************************)
EXTENDS Integers, Sequences

CONSTANTS
  Clients,    \* the client objects of this API key
  Bot,        \* the one the bot's tasks share
  Renewed,    \* those made anew for each call: the balance panel's
  Callers,    \* the tasks that call
  ClientOf,   \* the client each of them calls through
  Plan,       \* the endpoints each of them calls, one after the other
  Capacity,   \* burst size of the bucket (15)
  MaxFaults,  \* bound: steps of the clock, restarts
  None        \* no result yet

ASSUME ClientAssumption ==
  /\ Bot \in Clients /\ Renewed \subseteq Clients \ {Bot}
  /\ ClientOf \in [Callers -> Clients]
ASSUME NumberAssumption ==
  /\ Capacity \in Nat \ {0} /\ MaxFaults \in Nat
ASSUME NoneAssumption == None \notin {"ok", "refused", "nonce", "unknown", "swallowed"}

\* The n-th call of a task.
Calls == UNION {{<<p, n>> : n \in DOMAIN Plan[p]} : p \in Callers}

Client(c) == ClientOf[c[1]]
Endpoint(c) == Plan[c[1]][c[2]]

VARIABLES
  clock,     \* time.time(), in microseconds
  last,      \* each client's _last_nonce
  tokens,    \* each client's _tokens
  pc,        \* each call: idle, acquiring, sent or done
  attempt,   \* which try of _post it is at
  result,    \* what the call returned or raised
  wire,      \* requests on their way
  highest,   \* the exchange: highest nonce it accepted for the key
  executed,  \* the exchange: how often it carried the call out
  drawn,     \* history: requests others drew since the call's first (2: or more),
             \* forgotten when it ends otherwise than on its nonce
  objects,   \* history: client objects that drew a nonce (2: or more)
  stepped,   \* history: the clock was stepped back
  burst,     \* history: see Sent
  faults     \* faults so far

vars == <<clock, last, tokens, pc, attempt, result, wire, highest,
          executed, drawn, objects, stepped, burst, faults>>

call == <<pc, attempt, result>>
exchange == <<highest, executed>>
history == <<drawn, objects, stepped, burst>>

Init ==
  /\ clock = 1
  /\ last = [k \in Clients |-> 0]
  /\ tokens = [k \in Clients |-> Capacity]
  /\ pc = [c \in Calls |-> "idle"]
  /\ attempt = [c \in Calls |-> 1]
  /\ result = [c \in Calls |-> None]
  /\ wire = {} /\ highest = 0
  /\ executed = [c \in Calls |-> 0]
  /\ drawn = [c \in Calls |-> 0]
  /\ objects = 0 /\ stepped = FALSE
  /\ burst = [k \in Clients |-> 0]
  /\ faults = 0

Fault ==
  /\ faults < MaxFaults
  /\ faults' = faults + 1

Larger(m, n) == IF m > n THEN m ELSE n
Smaller(m, n) == IF m < n THEN m ELSE n

-----------------------------------------------------------------------------
(* The client *)

\* KrakenRest() and _TokenBucket(): no nonce drawn, a full bucket.
NewClient(k) ==
  /\ last' = [last EXCEPT ![k] = 0]
  /\ tokens' = [tokens EXCEPT ![k] = Capacity]
  /\ burst' = [burst EXCEPT ![k] = 0]

Begin(c) ==
  /\ pc[c] = "idle"
  /\ \A n \in 1 .. c[2] - 1 : pc[<<c[1], n>>] = "done"
  /\ pc' = [pc EXCEPT ![c] = "acquiring"]
  /\ IF Client(c) \in Renewed THEN NewClient(Client(c))
     ELSE UNCHANGED <<last, tokens, burst>>
  /\ UNCHANGED <<clock, attempt, result, wire, exchange, drawn, objects,
                 stepped, faults>>

\* Mutant of Nonce: the clock alone.
NonceOfTheClock(k) == clock

Nonce(k) == Larger(clock, last[k] + 1)

\* The greatest, over every instant that a window may have started at, of the
\* requests k sent in it less the units that passed.
Sent(k) == burst' = [burst EXCEPT ![k] = @ + 1]

\* _post_once up to its await: a token, a nonce, a request.
Send(c) ==
  LET k == Client(c) IN
  /\ pc[c] = "acquiring"
  /\ tokens[k] >= 1
  /\ tokens' = [tokens EXCEPT ![k] = @ - 1]
  /\ last' = [last EXCEPT ![k] = Nonce(k)]
  /\ clock' = clock + 1
  /\ wire' = wire \cup {[call |-> c, attempt |-> attempt[c], nonce |-> Nonce(k)]}
  /\ pc' = [pc EXCEPT ![c] = "sent"]
  /\ Sent(k)
  /\ drawn' = [d \in Calls |-> IF d # c /\ (pc[d] = "sent" \/ attempt[d] = 2)
                               THEN Smaller(2, drawn[d] + 1) ELSE drawn[d]]
  /\ objects' = IF last[k] = 0 THEN Smaller(2, objects + 1) ELSE objects
  /\ UNCHANGED <<attempt, result, exchange, stepped, faults>>

\* Mutant of Retried: whatever went wrong is tried again.
RetriedAnyway(c, outcome) == attempt[c] = 1 /\ outcome # "ok"

\* _post: once more after an invalid nonce, and only then.
Retried(c, outcome) == attempt[c] = 1 /\ outcome = "nonce"

\* cancel_order logs what went wrong and returns; the other methods raise.
Surfaces(c, outcome) ==
  IF Endpoint(c) = "CancelOrder" /\ outcome # "ok" THEN "swallowed" ELSE outcome

\* ok: the result of a call; refused and nonce: RuntimeError from the error
\* field; unknown: any other exception, the RuntimeError of an AddOrder whose
\* reply names no txid included.
End(c, outcome) ==
  /\ IF Retried(c, outcome)
     THEN /\ attempt' = [attempt EXCEPT ![c] = 2]
          /\ pc' = [pc EXCEPT ![c] = "acquiring"]
          /\ UNCHANGED result
     ELSE /\ pc' = [pc EXCEPT ![c] = "done"]
          /\ result' = [result EXCEPT ![c] = Surfaces(c, outcome)]
          /\ UNCHANGED attempt
  /\ drawn' = IF pc'[c] = "done" /\ outcome # "nonce" THEN [drawn EXCEPT ![c] = 0]
                                                         ELSE drawn
  /\ UNCHANGED <<clock, last, tokens, objects, stepped, burst, faults>>

\* Mutant of GivesUp: a request without a timeout.
WaitsOn(c) == FALSE /\ UNCHANGED vars

\* ClientTimeout(total=10); or no connection, a broken one, a status other than
\* 200, a body that is no JSON.
GivesUp(c) ==
  /\ pc[c] = "sent"
  /\ End(c, "unknown")
  /\ UNCHANGED <<wire, exchange>>

\* The bot dies in whatever it was calling, and starts with a new client.
Restart ==
  /\ Fault
  /\ LET dead(c) == Client(c) = Bot /\ pc[c] \in {"acquiring", "sent"} IN
     /\ pc' = [c \in Calls |-> IF dead(c) THEN "done" ELSE pc[c]]
     /\ result' = [c \in Calls |-> IF dead(c) THEN "unknown" ELSE result[c]]
  /\ NewClient(Bot)
  /\ UNCHANGED <<clock, attempt, wire, exchange, drawn, objects, stepped>>

-----------------------------------------------------------------------------
(* Time, the network and the exchange *)

StepBack ==
  /\ Fault
  /\ clock' \in 1 .. clock - 1
  /\ stepped' = TRUE
  /\ UNCHANGED <<last, tokens, call, wire, exchange, drawn, objects, burst>>

\* Mutant of Refill: nothing caps the bucket.
RefillBeyond(k) == tokens[k] + (IF burst[k] = 0 /\ tokens[k] > Capacity THEN 0 ELSE 1)

Refill(k) == Smaller(Capacity, tokens[k] + 1)

\* A task that waits for a token takes it before the next unit is over.
TimePasses ==
  /\ \A c \in Calls : pc[c] = "acquiring" => tokens[Client(c)] < 1
  /\ tokens' = [k \in Clients |-> Refill(k)]
  /\ burst' = [k \in Clients |-> Larger(0, burst[k] - 1)]
  /\ UNCHANGED <<clock, last, pc, attempt, result, wire, exchange, drawn,
                 objects, stepped, faults>>

\* The reply reaches a caller that still waits for it, or is lost on its way: a
\* slow one would only let others draw more in the meantime.
Replies(r, code) ==
  \/ /\ pc[r.call] = "sent"
     /\ attempt[r.call] = r.attempt
     /\ End(r.call, code)
  \/ UNCHANGED <<clock, last, tokens, call, history, faults>>

\* The exchange refuses a nonce that is not above all it accepted, before
\* executing anything; else it executes the request or refuses it.
Arrive(r) ==
  /\ wire' = wire \ {r}
  /\ \/ /\ r.nonce <= highest
        /\ Replies(r, "nonce")
        /\ UNCHANGED exchange
     \/ /\ r.nonce > highest
        /\ highest' = r.nonce
        /\ \/ /\ executed' = [executed EXCEPT ![r.call] = @ + 1]
              /\ Replies(r, "ok")
           \/ /\ Replies(r, "refused")
              /\ UNCHANGED executed

Step(c) == Send(c) \/ GivesUp(c)

Next ==
  \/ \E c \in Calls : Begin(c) \/ Step(c)
  \/ \E r \in wire : Arrive(r)
  \/ Restart \/ StepBack \/ TimePasses

Spec == Init /\ [][Next]_vars

\* Time passes and the event loop serves what is due; nothing is asked of the
\* network.
FairSpec ==
  /\ Spec
  /\ WF_vars(TimePasses)
  /\ WF_vars(\E c \in Calls : Step(c))

-----------------------------------------------------------------------------
(* Properties *)

Told == {"refused", "nonce"}

\* A call is carried out at most once, its retry included, also when its
\* requests arrive after it gave up; one that returned was; and one that raised
\* a RuntimeError was not and will not be (_post: "re-signing with a fresh
\* nonce is safe even for AddOrder"), so that its caller may forget it.
OutcomeIsTrue ==
  \A c \in Calls :
    /\ executed[c] <= 1
    /\ result[c] = "ok" => executed[c] = 1
    /\ result[c] \in Told => executed[c] = 0 /\ \A r \in wire : r.call # c

\* A call that fails on its nonce although it was tried twice was overtaken
\* twice, by two requests drawn in the meantime; or else the clock was stepped
\* back and another client object had drawn from it.  A single client is safe
\* from the clock (_nonce: "robust to NTP clock adjustments").
NonceFailureIsExplained ==
  \A c \in Calls : result[c] = "nonce" =>
    \/ drawn[c] = 2
    \/ stepped /\ objects = 2

\* In no window of time does a client send more than Capacity requests and one
\* for each unit of the window, whatever its tasks do (_TokenBucket: "exceeding
\* Kraken's rate limit earns a temporary ban").
BurstIsBounded == \A k \in Clients : burst[k] <= Capacity

InProgress == \E c \in Calls : pc[c] \in {"acquiring", "sent"}

\* The calls that were begun return or raise, whatever becomes of their requests
\* and however few tokens are left.
EveryCallEnds == InProgress ~> ~InProgress
=============================================================================
