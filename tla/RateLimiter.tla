----------------------------- MODULE RateLimiter -----------------------------
(***************************************************************************)
(* DistributedRateLimiterService.waitForOutboundSlot: workers share the    *)
(* slots of one sender through counters in Redis, one per second and one   *)
(* per second and traffic class.  A worker reads its clock before it asks  *)
(* Redis, so an answer may come after the second it is about.  Each second *)
(* has keys of its own: the model follows the keys of one.                 *)
(***************************************************************************)
EXTENDS Integers

CONSTANTS Senders,       \* configurations: limit, transactional and marketing share
          RateWorkers,   \* workers that send for the sender
          Second,        \* ticks in a second
          Reservation,   \* OUTBOUND_PRIORITY_RESERVATION_WINDOW_MS, in ticks
          FallbackLimit, \* what an unusable limit becomes
          MaxLag         \* bound: ticks between a clock reading and its eval

VARIABLES sender,        \* the sender's configuration, shares in percent
          clock,         \* ticks since the second began
          call,          \* each worker's call
          total,         \* the counter of the second, with its expiry
          classTotal,    \* the counter of the second for each class
          admitted,      \* history: slots given for the second
          reserved       \* history: those of each class asked for in the
                         \* reservation phase

rateVars == <<sender, clock, call, total, classTotal, admitted, reserved>>

ASSUME RateAssumption ==
  /\ Senders \subseteq [limit : Int, transactional : Int, marketing : Int]
  /\ Second \in Nat \ {0} /\ Reservation \in 0 .. Second - 1
  /\ MaxLag \in 0 .. Second - 1
  /\ FallbackLimit \in Nat \ {0}

RateClasses == {"OTP", "TRANSACTIONAL", "MARKETING"}
Clocks == 0 .. Second + MaxLag   \* until no answer about the second is due
NoCounter == [count |-> 0, expires |-> 0]
RateIdle == [pc |-> "idle"]

RateInit ==
  /\ sender \in Senders
  /\ clock = 0
  /\ call = [w \in RateWorkers |-> RateIdle]
  /\ total = NoCounter
  /\ classTotal = [k \in RateClasses |-> NoCounter]
  /\ admitted = 0
  /\ reserved = [k \in RateClasses |-> 0]

(***************************************************************************)
(* The configuration in force: unusable values fall back, and shares that  *)
(* leave less than a tenth are both replaced.                              *)
(***************************************************************************)
Limit == IF sender.limit > 0 THEN sender.limit ELSE FallbackLimit
Share(value, fallback) == IF value \in 1 .. 100 THEN value ELSE fallback
ReservationShares ==
  LET transactional == Share(sender.transactional, 60)
      marketing == Share(sender.marketing, 20)
  IN  IF transactional + marketing > 90
      THEN [TRANSACTIONAL |-> 60, MARKETING |-> 20]
      ELSE [TRANSACTIONAL |-> transactional, MARKETING |-> marketing]

AtLeastOne(n) == IF n > 1 THEN n ELSE 1
ReservedClassLimitRoundedUp(k) ==
  IF k = "OTP" THEN Limit ELSE (Limit * ReservationShares[k] + 99) \div 100
ReservedClassLimit(k) ==
  IF k = "OTP" THEN Limit ELSE AtLeastOne((Limit * ReservationShares[k]) \div 100)

CanBorrow(elapsed) == elapsed >= Reservation
ClassLimit(elapsed, k) == IF CanBorrow(elapsed) THEN Limit ELSE ReservedClassLimit(k)

(***************************************************************************)
(* The counters in Redis.  An expired key reads as absent; the first INCR  *)
(* gives a key its time to live, and no later one renews it.               *)
(***************************************************************************)
TtlOfOneSecond == Second
Ttl == 2 * Second
Count(key) == IF key.expires > clock THEN key.count ELSE 0
Incr(key) ==
  IF Count(key) = 0 THEN [count |-> 1, expires |-> clock + Ttl]
  ELSE [key EXCEPT !.count = @ + 1]

-----------------------------------------------------------------------------
(* The dispatcher asks for a slot: ensureConnected passes and Date.now() is *)
(* read, with which the script is sent.                                    *)
Attempt(k) == [pc |-> "eval", class |-> k, at |-> clock]
WaitForOutboundSlot(w) ==
  /\ call[w].pc = "idle"
  /\ clock < Second
  /\ \E k \in RateClasses : call' = [call EXCEPT ![w] = Attempt(k)]
  /\ UNCHANGED <<sender, clock, total, classTotal, admitted, reserved>>

(* Redis is closed, cannot be reached or rejects the script: the call throws. *)
RedisFails(w) ==
  /\ call[w].pc = "eval"
  /\ call' = [call EXCEPT ![w] = RateIdle]
  /\ UNCHANGED <<sender, clock, total, classTotal, admitted, reserved>>

(* RESERVE_SLOT_LUA runs, with the second and the limits of the reading.   *)
ReserveSlot(w) ==
  LET k == call[w].class
      at == call[w].at
  IN  /\ call[w].pc = "eval"
      /\ Count(total) < Limit
      /\ Count(classTotal[k]) < ClassLimit(at, k)
      /\ total' = Incr(total)
      /\ classTotal' = [classTotal EXCEPT ![k] = Incr(@)]
      /\ admitted' = admitted + 1
      /\ reserved' = IF CanBorrow(at) THEN reserved ELSE [reserved EXCEPT ![k] = @ + 1]
      /\ call' = [call EXCEPT ![w] = RateIdle]
      /\ UNCHANGED <<sender, clock>>

(* No slot: sleep to the end of the phase the clock was read in.           *)
NoSlot(w) ==
  LET k == call[w].class
      at == call[w].at
      phaseEnd == IF CanBorrow(at) THEN Second ELSE Reservation
  IN  /\ call[w].pc = "eval"
      /\ \/ Count(total) >= Limit
         \/ Count(classTotal[k]) >= ClassLimit(at, k)
      /\ call' = [call EXCEPT ![w] = [pc |-> "sleep", class |-> k,
                                      wake |-> clock + phaseEnd - at]]
      /\ UNCHANGED <<sender, clock, total, classTotal, admitted, reserved>>

(* The next attempt; in a later second it turns to other keys.             *)
Awake(w) ==
  /\ call[w].pc = "sleep"
  /\ call[w].wake <= clock
  /\ call' = [call EXCEPT ![w] = IF clock < Second THEN Attempt(@.class) ELSE RateIdle]
  /\ UNCHANGED <<sender, clock, total, classTotal, admitted, reserved>>

(* Time passes, but not beyond the lag of a call that Redis still holds.   *)
RateTick ==
  /\ clock + 1 \in Clocks
  /\ \A w \in RateWorkers : call[w].pc = "eval" => clock - call[w].at < MaxLag
  /\ clock' = clock + 1
  /\ UNCHANGED <<sender, call, total, classTotal, admitted, reserved>>

RateNext ==
  \/ \E w \in RateWorkers :
       \/ WaitForOutboundSlot(w) \/ RedisFails(w)
       \/ ReserveSlot(w) \/ NoSlot(w) \/ Awake(w)
  \/ RateTick

RateSpec == RateInit /\ [][RateNext]_rateVars

-----------------------------------------------------------------------------
Counters == [count : Nat, expires : Nat]
Calls == {RateIdle} \cup [pc : {"eval"}, class : RateClasses, at : 0 .. Second - 1]
         \cup [pc : {"sleep"}, class : RateClasses, wake : Nat]
RateTypeOK ==
  /\ sender \in Senders
  /\ clock \in Clocks
  /\ call \in [RateWorkers -> Calls]
  /\ total \in Counters
  /\ classTotal \in [RateClasses -> Counters]
  /\ admitted \in Nat
  /\ reserved \in [RateClasses -> Nat]

(***************************************************************************)
(* However late the answers come (up to MaxLag), the slots given for one   *)
(* second never exceed the sender's limit: no counter is gone while a      *)
(* worker can still ask for its second.                                    *)
(***************************************************************************)
SecondWithinLimit == admitted <= Limit

(***************************************************************************)
(* What reservationShares says it preserves: in the reservation phase the  *)
(* other classes together leave OTP a slot.  AtLeastOne breaks this for    *)
(* small limits: it holds from a limit of 10 on, and from 3 on with the    *)
(* default shares.                                                         *)
(***************************************************************************)
DefaultShares == [TRANSACTIONAL |-> 60, MARKETING |-> 20]
OtpHeadroom ==
  (Limit >= 10 \/ (Limit >= 3 /\ ReservationShares = DefaultShares)) 
    => reserved["TRANSACTIONAL"] + reserved["MARKETING"] < Limit
=============================================================================
