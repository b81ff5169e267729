----------------------------- MODULE MCDelivery -----------------------------
(* Values of Delivery's constants for TLC. *)
EXTENDS Delivery, TLC

CONSTANTS d1, d2, w1, w2, k1, k2, s1, u1, a1, a2, telegram, email, chat, inbox

\* One coroutine in each of two workers, or both on the loop of one worker.
OnePerWorker == [d \in {d1, d2} |-> IF d = d1 THEN w1 ELSE w2]
OneWorker == [d \in Dispatch |-> w1]

LiveAndDry == [w \in {w1, w2} |-> w = w1]
OneLive == [w \in {w1} |-> TRUE]

\* The trigger keys are those of consecutive buckets of one rule and market.
SameScope == [k \in TriggerKey |-> s1]
OneUser == [a \in Alert |-> u1]

TelegramOnly == [a \in Alert |-> <<telegram>>]
BothOrders == [a \in Alert |-> IF a = a1 THEN <<telegram, email>> ELSE <<email, telegram>>]

Cooldowns == [a \in Alert |-> IF a = a1 THEN 2 ELSE 1]
NoCooldown == [a \in Alert |-> 0]

AllBound ==
  [uc \in User \X Channel |-> IF uc[2] = telegram THEN chat ELSE inbox]
TelegramBound ==
  [uc \in User \X Channel |-> IF uc[2] = telegram THEN chat ELSE NoDestination]
FullBindings == {AllBound}
BothBindings == {AllBound, TelegramBound}
=============================================================================
