------------------------------ MODULE Backoff ------------------------------
(***************************************************************************)
(* How long a failed reconcile of the controller, and a failed sync of the *)
(* agent, wait before the next try.  Both mean to double the wait from 30 s *)
(* to 5 min.  The controller doubles in a loop; the agent shifts an int64   *)
(* count of nanoseconds.  Waits are in seconds.                             *)
(***************************************************************************)
EXTENDS Integers

First == 30
Cap == 300

Lesser(a, b) == IF a <= b THEN a ELSE b

\* backoffDelay's loop after i turns: it ends when the delay is beyond the cap.
Doubled[i \in Nat] ==
    IF i = 0 THEN First
    ELSE IF Doubled[i - 1] < Cap THEN 2 * Doubled[i - 1] ELSE Doubled[i - 1]

\* Faulty variant of ControllerDelay: the doubled delay is not capped.
ControllerDelayUncapped(n) == Doubled[n - 1]

\* backoffDelay after n failures.
ControllerDelay(n) == IF n = 0 THEN First ELSE Lesser(Doubled[n - 1], Cap)

\* 30 * time.Second << k, an int64.  30 s are Significand * 2^10 ns, and of the
\* product's bits only those below 2^64 stay; bit 63 is the sign.  Negative
\* stands for any negative number, Large for any number beyond Cap.
Significand == 29296875
Negative == -1
Large == Cap + 1

SignBit(k) == Significand % 2^(54 - k) >= 2^(53 - k)

Shifted(k) ==
    IF k < 4 THEN First * 2^k
    ELSE IF k < 29 THEN Large
    ELSE IF k > 53 THEN 0
    ELSE IF SignBit(k) THEN Negative
    ELSE Large

\* min(30*time.Second << (n-1), 5*time.Minute); a negative delay puts
\* backoffUntil into the past.
AgentDelay(n) ==
    LET delay == Lesser(Shifted(n - 1), Cap)
    IN  IF delay < 0 THEN 0 ELSE delay

\* "30s, 60s, 120s, 240s, 300s (capped)" (gatewaysync_controller.go:295).
Documented(n) ==
    CASE n = 0 -> 0
      [] n = 1 -> 30
      [] n = 2 -> 60
      [] n = 3 -> 120
      [] n = 4 -> 240
      [] OTHER -> 300

=============================================================================
